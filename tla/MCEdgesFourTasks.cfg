SPECIFICATION EdgeSpec
CONSTANTS
  Tasks = {a, b, c, d}
  Callers = {x, y}
  NoCaller = NoCaller
SYMMETRY PermutedTasks
INVARIANT
  CommittedAcyclic
