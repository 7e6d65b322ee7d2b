SPECIFICATION EdgeSpec
CONSTANTS
  Tasks = {a, b, c}
  Callers = {x, y}
  NoCaller = NoCaller
INVARIANTS
  CommittedAcyclic
  OverlappingEdgesSerialised
PROPERTY
  EveryCallReturns
