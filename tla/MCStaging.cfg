SPECIFICATION FairSpec
CONSTANTS
  t1 = t1  author = author
  Workspaces = {w1}
  Promotions = {p1}
  Tasks = {t1}
  TaskOf <- MCTaskOf
  Roles = {author, other}
  Assignee <- MCAssignee
  Owners = {}
  Outside = {"check"}
  Commits <- MCCommits
  None = None
  Root = Root
  Foreign = {f1}
  Callers = {c1, c2}
  Builders = {c1}
  Others = {o1}
  Batch = 1
  MaxFaults = 1
INVARIANTS ApprovedIsBacked TargetMatchesRecords NothingPromotedIsLost
PROPERTY GhostWorkspaceResolves
CHECK_DEADLOCK FALSE
