SPECIFICATION FairSpec
CONSTANTS
  t1 = t1  author = author
  Workspaces = {w1}
  Promotions = {p1}
  Tasks = {t1}
  TaskOf <- MCTaskOf
  Roles = {author, other}
  Assignee <- MCAssignee
  Owners = {}
  Outside = {}
  Commits <- MCCommits
  None = None
  Root = Root
  Foreign = {}
  Callers = {c1}
  Builders = {c1}
  Others = {}
  Batch = 1
  MaxFaults = 0
PROPERTY InterruptedApplyRecovered
CHECK_DEADLOCK FALSE
