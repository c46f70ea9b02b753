CONSTANTS
  j1 = j1  j2 = j2  j3 = j3
  None = None
  Jobs = {j2}
  Priority <- DefaultPriority
  Clients = {c1}
  Delays = {0, 2}
  Band = 10
  Horizon = 3
  AddLimit = 2
SPECIFICATION Spec
CHECK_DEADLOCK FALSE
PROPERTY BackoffIsHonoured
