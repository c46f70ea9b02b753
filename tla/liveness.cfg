CONSTANTS
  j1 = j1  j2 = j2  w1 = w1  w2 = w2  t1 = t1  t2 = t2  e1 = e1
  None = None
  Jobs <- TwoJobs
  Priority <- TwoPriorities
  MaxRetries <- TwoRetries
  Workers = {w1, w2}
  Threads = {t1}
  Errors = {e1}
  Mortal = {w1}
  Fallible = {}
  Endpoints = {"create", "cancel"}
  ReissueLimit = 0
SPECIFICATION FairSpec
CHECK_DEADLOCK FALSE
PROPERTY EveryJobSettles
