CONSTANTS
  j1 = j1  j2 = j2  w1 = w1  w2 = w2  t1 = t1  t2 = t2  e1 = e1
  None = None
  Jobs <- OneJob
  Priority <- OnePriority
  MaxRetries <- OneRetry
  Workers = {w1, w2}
  Threads = {t1, t2}
  Errors = {e1}
  Mortal = {w1}
  Fallible = {t1}
  Endpoints = {"create", "cancel", "retry", "requeue"}
  ReissueLimit = 1
SPECIFICATION Spec
CHECK_DEADLOCK FALSE
INVARIANTS TypeOK ExclusiveExecution SettledIsOver DeadIsInDlq NotGivenUpEarly
  TicketsAreCounted
PROPERTIES ImplementsTicket ImplementsJobTable
