CONSTANTS
  w1 = w1  w2 = w2
  None = None
  Workers = {w1}
  Runners = {}
  Interval = 2
  Slack = 1
  Rounding = 1
  Ttl = 5
SPECIFICATION RecoverySpec
CHECK_DEADLOCK FALSE
PROPERTY SilentIsDead
