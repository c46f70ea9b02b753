CONSTANTS
  w1 = w1  w2 = w2
  None = None
  Workers = {w1, w2}
  Runners = {w1}
  Interval = 1
  Slack = 1
  Rounding = 1
  Ttl = 4
SPECIFICATION RecoveryFairSpec
CHECK_DEADLOCK FALSE
INVARIANTS RecoveryTypeOK AliveHasLastSeen RecoverySparesTheLiving
PROPERTIES LiveIsAlive EndedIsForgotten RecoveryFindsTheSilent
