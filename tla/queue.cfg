CONSTANTS
  j1 = j1  j2 = j2  j3 = j3
  None = None
  Jobs = {j1, j3}
  Priority <- HighAndLow
  Clients = {c1, c2}
  Delays = {0, 2}
  Band = 10
  Horizon = 3
  AddLimit = 2
SPECIFICATION FairSpec
CHECK_DEADLOCK FALSE
INVARIANTS TypeOK HandedOnce StatsAgree
PROPERTIES NoPriorityInversion LastBandWaits PicksAllowed ImplementsDueQueue EveryMemberLeaves
