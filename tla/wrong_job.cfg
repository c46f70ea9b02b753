CONSTANTS
  Jobs = {1, 2}
  None = None
SPECIFICATION PagesSpec
CHECK_DEADLOCK FALSE
INVARIANT CancelHitsShown
