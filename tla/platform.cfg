CONSTANTS
  p1 = p1  p2 = p2  s1 = s1  s2 = s2  a = a  b = b  i1 = i1  i2 = i2
  None = None  AsBuilt = AsBuilt  Nobody = Nobody
  Processes = {p1, p2}
  Sessions = {s1, s2}
  App <- OneOfEach
  Emails = {a, b}
  AdminEmail = a
  Ids = {i1, i2}
  Jobs = {1, 2}
  Edits <- SomeEdits
  MaxRetries = 2
  ManualRetries = 1
  Requeues = 1
  Deaths = 1
  Words <- FiveWords
  Keywords <- FourKeywords
  Inside <- SomeInside
  Claims = {3, 24, 101}
  Degrees = {"phd", "msc"}
SPECIFICATION Spec
CHECK_DEADLOCK FALSE
INVARIANTS
  TypeOK OneAccountPerEmail ServingHasAdmin ServingIsMigrated ShownEmailIsOwn
  AdminStaysAdmin StillClickHitsShown CardsAddUp
  OverviewTrailsList HandWrittenIsForTheForm FormsMeetRequirements
  MailsAreAccounted BuriedOnTime LogTellsStory
PROPERTIES FreshStaysEmpty MoreScoresNoLess 
