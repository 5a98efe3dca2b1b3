\* Three searches of one query; the other instances are those of MCWorkspace.
CONSTANTS
  Calls = {c1, c2, c3}
  Request <- HostRequests
  Pages <- TwoAdapters
  DefaultMax = 3
  LargestMax = 4
  TTL = 2
  MaxTime = 3
  MayFail = TRUE
  None = None
  c1 = c1
  c2 = c2
  c3 = c3
  c4 = c4
  c5 = c5
  h1 = h1
  h2 = h2
  d1 = d1
  d2 = d2
  r1 = r1
  r2 = r2
  q = q
  j1 = j1
  j2 = j2
  j3 = j3
  Fetchers = {c1, c2, c3}
  Address <- Addresses
  Sites <- SomeSites
  AllSites <- SingleSites
  FetchTTL = 1
  FetchTime = 2
  Owner = c1
  Jobs = {j1, j2, j3}
  Comment = comment
  Blank = blank
  AddedTables <- TablesToAdd
  RemovedTables <- TablesToRemove
  MaxLines = 6
  CronFields <- SomeFields
  MaxFields = 6
  Creators = {c1, c2, c3, c4, c5}
  SkillRequest <- Skills
  Letters = {"a"}
  Digits = {"0"}
  MaxName = 2
  MaxDescription = 2
  Scripts = {c1, c2, c3}
  Roots = {r1, r2}
  RootOf <- RootOfScript
  DirOf <- DirOfRoot
  MaxEdits = 1
  MaxRestarts = 1
  DefinitionFiles = {f1, f2}
  lower = lower
  SomeSpellings = {lower, upper}
  SomeCallers = {c1, c2}
  SomeScores = {1, 3}
  MaxRanked = 3
  MaxRanks = 1
  SomeStates = {"busy", "error"}
  SharedStates = {"error"}
  Described <- Descriptions
  Broken = Broken
SPECIFICATION MCSpec
INVARIANTS
  SearchesAreAnswered
  PagesAreText
  CreatedSkillsAreKept
  DirectoryIsSound
PROPERTIES
  SchedulesAreExact
  EnvironmentsAreSetUp
CHECK_DEADLOCK FALSE
