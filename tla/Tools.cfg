\* Two goroutines, two reactors, tools of two names; the other instances are
\* those of MCTools.
CONSTANTS
  Names = {n1, n2}
  Makes = {m1, m2}
  Reactors = {r1, r2}
  Threads = {t1, t2}
  Serial = FALSE
  None = None
  r1 = r1
  SomeThreads = {t1, t2, t3}
  First <- FirstText
  Texts <- SomeTexts
  Edits <- SomeEdits
  MaxPersistChars = 10
  MaxResultSize = 10
  MaxCycleChars = 40
  OffloadThreshold = 6
  SyncSizes = {4, 10, 12, 36}
  AsyncSizes = {4, 12, 36}
  MaxCycles = 2
  MaxCalls = 3
  DependentTasks <- TwoIDs
  SeveralTasks <- TwoGiven
  PlannedTasks <- TwoLevels
  MaxTime = 3
  MaxLines = 8
  MaxLimit = 9
SPECIFICATION MCSpec
INVARIANTS
  OffersMatchRegistry
  OutputIsCutOverBudget
  PlansAreSound
  FilesAreKept
CHECK_DEADLOCK FALSE
