\* Two sessions and two roles; one caller with six messages, or two with four
\* between them.  A window of five messages, each lighter or heavier than the
\* target; accounts of five messages and of three.
CONSTANTS
  c1 = c1
  c2 = c2
  TriggerTokens = 4
  TargetTokens = 2
  MinPreserve = 1
  MaxBatch = 0
  Callers = {c1, c2}
  Names = {n1, n2}
  Sessions = {s1, s2}
  HistoryBudget = 2
  MaxMessages = 4
  MaxWindows = 0
  None = None
  WindowRoles = {"user", "system"}
  WindowWeights = {1, 3}
  OneWeights = {1, 3}
  TwoWeights = {1}
  Sections = 1
  Replies = {1}
  MaxTokens = 6
  AccountBudget = 7
  WindowLength = 5
  MaxUsed = 12
  OneMessages = 5
  TwoMessages = 3
  SerialMessages = 6
  SerialWindows = 2
  RoleMessages = 4
  RoleWindows = 2
  CloneMessages = 2
  CloneWindows = 1
  MaxReactors = 3
SPECIFICATION MCSpec
INVARIANTS
  WindowIsTheEndOfItsLog
  SessionsStayApart
  TokensAreAccountedFor
PROPERTY SlidesAreSound
SYMMETRY Symmetry
CHECK_DEADLOCK FALSE
