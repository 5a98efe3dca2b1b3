\* Two sub-tasks, of which each may be retried once; one interruption that is
\* resumed.  The constants of the other loop have no effect.
SPECIFICATION MCSpec
CONSTANTS
  Scopes = {"coordinator"}
  Tasks = {t1, t2}
  MaxRetries = 1
  ControlCapacity = 1
  MaxContexts = 2
  MaxResumes = 1
  ToolResults = {"r1"}
  ToolErrors = {"forbidden tool"}
  IrrecoverableErrors = {"forbidden tool"}
  ShortErrors = {"forbidden tool"}
  MaxIterations = 1
  ShortIterations = 1
  MaxRuns = 1
  None = None
INVARIANTS
  EndedStopsItsTasks
PROPERTIES
  LifecycleMoves
CHECK_DEADLOCK FALSE
