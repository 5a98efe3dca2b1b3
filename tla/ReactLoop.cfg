\* Two runs of three cycles, a task that is started, paused and resumed, or
\* followed by another; one run of five cycles.  The constants of the coordinator
\* have no effect.
SPECIFICATION MCSpec
CONSTANTS
  Scopes = {"short", "long", "coordinator"}
  Tasks = {t1, t2}
  MaxRetries = 0
  ControlCapacity = 1
  MaxContexts = 2
  MaxResumes = 1
  ToolResults = {"r1", "r2"}
  ToolErrors = {"unknown tool", "forbidden tool"}
  IrrecoverableErrors = {"forbidden tool"}
  ShortErrors = {"forbidden tool"}
  MaxIterations = 5
  ShortIterations = 3
  MaxRuns = 2
  None = None
INVARIANTS
  TypeOK
  NoStepBeyondAStop
  StuckAndConvergedNeverDecide
PROPERTIES
  ImplementsContract
  LoopReturns
CHECK_DEADLOCK FALSE
