\* Two goroutines that ask and resume, two questions, two cycles for each, and a
\* switch to a second reactor.
SPECIFICATION MCSpec
CONSTANTS
  Callers = {c1, c2}
  MaxTasks = 2
  MaxReactors = 2
  MaxIterations = 2
  None = None
INVARIANTS
  TypeOK
  InterruptReachesAnOpenAsk
  OneWorkerPerTask
  BudgetPerTask
  FlagsAreExactInTurn
PROPERTY
  EveryCallReturns
CHECK_DEADLOCK FALSE
