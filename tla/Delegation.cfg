\* Two runs share the store; two delegations, collected in any order, by right
\* or wrong ids.
CONSTANTS
  Waiters = {r1, r2}
  MaxBatch = 1
  MaxDelegations = 2
  MaxCollect = 2
  Tasks <- IDs
  Results = {res}
  None = None
SPECIFICATION Spec
INVARIANTS
  TypeOK
  CompletedMeansStored
  SendsNeverBlock
PROPERTIES
  ImplementsFutures
  CollectOfStartedReturns
CHECK_DEADLOCK FALSE
