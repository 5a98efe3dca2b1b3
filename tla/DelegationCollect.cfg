\* A run that collects a delegation by the id it was told.
CONSTANTS
  Waiters = {r1}
  MaxBatch = 1
  MaxDelegations = 2
  MaxCollect = 1
  Tasks <- IDs
  Results = {res}
  None = None
SPECIFICATION Spec
PROPERTY CollectOfToldReturns
CHECK_DEADLOCK FALSE
