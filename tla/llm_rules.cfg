\* three batches and the endpoint; two of the batches share the endpoint's key
CONSTANTS
  t1 = t1  t2 = t2  t3 = t3  k1 = k1  k2 = k2
  Task = {t1, t2, t3}
  Admin = Admin
  Key = {k1, k2}
  keyOf <- Competing
  Old = Old
  NoTask = NoTask
  MinDelay = 2
  MaxAttempts = 3
  Settings <- Some
SPECIFICATION Spec
INVARIANTS TypeOK OneCallAtATime OneActiveRule NothingLocked
PROPERTIES RequestsAreSpaced KeepsLearnContract EveryCallReturns
CHECK_DEADLOCK FALSE
