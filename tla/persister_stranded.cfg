\* the database is unreachable, to the driver and to the error handler
CONSTANTS
  m1 = m1  m2 = m2  m3 = m3  m4 = m4  f1 = f1  f2 = f2
  Msg = {m1, m2, m3}
  Bad = {}
  MsgId = {1, 2, 3}
  idOf <- OwnIds
  Key = {1, 2, 3}
  keyOf <- OwnStations
  NoMsg = NoMsg
  BatchSize = 2
  MaxAttempts = 2
  PrefetchFloor = 3
  Flusher = {f1, f2}
  Faults = {"db", "rawerror"}
  MaxLosses = 1
SPECIFICATION Spec
INVARIANT NothingStranded
CHECK_DEADLOCK FALSE
