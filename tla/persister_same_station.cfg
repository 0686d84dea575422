\* nothing fails, and two messages carry the same station
CONSTANTS
  m1 = m1  m2 = m2  m3 = m3  m4 = m4  f1 = f1  f2 = f2
  Msg = {m1, m2, m3}
  Bad = {}
  MsgId = {1, 2, 3}
  idOf <- OwnIds
  Key = {1, 2, 3}
  keyOf <- SameStation
  NoMsg = NoMsg
  BatchSize = 2
  MaxAttempts = 2
  PrefetchFloor = 3
  Flusher = {f1, f2}
  Faults = {}
  MaxLosses = 0
SPECIFICATION Spec
INVARIANT ValidIsNotDeadLettered
CHECK_DEADLOCK FALSE
