\* every fault, an invalid body, a repeated id and a repeated station
CONSTANTS
  m1 = m1  m2 = m2  m3 = m3  m4 = m4  f1 = f1  f2 = f2
  Msg = {m1, m2, m3, m4}
  Bad = {m4}
  MsgId = {1, 2}
  idOf <- CopiedId
  Key = {1, 2}
  keyOf <- SameStation
  NoMsg = NoMsg
  BatchSize = 2
  MaxAttempts = 2
  PrefetchFloor = 3
  Flusher = {f1, f2}
  Faults = {"db", "rawerror", "reconnect", "crash", "stop"}
  MaxLosses = 1
SPECIFICATION Spec
SYMMETRY Symmetry
INVARIANTS TypeOK AckedIsCommitted RowsAreLogged ExclusiveOwner BufferIsTimed BatchHasOneFate
PROPERTIES LogIsFinal KeepsContract
CHECK_DEADLOCK FALSE
