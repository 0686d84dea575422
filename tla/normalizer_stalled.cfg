\* publishing a station raises while a mapped batch is forwarded
CONSTANTS
  m1 = m1  m2 = m2  m3 = m3  m4 = m4  t1 = t1  t2 = t2
  Msg = {m1, m2, m3}
  bodyOf <- AllStations
  Source = {"catalunya", "valencia"}
  sourceOf <- TwoSources
  BatchSize = 2
  RabbitPrefetch = 2
  Main = "main"
  Timers = {t1}
  Settings <- NoConfirms
  MaxLosses = 0
SPECIFICATION Spec
INVARIANT NothingStranded
CHECK_DEADLOCK FALSE
