\* both modes; every fault but a loose LLM and a rejected_data that is down
CONSTANTS
  m1 = m1  m2 = m2  m3 = m3  m4 = m4  t1 = t1  t2 = t2
  Msg = {m1, m2, m3, m4}
  bodyOf <- SomeScalar
  Source = {"catalunya", "valencia"}
  sourceOf <- TwoSources
  BatchSize = 3
  RabbitPrefetch = 2
  Main = "main"
  Timers = {t1}
  Settings <- EveryFault
  MaxLosses = 1
SPECIFICATION Spec
INVARIANTS TypeOK StationsKeepTheirId OncePerDelivery AckedIsTraced ExclusiveOwner
PROPERTY KeepsContract
CHECK_DEADLOCK FALSE
