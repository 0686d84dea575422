\* the faults under which nothing is stranded, in both modes
CONSTANTS
  m1 = m1  m2 = m2  m3 = m3  m4 = m4  t1 = t1  t2 = t2
  Msg = {m1, m2, m3, m4}
  bodyOf <- SomeInvalid
  Source = {"catalunya", "valencia"}
  sourceOf <- TwoSources
  BatchSize = 3
  RabbitPrefetch = 2
  Main = "main"
  Timers = {t1, t2}
  Settings <- BenignFaults
  MaxLosses = 1
SPECIFICATION FairSpec
INVARIANT NothingStranded
PROPERTY EventuallySettled
CHECK_DEADLOCK FALSE
