\* gateway, workers and tables together: see Scenarios for who sends what
CONSTANTS
  s1 = s1  s2 = s2  bad = bad  junk = junk
  j2 = j2  list = list  wrongkey = wrongkey  one = one  scalar = scalar
  xml = xml  csvtext = csvtext  vxml = vxml  gxml = gxml  syn = syn  mix = mix
  up = up  mime = mime  large = large  enc = enc  garbage = garbage
  badsource = badsource  badtypes = badtypes  noerrors = noerrors
  Station = {s1, s2, bad}
  Junk = junk
  Sound = {s1, s2}
  Key = {s1, s2, bad}
  keyOf <- ByItself
  NoMsg = NoMsg
  Request = {j2, list, wrongkey, one, scalar, xml, csvtext, vxml, gxml, syn, mix,
             up, mime, large, enc, garbage, badsource, badtypes, noerrors}
  workOf <- Works
  Settings <- Scenarios
  MaxFaults = 2
  Concurrency = 2
  MaxCopies = 2
SPECIFICATION Spec
INVARIANTS TypeOK PublishedInOrder AcceptedIsComplete BadRequestsLeaveNothing EndToEnd
PROPERTIES KeepsIntakeContract StatusNeverTurns EveryClientAnswered EveryStationAccounted
CHECK_DEADLOCK FALSE
