\* messages of up to five items, reports over up to four rows
CONSTANTS
  junk = junk
  Junk = junk
  Jobs <- AllJobs
  upper <- UpperCase
  cleaned <- Dialled
  similarity <- Similarities
  THRESHOLD_HIGH = 85
  THRESHOLD_LOW = 70
  RowKinds <- SomeRows
  MaxRows = 4
SPECIFICATION Spec
INVARIANTS EveryItemAccounted DuplicatesAreExact ModesAgree SyntheticIsJudged ReportIsCoherent
CHECK_DEADLOCK FALSE
