SPECIFICATION AllocSpec
CONSTANTS
  HeapSize = 8
  Sizes <- SmallRequests
  MaxLive = 4
  OpsChoices <- SomeOps
INVARIANTS
  WellFormed
  LiveExactly
  ReportExact
PROPERTIES
  StaysPut
  CompletesUnlessTooFew
\* The program ends.
CHECK_DEADLOCK FALSE
