\* One device: two newer configurations overtake the one being pushed, and a
\* failed delivery is retried twice.
SPECIFICATION TraceSpec
CONSTANTS
  Devices = {d1}
  Configs = {c1, c2}
  Loops = {1, 2}
  MaxAttempts = 2
  MaxVersion = 3
  MaxRetries = 2
INVARIANTS
  SingleLoop
  AckedMeansRunning
  PendingIsServed
  FailedMeansSpent
  AppliedOnce
  TraceAgreesButRetried
PROPERTIES
  WaitsEnd
\* The clients may stop calling.
CHECK_DEADLOCK FALSE
