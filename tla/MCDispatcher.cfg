SPECIFICATION DispatcherSpec
CONSTANTS
  Workers = {"w1", "w2"}
  Jobs <- MCJobs
  Priority <- MCPriority
  SubmitTime <- MCSubmitTime
  BatchSize <- MCBatchSize
  MaxAttempts <- MCMaxAttempts
  Inject <- MCInject
  Agent = "policy"
  Replies <- MCReplies
  MaxFaults = 2
INVARIANTS
  ExclusiveClaim
  OkIsComplete
  BatchInRange
PROPERTIES
  CoordinatorReturns
