SPECIFICATION SQSSpec
CONSTANTS
  Jobs <- TwoJobs
  Workload <- TwoJobs
  Priority <- TwoPriority
  Budget <- TwoBudget
  Inject <- TwoInject
  Leftover <- NoLeftover
  Agent = "policy"
  Replies <- NoReplies
  MaxTier = 2
  MaxReceive = 2
  Pool = 2
  MaxWorkers = 2
  MaxFaults = 1
  MaxSpawnFails = 1
  MaxStalls = 1
INVARIANTS
  NoJobLost
  DeadLetterNeedsDeadHolder
  FailureNeedsFault
PROPERTIES
  ImplementsBoard
  CoordinatorReturns
