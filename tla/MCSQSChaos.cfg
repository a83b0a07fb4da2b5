SPECIFICATION SQSSpec
CONSTANTS
  Jobs <- ChaosJobs
  Workload <- ChaosJobs
  Priority <- ChaosPriority
  Budget <- ChaosBudget
  Inject <- ChaosInject
  Leftover <- NoLeftover
  Agent = "policy"
  Replies <- NoReplies
  MaxTier = 2
  MaxReceive = 3
  Pool = 1
  MaxWorkers = 5
  MaxFaults = 0
  MaxSpawnFails = 0
  MaxStalls = 0
INVARIANTS
  OnlyPoisonDies
PROPERTIES
  RedeliveredExact
  CoordinatorReturns
