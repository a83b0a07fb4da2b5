SPECIFICATION SQSSafety
CONSTANTS
  Jobs <- KeptJobs
  Workload <- KeptWorkload
  Priority <- KeptPriority
  Budget <- KeptBudget
  Inject <- KeptInject
  Leftover <- OldMessage
  Agent = "policy"
  Replies <- NoReplies
  MaxTier = 2
  MaxReceive = 2
  Pool = 2
  MaxWorkers = 2
  MaxFaults = 0
  MaxSpawnFails = 0
  MaxStalls = 0
INVARIANTS
  DoneMeansTerminal
