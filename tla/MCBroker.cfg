SPECIFICATION BrokerSpec
CONSTANTS
  Workers = {"w1", "w2"}
  Jobs <- MCJobs
  Priority <- MCPriority
  SubmitTime <- MCSubmitTime
  BatchSize <- MCBatchSize
  MaxAttempts <- MCMaxAttempts
  Inject <- MCInject
  Agent = "any"
  Replies <- MCReplies
INVARIANTS
  TypeOK
  OnePlace
  DoneExact
  WithinBudget
PROPERTIES
  TerminalForever
  ImplementsBoard
