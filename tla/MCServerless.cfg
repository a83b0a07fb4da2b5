SPECIFICATION SLSpec
CONSTANTS
  Posts <- OnePost
  JobOf <- OneJob
  KindChoices <- AnyKind
  SendTries = 2
  MaxReceive = 2
  TaskRetries = 2
  DLQRetries = 1
  MaxFaults = 2
  MaxRedeploys = 1
INVARIANTS
  HandedOverOnce
  RedriveNeedsFaults
  FailedIsDeadLettered
  VerdictsEarned
PROPERTIES
  EveryMessageSettles
\* When every message has settled, nothing is left to do.
CHECK_DEADLOCK FALSE
