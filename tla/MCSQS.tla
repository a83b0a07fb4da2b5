------------------------------- MODULE MCSQS --------------------------------
(* Workloads for the SQS dispatcher. *)
EXTENDS SQSDispatch

\* Two jobs in two tiers: "hi" runs out of memory in its only attempt, "lo" may
\* fail in any way and be tried twice.
TwoJobs == {"hi", "lo"}
TwoPriority == [j \in TwoJobs |-> IF j = "hi" THEN 7 ELSE 1]
TwoBudget == [j \in TwoJobs |-> IF j = "hi" THEN 1 ELSE 2]
TwoInject == [j \in TwoJobs |-> IF j = "hi" THEN "oom" ELSE "none"]

\* A poison job and one whose first holder hangs.
ChaosJobs == {"poison", "hang"}
ChaosPriority == [j \in ChaosJobs |-> IF j = "poison" THEN 2 ELSE 1]
ChaosBudget == [j \in ChaosJobs |-> 3]
ChaosInject == [j \in ChaosJobs |-> j]

NoLeftover == <<>>

\* A run of "new" on queues that still hold a message of job "old".
KeptJobs == {"new", "old"}
KeptWorkload == {"new"}
KeptPriority == [j \in KeptJobs |-> IF j = "old" THEN 2 ELSE 1]
KeptBudget == [j \in KeptJobs |-> 2]
KeptInject == [j \in KeptJobs |-> "none"]
OldMessage == <<NewMessage("old", 0, "none")>>

NoReplies == {}

=============================================================================
