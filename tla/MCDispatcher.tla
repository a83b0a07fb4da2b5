---------------------------- MODULE MCDispatcher ----------------------------
(* Three jobs with distinct submit times as generateJobs makes them, one of *)
(* them with an injected failure, with budgets of 3 (the budget generateJobs *)
(* gives), 2 and 1 attempts to keep the state space small.                   *)
EXTENDS Dispatcher

MCJobs == {"a1", "b1", "b2"}
MCPriority == [j \in MCJobs |-> IF j = "a1" THEN 1 ELSE 5]
MCSubmitTime == [j \in MCJobs |-> CASE j = "a1" -> 0 [] j = "b1" -> 1 [] j = "b2" -> 2]
MCBatchSize == [j \in MCJobs |-> IF j = "a1" THEN 1 ELSE 32]
MCMaxAttempts == [j \in MCJobs |-> CASE j = "a1" -> 3 [] j = "b1" -> 2 [] j = "b2" -> 1]
MCInject == [j \in MCJobs |-> IF j = "b1" THEN "oom" ELSE "none"]

\* Model replies in "llm" mode; 300 is a positive batch size.
MCReplies == {[action |-> "retry", size |-> 0],
              [action |-> "auto_adjust", size |-> 300]}

=============================================================================
