------------------------------ MODULE MCBroker ------------------------------
(* A workload of three jobs for the broker: a1 has the higher priority, b1 *)
(* and b2 share a priority and a submit time; their budgets are 1, unset   *)
(* (the default 3) and 2.  z has a batch Submit must refuse.               *)
EXTENDS Broker

MCJobs == {"a1", "b1", "b2", "z"}
MCPriority == [j \in MCJobs |-> IF j = "a1" THEN 2 ELSE 1]
MCSubmitTime == [j \in MCJobs |-> IF j = "a1" THEN 1 ELSE 2]
MCBatchSize == [j \in MCJobs |-> CASE j = "z" -> 0 [] j = "a1" -> 256 [] OTHER -> 8]
MCMaxAttempts == [j \in MCJobs |-> CASE j = "a1" -> 1 [] j = "b1" -> 0 [] OTHER -> 2]
MCInject == [j \in MCJobs |-> "none"]

\* Answers of an arbitrary agent: each action, an adjustment without a size
\* and an action that does not exist.
MCReplies == {[action |-> "retry", size |-> 0],
              [action |-> "auto_adjust", size |-> 4],
              [action |-> "auto_adjust", size |-> 0],
              [action |-> "escalate", size |-> 0],
              [action |-> "unknown", size |-> 0]}

=============================================================================
