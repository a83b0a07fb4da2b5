------------------------------- MODULE Triage -------------------------------
(***************************************************************************)
(* The triage agents of internal/triage/triage.go: what decision a failed  *)
(* inference batch gets.  A decision is [action, size]; size is the batch  *)
(* size an auto_adjust asks for (0 when the field is absent).  Reason,     *)
(* source and precision are not modelled: a reply with a bad precision is  *)
(* one more invalid reply.                                                 *)
(***************************************************************************)
EXTENDS Integers

CONSTANTS
  Agent,     \* "policy", "llm" (LLM with policy fallback) or "any" agent
  Replies    \* the decisions a model endpoint, or any agent, may answer with

Actions == {"retry", "auto_adjust", "escalate"}

\* How PolicyAgent classifies an error text.
ErrorKinds == {"oom", "corrupt", "other"}

ASSUME TriageAssumption ==
  /\ Agent \in {"policy", "llm", "any"}
  /\ Replies \subseteq [action : Actions \cup {"unknown"}, size : Int]

Escalation == [action |-> "escalate", size |-> 0]

\* Decision.Validate
Valid(d) == \/ d.action \in {"retry", "escalate"}
            \/ d.action = "auto_adjust" /\ d.size >= 1

\* The smaller batch PolicyAgent tries after an out-of-memory error.
Half(size) == IF size \div 2 < 1 THEN 1 ELSE size \div 2

\* PolicyAgent.Decide; its tests are made in this order.
PolicyDecide(attempt, max, kind, size) ==
  CASE attempt >= max    -> Escalation
    [] attempt < max /\ kind = "oom" ->
         [action |-> "auto_adjust", size |-> Half(size)]
    [] attempt < max /\ kind = "corrupt" -> Escalation
    [] attempt < max /\ kind = "other" -> [action |-> "retry", size |-> 0]

\* LLMAgent.Decide: the replies that are not turned into an error.
LLMDecide(attempt, max) ==
  {d \in Replies : Valid(d) /\ (attempt >= max => d.action = "escalate")}

\* What the configured agent may answer: FallbackAgent asks the policy when
\* the model endpoint fails, which it may do at any time.  "any" is the Agent
\* interface itself, whose implementations promise nothing.
Decide(attempt, max, kind, size) ==
  CASE Agent = "policy" -> {PolicyDecide(attempt, max, kind, size)}
    [] Agent = "llm"    -> {PolicyDecide(attempt, max, kind, size)}
                             \cup LLMDecide(attempt, max)
    [] Agent = "any"    -> Replies

\* Mutant: the budget guardrail is missing.
GuardedNoBudget(d, attempt, max) == IF ~Valid(d) THEN Escalation ELSE d

\* The coordinator's guardrails around an answer, in Broker.Report and in
\* SQSCoordinator.Report: an invalid decision escalates (an agent's error has
\* the same effect), and so does a retry or adjustment beyond the budget.
Guarded(d, attempt, max) ==
  IF ~Valid(d) \/ attempt >= max THEN Escalation ELSE d

=============================================================================
