--------------------------- MODULE SQSCoordinator ---------------------------
(***************************************************************************)
(* SQSCoordinator of internal/dispatch/sqs.go: which jobs are terminal,    *)
(* which were released for a planned retry, and the completion signal.     *)
(* Every operator below is one critical section of SQSCoordinator.mu; the  *)
(* queues are module SQSQueue.  Retried, Adjusted and Duplicates are only  *)
(* printed and are left out.  The batch size is left out as well: what     *)
(* triage does to it is in module Broker.                                  *)
(***************************************************************************)
EXTENDS SQSQueue, Triage, FiniteSets

CONSTANT Budget    \* job.MaxAttempts after Submit has set its default

ASSUME BudgetAssumption == Budget \in [Jobs -> Nat \ {0}]

VARIABLES
  submitted,  \* the jobs Submit has registered
  outcome,    \* SQSCoordinator.terminal, "none" for a job that is not in it
  released,   \* SQSCoordinator.released
  stats,      \* SQSCoordinator.stats
  closed, done

coordVars == <<submitted, outcome, released, stats, closed, done>>

Outcomes == {"completed", "escalated", "dead_lettered"}
Terminal == {j \in Jobs : outcome[j] # "none"}

CoordInit ==
  /\ submitted = {} /\ released = {} /\ closed = FALSE /\ done = FALSE
  /\ outcome = [j \in Jobs |-> "none"]
  /\ stats = [Submitted |-> 0, Succeeded |-> 0, Escalated |-> 0,
              DeadLettered |-> 0, Redelivered |-> 0]

\* Mutant: completion waits for more outcomes than there are jobs.
MaybeDoneStrict ==
  done' = (done \/ (closed' /\ Cardinality(Terminal') > stats'.Submitted))

\* maybeDoneLocked, on the state the critical section leaves behind.
MaybeDone ==
  done' = (done \/ (closed' /\ Cardinality(Terminal') >= stats'.Submitted))

Register(j) ==
  /\ ~closed /\ j \notin submitted
  /\ submitted' = submitted \cup {j}
  /\ stats' = [stats EXCEPT !.Submitted = @ + 1]
  /\ UNCHANGED <<outcome, released, closed, done>>

CloseSubmissions ==
  /\ closed' = TRUE
  /\ UNCHANGED <<submitted, outcome, released, stats>>
  /\ MaybeDone

\* Mutant: a triaged retry counts as a redelivery too.
StartedAnyRetry(j, rc) ==
  /\ outcome[j] = "none"
  /\ stats' = IF rc > 1 THEN [stats EXCEPT !.Redelivered = @ + 1] ELSE stats
  /\ released' = released \ {j}
  /\ UNCHANGED <<submitted, outcome, closed, done>>

\* Started for a delivery with receive count rc of a job that is not terminal.
Started(j, rc) ==
  /\ outcome[j] = "none"
  /\ stats' = IF rc > 1 /\ j \notin released
                THEN [stats EXCEPT !.Redelivered = @ + 1] ELSE stats
  /\ released' = released \ {j}
  /\ UNCHANGED <<submitted, outcome, closed, done>>

\* The first report of a job's end decides its outcome.
Finish(S, o, counter) ==
  /\ S \cap Terminal = {}
  /\ outcome' = [j \in Jobs |-> IF j \in S THEN o ELSE outcome[j]]
  /\ stats' = [stats EXCEPT ![counter] = @ + Cardinality(S)]
  /\ UNCHANGED <<submitted, released, closed>>
  /\ MaybeDone

ReportSuccess(j) == Finish({j}, "completed", "Succeeded")

\* Report's second critical section, for a decision that keeps the job going.
ReportRetry(j, d) ==
  /\ outcome[j] = "none"
  /\ released' = IF d.action = "retry" THEN released \cup {j} ELSE released
  /\ UNCHANGED <<submitted, outcome, stats, closed>>
  /\ MaybeDone

ReportEscalate(j) == Finish({j}, "escalated", "Escalated")

\* Mutant: a dead-lettered job is not noticed to be the last one.
DeadLetteredSilently(S) ==
  /\ outcome' = [j \in Jobs |-> IF j \in S \ Terminal THEN "dead_lettered" ELSE outcome[j]]
  /\ stats' = [stats EXCEPT !.DeadLettered = @ + Cardinality(S \ Terminal)]
  /\ UNCHANGED <<submitted, released, closed, done>>

\* One tick of WatchDeadLetters: of the jobs it peeked at, those that have no
\* outcome yet.
DeadLettered(S) == Finish(S \ Terminal, "dead_lettered", "DeadLettered")

=============================================================================
