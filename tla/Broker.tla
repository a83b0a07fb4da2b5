------------------------------- MODULE Broker -------------------------------
(***************************************************************************)
(* The in-process broker of internal/dispatch/broker.go: the priority      *)
(* queue, the running table, the triage of failed jobs and the completion  *)
(* signal.  Every action is one critical section of Broker.mu; a failed    *)
(* Report has two, with the triage agent called in between, and the job is *)
(* then in neither the queue nor the running table.  The callers are left  *)
(* free here (module Dispatcher supplies the real ones).                   *)
(***************************************************************************)
EXTENDS JobQueue, Triage, FiniteSets, Functions

CONSTANTS Workers,
          BatchSize,    \* job.Inference.BatchSize as submitted
          MaxAttempts,  \* job.MaxAttempts as submitted; below 1 means unset
          Inject        \* job.InjectFailure as submitted, or "none"

ASSUME BrokerAssumption ==
  /\ IsFiniteSet(Jobs)
  /\ "none" \notin Workers
  /\ BatchSize \in [Jobs -> Int]
  /\ MaxAttempts \in [Jobs -> Int]
  /\ Inject \in [Jobs -> ErrorKinds \cup {"none"}]

VARIABLES
  queue,       \* the jobs in Broker.queue
  running,     \* the keys of Broker.running
  triaging,    \* jobs held by a Report that is between its critical sections
  error,       \* the error that Report carries, "none" when it is not triaging
  attempt,     \* job.Attempt
  size,        \* job.Inference.BatchSize
  inject,      \* job.InjectFailure
  node,        \* job.Node
  stats,       \* Broker.stats
  submitted,   \* the jobs Submit has accepted
  outcome,     \* the terminal telemetry event of each job, "none" before it
  closed,      \* Broker.closed
  done         \* Broker.done is closed

brokerVars == <<queue, running, triaging, error, attempt, size, inject, node,
                stats, submitted, outcome, closed, done>>

Outcomes == {"succeeded", "escalated"}

\* inference.Batch.Validate, as far as the batch size goes.
MaxBatch == 256
BatchOK(n) == 1 <= n /\ n <= MaxBatch

\* Submit's default for job.MaxAttempts.
Budget(j) == IF MaxAttempts[j] < 1 THEN 3 ELSE MaxAttempts[j]

BrokerInit ==
  /\ queue = {} /\ running = {} /\ triaging = {} /\ submitted = {}
  /\ error   = [j \in Jobs |-> "none"]
  /\ attempt = [j \in Jobs |-> 0]
  /\ size    = BatchSize
  /\ inject  = Inject
  /\ node    = [j \in Jobs |-> "none"]
  /\ outcome = [j \in Jobs |-> "none"]
  /\ stats   = [Submitted |-> 0, Succeeded |-> 0, Escalated |-> 0,
                Retried |-> 0, Adjusted |-> 0]
  /\ closed = FALSE /\ done = FALSE

\* Mutant: the counters are not compared, so a job in triage is overlooked.
AllSettledNoCount(c, q, r, s) == c /\ q = {} /\ r = {}

\* The condition of maybeDoneLocked.
AllSettled(c, q, r, s) == /\ c /\ q = {} /\ r = {}
                          /\ s.Succeeded + s.Escalated = s.Submitted

\* maybeDoneLocked, run on the state the critical section leaves behind.
MaybeDone == done' = (done \/ AllSettled(closed', queue', running', stats'))

\* Job IDs are unique (generateJobs), so a job is submitted once.
Submit(j) ==
  /\ BatchOK(size[j])
  /\ ~closed
  /\ j \notin submitted
  /\ submitted' = submitted \cup {j}
  /\ queue' = queue \cup {j}
  /\ stats' = [stats EXCEPT !.Submitted = @ + 1]
  /\ UNCHANGED <<running, triaging, error, attempt, size, inject, node,
                 outcome, closed, done>>

\* Mutant: closing does not look whether everything is settled already.
CloseSilently ==
  /\ closed' = TRUE
  /\ UNCHANGED <<queue, running, triaging, error, attempt, size, inject,
                 node, stats, submitted, outcome, done>>

CloseSubmissions ==
  /\ closed' = TRUE
  /\ UNCHANGED <<queue, running, triaging, error, attempt, size, inject,
                 node, stats, submitted, outcome>>
  /\ MaybeDone

\* Mutant: Claim peeks at the head of the queue instead of popping it.
ClaimJobPeek(w, j) ==
  /\ j \in Heads(queue)
  /\ running' = running \cup {j}
  /\ attempt' = [attempt EXCEPT ![j] = @ + 1]
  /\ node' = [node EXCEPT ![j] = w]
  /\ UNCHANGED <<queue, triaging, error, size, inject, stats, submitted,
                 outcome, closed, done>>

\* Claim hands the head of the queue to worker w ...
ClaimJob(w, j) ==
  /\ j \in Heads(queue)
  /\ queue' = queue \ {j}
  /\ running' = running \cup {j}
  /\ attempt' = [attempt EXCEPT ![j] = @ + 1]
  /\ node' = [node EXCEPT ![j] = w]
  /\ UNCHANGED <<triaging, error, size, inject, stats, submitted, outcome,
                 closed, done>>

\* ... or, with an empty queue, tells it to stop.  (Otherwise it answers Wait
\* and changes nothing.)
MayShutdown == queue = {} /\ closed /\ running = {}

ClaimShutdown ==
  /\ MayShutdown
  /\ UNCHANGED <<queue, running, triaging, error, attempt, size, inject,
                 node, stats, submitted, outcome, closed>>
  /\ MaybeDone

\* Mutant: a successful job stays in the running table.
ReportSuccessKeep(j) ==
  /\ j \in running
  /\ stats' = [stats EXCEPT !.Succeeded = @ + 1]
  /\ outcome' = [outcome EXCEPT ![j] = "succeeded"]
  /\ UNCHANGED <<queue, running, triaging, error, attempt, size, inject,
                 node, submitted, closed, done>>

\* Report looks the job up by its ID only, whoever the reporter is.
ReportSuccess(j) ==
  /\ j \in running
  /\ running' = running \ {j}
  /\ stats' = [stats EXCEPT !.Succeeded = @ + 1]
  /\ outcome' = [outcome EXCEPT ![j] = "succeeded"]
  /\ UNCHANGED <<queue, triaging, error, attempt, size, inject, node,
                 submitted, closed>>
  /\ MaybeDone

\* Mutant: the failed job stays in the running table during its triage.
ReportFailureKeep(j, kind) ==
  /\ j \in running
  /\ triaging' = triaging \cup {j}
  /\ error' = [error EXCEPT ![j] = kind]
  /\ UNCHANGED <<queue, running, attempt, size, inject, node, stats,
                 submitted, outcome, closed, done>>

\* A failure report up to the first unlock ...
ReportFailure(j, kind) ==
  /\ j \in running
  /\ running' = running \ {j}
  /\ triaging' = triaging \cup {j}
  /\ error' = [error EXCEPT ![j] = kind]
  /\ UNCHANGED <<queue, attempt, size, inject, node, stats, submitted,
                 outcome, closed, done>>

\* Mutant: a retry takes over the batch size of the decision, too.
RequeueResized(j, d) ==
  /\ d.action \in {"retry", "auto_adjust"}
  /\ queue' = queue \cup {j}
  /\ inject' = [inject EXCEPT ![j] = "none"]
  /\ size' = [size EXCEPT ![j] = d.size]
  /\ stats' = IF d.action = "retry" THEN [stats EXCEPT !.Retried = @ + 1]
                                    ELSE [stats EXCEPT !.Adjusted = @ + 1]
  /\ UNCHANGED outcome

\* ... and from the second lock on, with the guarded decision d.
Requeue(j, d) ==
  /\ d.action \in {"retry", "auto_adjust"}
  /\ queue' = queue \cup {j}
  /\ inject' = [inject EXCEPT ![j] = "none"]
  /\ size' = IF d.action = "auto_adjust" THEN [size EXCEPT ![j] = d.size] ELSE size
  /\ stats' = IF d.action = "retry" THEN [stats EXCEPT !.Retried = @ + 1]
                                    ELSE [stats EXCEPT !.Adjusted = @ + 1]
  /\ UNCHANGED outcome

\* Mutant: an escalation is recorded as one more failure.
EscalateAsFailed(j, d) ==
  /\ d.action = "escalate"
  /\ stats' = [stats EXCEPT !.Escalated = @ + 1]
  /\ outcome' = [outcome EXCEPT ![j] = "failed"]
  /\ UNCHANGED <<queue, inject, size>>

Escalate(j, d) ==
  /\ d.action = "escalate"
  /\ stats' = [stats EXCEPT !.Escalated = @ + 1]
  /\ outcome' = [outcome EXCEPT ![j] = "escalated"]
  /\ UNCHANGED <<queue, inject, size>>

FinishTriage(j) ==
  /\ j \in triaging
  /\ triaging' = triaging \ {j}
  /\ error' = [error EXCEPT ![j] = "none"]
  /\ \E d \in Decide(attempt[j], Budget(j), error[j], size[j]) :
        LET g == Guarded(d, attempt[j], Budget(j))
        IN  Requeue(j, g) \/ Escalate(j, g)
  /\ UNCHANGED <<running, attempt, node, submitted, closed>>
  /\ MaybeDone

BrokerNext ==
  \/ \E j \in Jobs : Submit(j) \/ ReportSuccess(j) \/ FinishTriage(j)
  \/ CloseSubmissions
  \/ \E w \in Workers, j \in Jobs : ClaimJob(w, j)
  \/ ClaimShutdown
  \/ \E j \in Jobs, kind \in ErrorKinds : ReportFailure(j, kind)

BrokerSpec == BrokerInit /\ [][BrokerNext]_brokerVars

-----------------------------------------------------------------------------
(* Properties *)

Stats == [Submitted : Nat, Succeeded : Nat, Escalated : Nat,
          Retried : Nat, Adjusted : Nat]

\* Every variable has the shape of the Broker field it stands for.
TypeOK ==
  /\ queue \subseteq Jobs /\ running \subseteq Jobs
  /\ triaging \subseteq Jobs /\ submitted \subseteq Jobs
  /\ error \in [Jobs -> ErrorKinds \cup {"none"}]
  /\ attempt \in [Jobs -> Nat]
  /\ size \in [Jobs -> Int]
  /\ inject \in [Jobs -> ErrorKinds \cup {"none"}]
  /\ node \in [Jobs -> Workers \cup {"none"}]
  /\ stats \in Stats
  /\ outcome \in [Jobs -> Outcomes \cup {"none"}]
  /\ closed \in BOOLEAN /\ done \in BOOLEAN

Terminal == {j \in Jobs : outcome[j] # "none"}

\* No job is lost, duplicated or served after its end: an accepted job is in
\* exactly one of the queue, the running table, a triage in progress, or its
\* terminal state, and no other job is anywhere.
OnePlace ==
  /\ submitted = queue \cup running \cup triaging \cup Terminal
  /\ queue \cap running = {} /\ queue \cap triaging = {}
  /\ queue \cap Terminal = {} /\ running \cap triaging = {}
  /\ running \cap Terminal = {} /\ triaging \cap Terminal = {}

\* The counters maybeDoneLocked compares are the numbers of accepted and of
\* terminal jobs, so the comparison also accounts for jobs in triage.
CountersExact ==
  /\ stats.Submitted = Cardinality(submitted)
  /\ stats.Succeeded = Cardinality({j \in Jobs : outcome[j] = "succeeded"})
  /\ stats.Escalated = Cardinality({j \in Jobs : outcome[j] = "escalated"})

\* Completion is signalled neither early nor never: Broker.done is closed
\* exactly when submissions are closed and every accepted job is terminal.
DoneExact == done <=> (closed /\ submitted \subseteq Terminal)

\* The retry budget holds whatever the agent answers: no job is run more often
\* than its MaxAttempts, and a queued job still has an attempt to spend.
WithinBudget ==
  \A j \in submitted : /\ attempt[j] <= Budget(j)
                       /\ j \in queue => attempt[j] < Budget(j)

\* The batches that reach a worker are the ones inference.Batch.Validate
\* accepts: "batch size %d is outside [1, 256]" is an error.
BatchInRange == \A j \in submitted : BatchOK(size[j])

\* A terminal job is left alone for good: its outcome, attempt count and batch
\* never change, although stale Reports for it may still arrive.
TerminalForever ==
  [][\A j \in Terminal : /\ outcome'[j] = outcome[j]
                         /\ attempt'[j] = attempt[j]
                         /\ size'[j] = size[j]]_brokerVars

\* The broker is an implementation of JobBoard: one outcome per accepted job
\* and completion announced exactly when all have one.
Board == INSTANCE JobBoard
ImplementsBoard == Board!BoardSpec

=============================================================================
