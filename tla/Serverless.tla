----------------------------- MODULE Serverless -----------------------------
(***************************************************************************)
(* The serverless path: handlers.py (submit, start_jobs, run_job) and the  *)
(* state machine and event mappings of template.yaml.  A POST becomes a    *)
(* message, the message is handed to a workflow execution, and the         *)
(* execution runs the job and dead-letters it if it cannot.  Each of these *)
(* calls may fail, or take effect and lose its answer; both count as a     *)
(* fault.  SQS, Lambda and Step Functions are modelled from how the        *)
(* template uses them.                                                     *)
(***************************************************************************)
EXTENDS Integers, Sequences, FiniteSets

CONSTANTS
  Posts,        \* the POST requests
  JobOf,        \* the job id in each POST; callers may repeat one
  KindChoices,  \* what the POSTs may ask for, see Kinds
  SendTries,    \* attempts of the boto3 client: max_attempts 1 is one retry, so 2
  MaxReceive,   \* maxReceiveCount of the queues
  TaskRetries,  \* MaxAttempts of RunJob's second retrier (2)
  DLQRetries,   \* MaxAttempts of DeadLetter's retrier (3)
  MaxFaults,    \* bound: faults of the services
  MaxRedeploys  \* bound: updates of one function's environment

\* The failure a valid request injects, or a request that does not validate.
Kinds == {"none", "transient", "poison", "corrupt_input", "malformed"}

ASSUME ServerlessAssumption ==
  /\ IsFiniteSet(Posts)
  /\ JobOf \in [Posts -> STRING]
  /\ KindChoices \subseteq [Posts -> Kinds]
  /\ {SendTries, MaxReceive} \subseteq Nat \ {0}
  /\ {TaskRetries, DLQRetries, MaxFaults, MaxRedeploys} \subseteq Nat

VARIABLES
  kind,      \* what each POST asks for
  reply,     \* per POST: "new", "sending", or the status the caller got
  tries,     \* per POST: sends of the request under way
  msgs,      \* every message SQS accepted, in order of acceptance
  execs,     \* the workflow executions, running and closed
  dlq,       \* the dead letters: redriven by SQS or sent by an execution
  allow,     \* ALLOW_FAILURE_INJECTION of each function
  faults, redeploys

vars == <<kind, reply, tries, msgs, execs, dlq, allow, faults, redeploys>>
submitVars == <<kind, reply, tries>>
queueVars == <<msgs, dlq>>

Functions == {"submit", "worker", "task"}
Closed == {"Completed", "Failed", "Aborted", "TimedOut"}

Message == [post : Posts, place : {"queue", "worker", "acking", "gone", "dlq"},
            receives : 0..MaxReceive]

SLInit ==
  /\ kind \in KindChoices
  /\ reply = [p \in Posts |-> "new"]
  /\ tries = [p \in Posts |-> 0]
  /\ msgs = <<>>
  /\ execs = {}
  /\ dlq = {}
  /\ allow = [f \in Functions |-> TRUE]
  /\ faults = 0
  /\ redeploys = 0

\* validate_job in function f: malformed requests are refused, and an injected
\* failure is unless the function's environment allows it.
Valid(p, f) == kind[p] = "none" \/ (kind[p] # "malformed" /\ allow[f])

Fault == faults < MaxFaults /\ faults' = faults + 1

-----------------------------------------------------------------------------
(* submit *)

\* A request arrives; an invalid one is refused before anything is sent.
Post(p) ==
  /\ reply[p] = "new"
  /\ reply' = [reply EXCEPT ![p] = IF Valid(p, "submit") THEN "sending" ELSE "400"]
  /\ tries' = [tries EXCEPT ![p] = 1]
  /\ UNCHANGED <<kind, msgs, execs, dlq, allow, faults, redeploys>>

Enqueued(p) == Append(msgs, [post |-> p, place |-> "queue", receives |-> 0])

SendAnswered(p) ==
  /\ reply[p] = "sending"
  /\ msgs' = Enqueued(p)
  /\ reply' = [reply EXCEPT ![p] = "202"]
  /\ UNCHANGED <<kind, tries, execs, dlq, allow, faults, redeploys>>

\* boto3 tries again, or the handler gives up and answers 503.
AfterBadSend(p) ==
  IF tries[p] < SendTries
    THEN tries' = [tries EXCEPT ![p] = @ + 1] /\ UNCHANGED reply
    ELSE reply' = [reply EXCEPT ![p] = "503"] /\ UNCHANGED tries

SendFails(p) ==
  /\ reply[p] = "sending"
  /\ Fault
  /\ AfterBadSend(p)
  /\ UNCHANGED <<kind, msgs, execs, dlq, allow, redeploys>>

SendAnswerLost(p) ==
  /\ reply[p] = "sending"
  /\ Fault
  /\ msgs' = Enqueued(p)
  /\ AfterBadSend(p)
  /\ UNCHANGED <<kind, execs, dlq, allow, redeploys>>

\* "queue unavailable; retry submission": the caller does.
Resubmit(p) ==
  /\ reply[p] = "503"
  /\ reply' = [reply EXCEPT ![p] = "new"]
  /\ UNCHANGED <<kind, tries, msgs, execs, dlq, allow, faults, redeploys>>

-----------------------------------------------------------------------------
(* The queue, its event mapping and start_jobs.  A batch is one message. *)

Move(m, place) == msgs' = [msgs EXCEPT ![m].place = place]

Deliver(m) ==
  /\ msgs[m].place = "queue" /\ msgs[m].receives < MaxReceive
  /\ msgs' = [msgs EXCEPT ![m].place = "worker", ![m].receives = @ + 1]
  /\ UNCHANGED <<submitVars, execs, dlq, allow, faults, redeploys>>

Redrive(m) ==
  /\ msgs[m].place = "queue" /\ msgs[m].receives = MaxReceive
  /\ Move(m, "dlq")
  /\ dlq' = dlq \cup {[msg |-> m, via |-> "redrive", error |-> "none"]}
  /\ UNCHANGED <<submitVars, execs, allow, faults, redeploys>>

\* Mutant: the name is the caller's job id.
ExecutionNameOfJob(m) == <<"sqs", JobOf[msgs[m].post]>>

\* execution_name hashes the message id.
ExecutionName(m) == <<"sqs", m>>

NewExecution(m) ==
  [name |-> ExecutionName(m), msg |-> m, state |-> "RunJob", retries |-> 0,
   error |-> "none", sends |-> 0]

Named(m) == {e \in execs : e.name = ExecutionName(m)}

\* Mutant: ExecutionAlreadyExists is a failure like any other.
StartRaises(m) ==
  IF \E e \in Named(m) : e.state \in Closed
    THEN Move(m, "queue") /\ UNCHANGED execs
    ELSE /\ execs' = execs \cup IF Named(m) = {} THEN {NewExecution(m)} ELSE {}
         /\ Move(m, "acking")

\* StartExecution: with the name in use, a running execution answers success and
\* a closed one ExecutionAlreadyExists, which start_jobs takes for success.
Start(m) ==
  /\ execs' = execs \cup IF Named(m) = {} THEN {NewExecution(m)} ELSE {}
  /\ Move(m, "acking")

Handoff(m) ==
  /\ msgs[m].place = "worker" /\ Valid(msgs[m].post, "worker")
  /\ Start(m)
  /\ UNCHANGED <<submitVars, dlq, allow, faults, redeploys>>

\* The message is listed in batchItemFailures, or the invocation dies: the
\* message becomes visible again.
FailItem(m) == Move(m, "queue")

HandoffRefused(m) ==
  /\ msgs[m].place = "worker" /\ ~Valid(msgs[m].post, "worker")
  /\ FailItem(m)
  /\ UNCHANGED <<submitVars, execs, dlq, allow, faults, redeploys>>

HandoffFails(m) ==
  /\ msgs[m].place = "worker" /\ Valid(msgs[m].post, "worker")
  /\ Fault
  /\ FailItem(m)
  /\ UNCHANGED <<submitVars, execs, dlq, allow, redeploys>>

\* The invocation succeeded and the mapping deletes the message.
Ack(m) ==
  /\ msgs[m].place = "acking"
  /\ Move(m, "gone")
  /\ UNCHANGED <<submitVars, execs, dlq, allow, faults, redeploys>>

\* The execution was started, but the worker's answer (its 5 s timeout) or the
\* delete is lost.
AckLost(m) ==
  /\ msgs[m].place = "acking"
  /\ Fault
  /\ Move(m, "queue")
  /\ UNCHANGED <<submitVars, execs, dlq, allow, redeploys>>

-----------------------------------------------------------------------------
(* The state machine: RunJob, Completed, DeadLetter, Failed *)

\* Execution e becomes f; nothing else changes.
Becomes(e, f) ==
  /\ execs' = (execs \ {e}) \cup {f}
  /\ UNCHANGED <<submitVars, msgs, allow, redeploys>>

\* What run_job does with the job of e in the attempt under way.
RunJob(e) ==
  LET p == msgs[e.msg].post
  IN CASE ~Valid(p, "task") \/ kind[p] = "corrupt_input" -> "PermanentJobError"
       [] kind[p] = "poison" \/ (kind[p] = "transient" /\ e.retries = 0) ->
            "TransientJobError"
       [] OTHER -> "ok"

\* Mutant: retries are not counted.
RetryOrCatchUncounted(e, error) ==
  IF error # "PermanentJobError" /\ e.retries < TaskRetries THEN e
  ELSE [e EXCEPT !.error = error, !.state = "DeadLetter"]

\* Mutant: MaxAttempts is taken for the number of attempts, the first included.
RetryOrCatchOneShort(e, error) ==
  IF error # "PermanentJobError" /\ e.retries + 1 < TaskRetries
    THEN [e EXCEPT !.retries = @ + 1]
    ELSE [e EXCEPT !.error = error, !.state = "DeadLetter"]

\* RunJob's retriers and its catcher: no retry of a permanent error.
RetryOrCatch(e, error) ==
  IF error # "PermanentJobError" /\ e.retries < TaskRetries
    THEN [e EXCEPT !.retries = @ + 1]
    ELSE [e EXCEPT !.error = error, !.state = "DeadLetter"]

TaskSucceeds(e) ==
  /\ e.state = "RunJob" /\ RunJob(e) = "ok"
  /\ Becomes(e, [e EXCEPT !.state = "Completed"])
  /\ UNCHANGED <<dlq, faults>>

TaskErrs(e) ==
  /\ e.state = "RunJob" /\ RunJob(e) # "ok"
  /\ Becomes(e, RetryOrCatch(e, RunJob(e)))
  /\ UNCHANGED <<dlq, faults>>

\* The function crashes or is not run (TaskFailed), or its answer does not arrive
\* in 25 s (Timeout, which the same retrier handles).
TaskFaults(e) ==
  /\ e.state = "RunJob"
  /\ Fault
  /\ Becomes(e, RetryOrCatch(e, "States.TaskFailed"))
  /\ UNCHANGED dlq

\* The original job with the error that RunJob ended with.
DeadLetterOf(e) == [msg |-> e.msg, via |-> "workflow", error |-> e.error]

DeadLetterSent(e) ==
  /\ e.state = "DeadLetter"
  /\ dlq' = dlq \cup {DeadLetterOf(e)}
  /\ Becomes(e, [e EXCEPT !.state = "Failed"])
  /\ UNCHANGED faults

\* Mutant: an exhausted retrier falls through to Next.
ResendOrAbortAsFailed(e) ==
  IF e.sends < DLQRetries THEN [e EXCEPT !.sends = @ + 1]
  ELSE [e EXCEPT !.state = "Failed"]

\* DeadLetter has a retrier and no catcher: the execution then fails with the
\* error of the send.
ResendOrAbort(e) ==
  IF e.sends < DLQRetries THEN [e EXCEPT !.sends = @ + 1]
  ELSE [e EXCEPT !.state = "Aborted"]

DeadLetterFails(e) ==
  /\ e.state = "DeadLetter"
  /\ Fault
  /\ dlq' \in {dlq, dlq \cup {DeadLetterOf(e)}}
  /\ Becomes(e, ResendOrAbort(e))

\* RunJob ends in less than 80 s; DeadLetter has no timeout of its own, and if its
\* send hangs, before or after it took effect, the limit of 300 s ends the
\* execution without any catcher.
TimesOut(e) ==
  /\ e.state = "DeadLetter"
  /\ Fault
  /\ dlq' \in {dlq, dlq \cup {DeadLetterOf(e)}}
  /\ Becomes(e, [e EXCEPT !.state = "TimedOut"])

-----------------------------------------------------------------------------
\* A deployment changes the environment of one function; the stack's functions
\* are updated one by one.
Redeploy(f) ==
  /\ redeploys < MaxRedeploys
  /\ redeploys' = redeploys + 1
  /\ allow' = [allow EXCEPT ![f] = ~@]
  /\ UNCHANGED <<submitVars, msgs, execs, dlq, faults>>

Submission(p) == Post(p) \/ SendAnswered(p)
Delivery(m) == Deliver(m) \/ Redrive(m) \/ Handoff(m) \/ HandoffRefused(m) \/ Ack(m)
Workflow(e) == TaskSucceeds(e) \/ TaskErrs(e) \/ DeadLetterSent(e)

SLNext ==
  \/ \E p \in Posts : Submission(p) \/ SendFails(p) \/ SendAnswerLost(p) \/ Resubmit(p)
  \/ \E m \in DOMAIN msgs : Delivery(m) \/ HandoffFails(m) \/ AckLost(m)
  \/ \E e \in execs :
       Workflow(e) \/ TaskFaults(e) \/ DeadLetterFails(e) \/ TimesOut(e)
  \/ \E f \in Functions : Redeploy(f)

\* A message beyond one per POST takes a fault.
MessageIds == 1..Cardinality(Posts) + MaxFaults

\* Lambda, SQS and Step Functions go on; faults, callers and deployments need not.
SLFairness ==
  /\ \A p \in Posts : WF_vars(Submission(p))
  /\ \A n \in MessageIds :
       /\ WF_vars(n \in DOMAIN msgs /\ Delivery(n))
       /\ WF_vars(\E e \in execs : e.msg = n /\ Workflow(e))

SLSpec == SLInit /\ [][SLNext]_vars /\ SLFairness

-----------------------------------------------------------------------------
(* Properties *)

\* Every variable has the shape of what it stands for; the retry counters of the
\* template and the send attempts of the client keep their limits.
SLTypeOK ==
  /\ kind \in KindChoices
  /\ reply \in [Posts -> {"new", "sending", "202", "400", "503"}]
  /\ tries \in [Posts -> 0..SendTries]
  /\ msgs \in Seq(Message)
  /\ \A e \in execs :
       /\ e.msg \in DOMAIN msgs
       /\ e.state \in {"RunJob", "DeadLetter"} \cup Closed
       /\ e.retries \in 0..TaskRetries /\ e.sends \in 0..DLQRetries
  /\ \A d \in dlq : d.msg \in DOMAIN msgs
  /\ allow \in [Functions -> BOOLEAN]
  /\ faults \in 0..MaxFaults /\ redeploys \in 0..MaxRedeploys

\* start_jobs: however often a message is delivered, it starts one execution, and it
\* is deleted only when an execution of its own has it, also when another message
\* carries the same job id.
HandedOverOnce ==
  \A m \in DOMAIN msgs :
    LET own == {e \in execs : e.msg = m}
    IN  /\ Cardinality(own) <= 1
        /\ msgs[m].place \in {"acking", "gone"} => own # {}

\* A message that submit accepted reaches the dead-letter queue by redrive only if
\* every one of its deliveries met a fault, or a function was redeployed and no longer
\* takes the failure it injects; a redelivery of work that is already done is not a
\* failure, and a deployment costs no job that injects none.
RedriveNeedsFaults ==
  \A m \in DOMAIN msgs :
    msgs[m].place = "dlq" =>
      \/ faults >= MaxReceive
      \/ redeploys > 0 /\ kind[msgs[m].post] # "none"

\* "original job and error attributes were sent to the DLQ" is true of every
\* execution that ends in Failed; one that ends without (Aborted or TimedOut) had
\* its sends fail one by one or hang.
FailedIsDeadLettered ==
  \A e \in execs :
    /\ e.state = "Failed" => DeadLetterOf(e) \in dlq
    /\ e.state = "Aborted" => faults > DLQRetries

\* The attempts before the last that may fail by what a job of kind k injects.
Injected(k) == CASE k = "poison" -> TaskRetries
                 [] k = "transient" /\ TaskRetries > 0 -> 1
                 [] OTHER -> 0

\* Whether a job of kind k has earned a dead letter with this error: it injects a
\* failure that no retry cures, it injects one and the task no longer takes that, or
\* all the attempts its own failures left met a fault.
Earned(k, error) ==
  \/ /\ error = "PermanentJobError"
     /\ k = "corrupt_input" \/ (k # "none" /\ redeploys > 0)
  \/ /\ error = "TransientJobError"
     /\ k = "poison" \/ (k = "transient" /\ TaskRetries = 0)
  \/ /\ error = "States.TaskFailed"
     /\ faults + Injected(k) > TaskRetries

\* Retries lose and excuse no job: an execution dead-letters its job only for a reason,
\* with every retry used where retrying can help, although run_job takes the number
\* of its attempt from a counter that lost attempts raise as well; one that
\* completes ran a job that can succeed, a transient one in a later attempt, and has
\* no dead letter of its own in the queue.
VerdictsEarned ==
  /\ \A d \in dlq : d.via = "workflow" => Earned(kind[msgs[d.msg].post], d.error)
  /\ \A e \in execs : e.state = "Completed" =>
       /\ \/ kind[msgs[e.msg].post] = "none"
          \/ kind[msgs[e.msg].post] = "transient" /\ e.retries > 0
       /\ \A d \in dlq : d.msg = e.msg => d.via = "redrive"

\* Every message ends: its execution closes or it becomes a dead letter.
Settled(m) ==
  \/ \E e \in execs : e.msg = m /\ e.state \in Closed
  \/ \E d \in dlq : d.msg = m

\* Whatever the services do, as long as their faults end: a request being sent is
\* answered, and every accepted message comes to an end.
EveryMessageSettles ==
  /\ \A p \in Posts : reply[p] = "sending" ~> reply[p] # "sending"
  /\ \A n \in MessageIds :
       n \in DOMAIN msgs ~> (n \in DOMAIN msgs /\ Settled(n))

=============================================================================
