------------------------------ MODULE JobTrace ------------------------------
(***************************************************************************)
(* What cmd/tracer says of a job (tracer -job, tracer -summary) beside the *)
(* simulator whose event log it reads.  log[j] holds what traceJob keeps   *)
(* while it goes through the events of job j, and the wait it prints; the  *)
(* events of a tick all carry the simulated time of that tick, here the    *)
(* tick.  "preempted" and "completed" are only printed.                    *)
(***************************************************************************)
EXTENDS Scheduler

VARIABLE log

tracedVars == <<schedVars, log>>

Never == -1    \* the zero time.Time

\* One case of the switch in traceJob for each event type.
RowSubmitted(r) == [r EXCEPT !.submitted = tick]

\* Mutant: the first start is kept.
RowStartedFirst(r) == IF r.started = Never THEN [r EXCEPT !.started = tick] ELSE r

RowStarted(r) == [r EXCEPT !.started = tick]

RowTold(r) == [r EXCEPT !.waitReasons = @ + 1]

\* The wait that traceJob prints and summary collects, for a job that has both
\* times.
Waited(r) == r.started - r.submitted

TraceInit ==
  /\ SchedInit
  /\ log = [j \in Jobs |-> [submitted |-> Never, started |-> Never, waitReasons |-> 0]]

TracedArrivals ==
  /\ SubmitArrivals
  /\ log' = [j \in Jobs |-> IF j \in pending' \ pending THEN RowSubmitted(log[j])
                                                        ELSE log[j]]

\* The job popped from the queue is logged as started or as told to wait.
LogsOutcome(j) ==
  log' = [log EXCEPT ![j] = IF j \in running' THEN RowStarted(@) ELSE RowTold(@)]

TraceNext ==
  \/ TracedArrivals
  \/ \E j \in Jobs : Place(j) /\ LogsOutcome(j)
  \/ \E j, v \in Jobs : Preempt(j, v) /\ LogsOutcome(j)
  \/ \E j \in Jobs : Complete(j) /\ UNCHANGED log
  \/ (AllCompleted \/ EndTick \/ Over) /\ UNCHANGED log

\* The simulator's fairness: one thread that only computes.
TraceSpec == TraceInit /\ [][TraceNext]_tracedVars /\ WF_tracedVars(TraceNext)

-----------------------------------------------------------------------------
(* Properties *)

\* The three accounts of a job's wait agree as far as they can.  In every tick
\* a job that waits is told so exactly once, so for a job that was never
\* preempted the wait the tracer prints, the number of times it was told to
\* wait and the scheduler's own Job.WaitTime are the same number.  After a
\* preemption they differ, always in this order: the scheduler's wait counts
\* from the preemption, the tracer's from the first arrival, and the latter
\* includes the time for which the job ran in vain.
WaitsAgreeUnlessPreempted ==
  \A j \in running \cup completed :
    LET own == log[j].started - submitTime[j]
        told == log[j].waitReasons
    IN  IF submitTime[j] = Arrival[j] THEN own = told /\ told = Waited(log[j])
                                      ELSE own <= told /\ told <= Waited(log[j])

=============================================================================
