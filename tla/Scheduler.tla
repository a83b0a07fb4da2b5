----------------------------- MODULE Scheduler ------------------------------
(***************************************************************************)
(* The cluster simulator of cmd/scheduler/main.go over the node pool of    *)
(* internal/resource/resource.go and the priority queue of module          *)
(* JobQueue.  The program is sequential: each tick submits the jobs that   *)
(* arrive, completes the running jobs that finish and then empties the     *)
(* queue, placing every job, by preemption if it must, or setting it aside *)
(* until the next tick.  What is free is the run time of a job, the order  *)
(* of map iteration, and the heap's choice among equal jobs.               *)
(***************************************************************************)
EXTENDS Integers, Sequences, FiniteSetsExt

CONSTANTS
  Jobs, Priority,
  Arrival,    \* pendingSubmit.arrivalTick
  Need,       \* job.Resources
  Durations,  \* bound: the run times a job may draw, in ticks
  Nodes,      \* the names of Pool.Nodes, in order
  Total,      \* their capacities
  MaxTicks    \* -max-ticks

Resources == {"cpu", "mem", "gpu"}
Index == DOMAIN Nodes

ASSUME SchedulerAssumption ==
  /\ IsFiniteSet(Jobs)
  /\ Nodes \in Seq({Nodes[i] : i \in Index}) /\ "none" \notin {Nodes[i] : i \in Index}
  /\ Priority \in [Jobs -> Int] /\ Arrival \in [Jobs -> Nat]
  /\ Need \in [Jobs -> [Resources -> Nat]]
  /\ Durations \subseteq Nat \ {0} /\ Durations # {}
  /\ Total \in [Index -> [Resources -> Nat]]
  /\ \A i, k \in Index : Nodes[i] = Nodes[k] => i = k
  /\ MaxTicks \in Nat \ {0}

VARIABLES
  tick,
  phase,       \* which of the three parts of the tick is next, or "over"
  submitTime,  \* job.SubmitTime
  pending,     \* the jobs in the queue
  requeue,     \* the jobs this tick has set aside
  running,     \* the keys of the running map
  finish,      \* runningJob.finishTick
  node,        \* job.Node
  completed,   \* the jobs whose state is Completed
  used         \* what is reserved on each node

schedVars == <<tick, phase, submitTime, pending, requeue, running, finish,
               node, completed, used>>

Queue == INSTANCE JobQueue WITH SubmitTime <- submitTime

SchedInit ==
  /\ tick = 0 /\ phase = "submit"
  /\ submitTime = [j \in Jobs |-> 0]
  /\ pending = {} /\ requeue = {} /\ running = {} /\ completed = {}
  /\ finish = [j \in Jobs |-> 0]
  /\ node = [j \in Jobs |-> "none"]
  /\ used = [i \in Index |-> [r \in Resources |-> 0]]

-----------------------------------------------------------------------------
(* Nodes and the pool.  u stands for what is reserved. *)

Free(u, i, r) == Total[i][r] - u[i][r]

Fits(u, i, j) == \A r \in Resources : Free(u, i, r) >= Need[j][r]

Reserve(u, i, j) == [u EXCEPT ![i] = [r \in Resources |-> @[r] + Need[j][r]]]

\* Mutant: the accelerator is not given back.
ReleaseNoGPU(u, j) ==
  [i \in Index |-> IF Nodes[i] = node[j]
     THEN [r \in Resources |-> IF r = "gpu" THEN u[i][r] ELSE u[i][r] - Need[j][r]]
     ELSE u[i]]

\* Release on the node the job names (the first of that name).
Release(u, j) ==
  LET at == CHOOSE i \in Index : /\ Nodes[i] = node[j]
                                 /\ \A k \in Index : Nodes[k] = node[j] => i <= k
  IN  [u EXCEPT ![at] = [r \in Resources |-> @[r] - Need[j][r]]]

Slack(u, i, j) == Free(u, i, "cpu") - Need[j]["cpu"]

\* Pool.FindFit as a set of at most one node: the least CPU slack, the first
\* in the pool among equals.
FindFit(u, j) ==
  {i \in Index :
     /\ Fits(u, i, j)
     /\ \A k \in Index : Fits(u, k, j) =>
          \/ Slack(u, i, j) < Slack(u, k, j)
          \/ Slack(u, i, j) = Slack(u, k, j) /\ i <= k}

-----------------------------------------------------------------------------
(* The three parts of a tick. *)

SubmitArrivals ==
  /\ phase = "submit"
  /\ LET now == {j \in Jobs : Arrival[j] = tick}
     IN  /\ pending' = pending \cup now
         /\ submitTime' = [j \in Jobs |-> IF j \in now THEN tick ELSE submitTime[j]]
  /\ phase' = "complete"
  /\ UNCHANGED <<tick, requeue, running, finish, node, completed, used>>

Finished == {j \in running : finish[j] = tick}

Complete(j) ==
  /\ phase = "complete" /\ j \in Finished
  /\ used' = Release(used, j)
  /\ completed' = completed \cup {j}
  /\ running' = running \ {j}
  /\ UNCHANGED <<tick, phase, submitTime, pending, requeue, finish, node>>

AllCompleted ==
  /\ phase = "complete" /\ Finished = {}
  /\ phase' = "place"
  /\ UNCHANGED <<tick, submitTime, pending, requeue, running, finish, node,
                 completed, used>>

\* Mutant: a job of equal priority may be preempted.
VictimsAmongEquals(j) ==
  {v \in running : /\ Priority[v] <= Priority[j]
                   /\ \A u \in running : Priority[v] <= Priority[u]}

\* The running jobs findPreemptionVictim may return: the lowest priority, if
\* that is below the candidate's.
Victims(j) ==
  {v \in running : /\ Priority[v] < Priority[j]
                   /\ \A u \in running : Priority[v] <= Priority[u]}

\* Mutant: a job that does not fit is dropped from the queue.
StartOrDrop(j, q, run, u) ==
  /\ pending' = q \ {j}
  /\ \/ \E i \in FindFit(u, j), t \in Durations :
          /\ used' = Reserve(u, i, j)
          /\ node' = [node EXCEPT ![j] = Nodes[i]]
          /\ finish' = [finish EXCEPT ![j] = tick + t]
          /\ running' = run \cup {j}
     \/ /\ FindFit(u, j) = {}
        /\ running' = run /\ used' = u
        /\ UNCHANGED <<node, finish>>
  /\ UNCHANGED requeue

\* Job j, popped from the queue q, is started on the node that fits or set
\* aside; q, run and u are the queue, the running map and what is reserved
\* after a preemption, if there was one.
StartOrWait(j, q, run, u) ==
  /\ pending' = q \ {j}
  /\ \/ \E i \in FindFit(u, j), t \in Durations :
          /\ used' = Reserve(u, i, j)
          /\ node' = [node EXCEPT ![j] = Nodes[i]]
          /\ finish' = [finish EXCEPT ![j] = tick + t]
          /\ running' = run \cup {j}
          /\ UNCHANGED requeue
     \/ /\ FindFit(u, j) = {}
        /\ requeue' = requeue \cup {j}
        /\ running' = run /\ used' = u
        /\ UNCHANGED <<node, finish>>

\* The head of the queue fits somewhere, or there is nobody to preempt for it.
Place(j) ==
  /\ phase = "place" /\ j \in Queue!Heads(pending)
  /\ FindFit(used, j) # {} \/ Victims(j) = {}
  /\ StartOrWait(j, pending, running, used)
  /\ UNCHANGED <<tick, phase, submitTime, completed>>

\* The victim goes back to the queue, with a new submit time, whether or not
\* the candidate fits then.
Preempt(j, v) ==
  /\ phase = "place" /\ j \in Queue!Heads(pending)
  /\ FindFit(used, j) = {} /\ v \in Victims(j)
  /\ submitTime' = [submitTime EXCEPT ![v] = tick]
  /\ StartOrWait(j, pending \cup {v}, running \ {v}, Release(used, v))
  /\ UNCHANGED <<tick, phase, completed>>

EndTick ==
  /\ phase = "place" /\ pending = {}
  /\ pending' = requeue /\ requeue' = {}
  /\ tick' = tick + 1
  /\ phase' = IF tick' < MaxTicks THEN "submit" ELSE "over"
  /\ UNCHANGED <<submitTime, running, finish, node, completed, used>>

Over == phase = "over" /\ UNCHANGED schedVars

SchedNext ==
  \/ SubmitArrivals \/ AllCompleted \/ EndTick \/ Over
  \/ \E j \in Jobs : Complete(j) \/ Place(j)
  \/ \E j, v \in Jobs : Preempt(j, v)

\* One thread that only computes.
SchedSpec == SchedInit /\ [][SchedNext]_schedVars /\ WF_schedVars(SchedNext)

-----------------------------------------------------------------------------
(* Properties *)

\* Every variable has the shape of the program's; usage is never negative.
SchedTypeOK ==
  /\ tick \in 0..MaxTicks /\ phase \in {"submit", "complete", "place", "over"}
  /\ submitTime \in [Jobs -> Nat] /\ finish \in [Jobs -> Nat]
  /\ pending \subseteq Jobs /\ requeue \subseteq Jobs
  /\ running \subseteq Jobs /\ completed \subseteq Jobs
  /\ node \in [Jobs -> {Nodes[i] : i \in Index} \cup {"none"}]
  /\ used \in [Index -> [Resources -> Nat]]

\* No job is lost or duplicated by arrival, placement, preemption and the
\* requeue at the end of a tick: a job that has arrived is in exactly one of
\* the queue, the jobs set aside, the running map and the completed jobs.
OneState ==
  \A j \in Jobs :
    LET places == {S \in {<<"q", pending>>, <<"w", requeue>>, <<"r", running>>,
                          <<"c", completed>>} : j \in S[2]}
        arrived == Arrival[j] < tick \/ (Arrival[j] = tick /\ phase \in {"complete", "place"})
    IN  Cardinality(places) = IF arrived THEN 1 ELSE 0

\* The bookkeeping of a node is exact and within its capacity: what is reserved
\* is what the running jobs placed there need, after any sequence of
\* placements, completions and preemptions.
UsedIsPlaced ==
  \A i \in Index, r \in Resources :
    /\ used[i][r] = MapThenSumSet(LAMBDA j : Need[j][r], {j \in running : node[j] = Nodes[i]})
    /\ used[i][r] <= Total[i][r]

\* No completion is missed, although the loop looks for finishTick == tick: a
\* job still running after the completions of a tick finishes in a later one.
FinishAhead ==
  \A j \in running : IF phase = "place" THEN finish[j] > tick ELSE finish[j] >= tick

\* Jobs are considered highest priority first, although preempted jobs enter
\* the queue in the middle of a pass: nothing left in the queue outranks a job
\* that this tick has set aside.
ConsideredInOrder ==
  \A w \in requeue, p \in pending : Priority[p] <= Priority[w]

\* Placement ends in every tick: preempted jobs go back to the same queue, but
\* two jobs never preempt each other for ever.
TickEnds == phase = "place" ~> phase # "place"

\* findPreemptionVictim: the victim "would free enough resources for the
\* candidate to fit once removed".
PreemptionHelps ==
  [][\A j, v \in Jobs : Preempt(j, v) => j \in running']_schedVars

=============================================================================
