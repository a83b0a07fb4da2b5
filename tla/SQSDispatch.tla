---------------------------- MODULE SQSDispatch -----------------------------
(***************************************************************************)
(* The dispatcher with the SQS backend: the coordinator process of         *)
(* cmd/dispatcher/sqs.go, its worker processes (RunSQSWorker) and the      *)
(* queues.  Workers pull messages by themselves and use the coordinator    *)
(* for triage, bookkeeping and shutdown.  Workers are numbered in the      *)
(* order they are started; a killed worker is replaced by a new one.       *)
(***************************************************************************)
EXTENDS SQSCoordinator

CONSTANTS
  Workload,    \* the jobs of this run
  Inject,      \* job.InjectFailure, chaos jobs included
  Leftover,    \* messages an earlier run with the same prefix left behind
  Pool,        \* o.workers
  MaxWorkers,  \* bound: worker processes ever started
  MaxFaults,   \* bound: worker crashes and failed sends
  MaxSpawnFails, \* bound: process starts that fail
  MaxStalls    \* bound: deliveries that outlive their visibility timeout

Workers == 1..MaxWorkers

ASSUME SQSDispatchAssumption ==
  /\ IsFiniteSet(Jobs) /\ Workload \subseteq Jobs
  /\ Inject \in [Jobs -> Injections]
  /\ Leftover \in Seq(Message)
  /\ Pool \in 1..MaxWorkers /\ MaxWorkers \in Nat
  /\ MaxFaults \in Nat /\ MaxSpawnFails \in Nat /\ MaxStalls \in Nat

VARIABLES
  pc,        \* where each worker is in RunSQSWorker
  tier,      \* the tier its Receive polls next
  d,         \* the delivery it holds
  triage,    \* the error its Report is being triaged for, or "none"
  chaos,     \* the chaos goroutine OnStarted started for it
  spawned,   \* the number of workers started
  initial,   \* how many of them the coordinator's own loop has started
  co,        \* where runSQSCoordinator is
  runErr,    \* runErr # nil
  reaped,    \* the workers whose exit was received
  faults, spawnFails, stalls

workerVars == <<pc, tier, d, triage>>
procVars == <<chaos, spawned, initial, co, runErr, reaped, faults, spawnFails, stalls>>
vars == <<msgs, coordVars, workerVars, procVars>>

NoDelivery == [m |-> 0, rc |-> 0, lapsed |-> FALSE]
Holding(w) == pc[w] \in {"got", "run", "stall", "triage", "ack", "release", "resend"}
Alive == {w \in Workers : pc[w] = "sweep" \/ Holding(w)}
Gone  == {w \in Workers : pc[w] \in {"exited", "dead"}}
Over  == co \in {"ok", "failed"}
Up    == ~Over    \* the coordinator process is there to answer and to watch

Msg(w) == msgs[d[w].m]
Job(w) == Msg(w).job

\* Mutant: attempts are counted from zero.
AttemptFromZero(w) == Msg(w).tried + d[w].rc - 1

Attempt(w) == Msg(w).tried + d[w].rc

\* Mutant: a poison job stalls its first worker only.
StallsOnce(w) == Msg(w).inject \in {"poison", "hang"} /\ Attempt(w) = 1

Stalls(w) == \/ Msg(w).inject = "poison"
             \/ Msg(w).inject = "hang" /\ Attempt(w) = 1

SQSInit ==
  /\ CoordInit /\ msgs = Leftover
  /\ pc = [w \in Workers |-> "absent"]
  /\ tier = [w \in Workers |-> MaxTier]
  /\ d = [w \in Workers |-> NoDelivery]
  /\ triage = [w \in Workers |-> "none"]
  /\ chaos = [w \in Workers |-> "none"]
  /\ spawned = 0 /\ initial = 0 /\ co = "submitting" /\ runErr = FALSE /\ reaped = {}
  /\ faults = 0 /\ spawnFails = 0 /\ stalls = 0

-----------------------------------------------------------------------------
(* RunSQSWorker *)

\* The loop starts over with a sweep from the highest tier.
Loop(w) == /\ pc' = [pc EXCEPT ![w] = "sweep"]
           /\ tier' = [tier EXCEPT ![w] = MaxTier]
           /\ d' = [d EXCEPT ![w] = NoDelivery]
           /\ UNCHANGED triage

Goto(w, l) == pc' = [pc EXCEPT ![w] = l] /\ UNCHANGED <<tier, d, triage>>

Receive(w) ==
  /\ Up /\ pc[w] = "sweep" /\ tier[w] >= 1
  /\ \E i \in Visible(tier[w]) :
       /\ Deliver(i)
       /\ d' = [d EXCEPT ![w] = [m |-> i, rc |-> msgs[i].rc + 1,
                                 lapsed |-> msgs[i].lapsed]]
  /\ pc' = [pc EXCEPT ![w] = "got"]
  /\ UNCHANGED <<coordVars, tier, triage, procVars>>

PollRedrives(w) ==
  /\ Up /\ pc[w] = "sweep" /\ tier[w] >= 1
  /\ \E i \in Visible(tier[w]) : Redrive(i)
  /\ UNCHANGED <<coordVars, workerVars, procVars>>

\* Mutant: the sweep ends before the lowest tier.
PollEmptyShort(w) ==
  /\ Up /\ pc[w] = "sweep" /\ tier[w] >= 1 /\ Visible(tier[w]) = {}
  /\ tier' = [tier EXCEPT ![w] = IF @ = 2 THEN 0 ELSE @ - 1]
  /\ UNCHANGED <<msgs, coordVars, pc, d, triage, procVars>>

PollEmpty(w) ==
  /\ Up /\ pc[w] = "sweep" /\ tier[w] >= 1 /\ Visible(tier[w]) = {}
  /\ tier' = [tier EXCEPT ![w] = @ - 1]
  /\ UNCHANGED <<msgs, coordVars, pc, d, triage, procVars>>

\* Mutant: a worker stops when it finds nothing, whatever Status answers.
AskStatusStops(w) ==
  /\ Up /\ pc[w] = "sweep" /\ tier[w] < 1
  /\ Goto(w, "exited")
  /\ UNCHANGED <<msgs, coordVars, procVars>>

\* Nothing in any tier: ask Status, stop when everything is terminal.
AskStatus(w) ==
  /\ Up /\ pc[w] = "sweep" /\ tier[w] < 1
  /\ IF done THEN Goto(w, "exited") ELSE Loop(w)
  /\ UNCHANGED <<msgs, coordVars, procVars>>

\* Started, with the OnStarted hook for a job that makes its worker stall.
StartJob(w) ==
  /\ Up /\ pc[w] = "got"
  /\ \/ /\ outcome[Job(w)] # "none"
        /\ Goto(w, "ack")
        /\ UNCHANGED <<coordVars, chaos>>
     \/ /\ Started(Job(w), d[w].rc)
        /\ Goto(w, IF Stalls(w) THEN "stall" ELSE "run")
        /\ chaos' = IF Stalls(w) THEN [chaos EXCEPT ![w] = "kill"] ELSE chaos
  /\ UNCHANGED <<msgs, spawned, initial, co, runErr, reaped, faults, spawnFails, stalls>>

\* Injected inference failures are consumed by the first attempt only.
Results(w) == IF Attempt(w) = 1 /\ Msg(w).inject \in ErrorKinds
                THEN {Msg(w).inject} ELSE ErrorKinds \cup {"ok"}

\* The job is run and reported; a failure goes to triage outside the lock.
Report(w) ==
  /\ Up /\ pc[w] = "run"
  /\ \E r \in Results(w) :
       \/ /\ outcome[Job(w)] # "none"
          /\ Goto(w, "ack")
          /\ UNCHANGED coordVars
       \/ /\ r = "ok"
          /\ ReportSuccess(Job(w))
          /\ Goto(w, "ack")
       \/ /\ r # "ok" /\ outcome[Job(w)] = "none"
          /\ pc' = [pc EXCEPT ![w] = "triage"]
          /\ triage' = [triage EXCEPT ![w] = r]
          /\ UNCHANGED <<coordVars, tier, d>>
  /\ UNCHANGED <<msgs, procVars>>

\* The decision reaches the worker if that is still alive.
Decided(w, l) ==
  /\ triage' = [triage EXCEPT ![w] = "none"]
  /\ pc' = IF pc[w] = "triage" THEN [pc EXCEPT ![w] = l] ELSE pc
  /\ UNCHANGED <<tier, d>>

\* Report after the agent's answer: the job may have ended elsewhere meanwhile.
FinishTriage(w) ==
  /\ Up /\ triage[w] # "none"
  /\ \/ /\ outcome[Job(w)] # "none"
        /\ Decided(w, "ack")
        /\ UNCHANGED coordVars
     \/ \E a \in Decide(Attempt(w), Budget[Job(w)], triage[w], 1) :
          LET g == Guarded(a, Attempt(w), Budget[Job(w)])
          IN  \/ /\ g.action \in {"retry", "auto_adjust"}
                 /\ ReportRetry(Job(w), g)
                 /\ Decided(w, IF g.action = "retry" THEN "release" ELSE "resend")
              \/ /\ g.action = "escalate"
                 /\ ReportEscalate(Job(w))
                 /\ Decided(w, "ack")
  /\ UNCHANGED <<msgs, procVars>>

ReleaseMessage(w) ==
  /\ Up /\ pc[w] = "release"
  /\ \/ Release(d[w]) /\ Loop(w)
     \/ StaleReceipt(d[w]) /\ UNCHANGED msgs /\ (Loop(w) \/ Goto(w, "dead"))
  /\ UNCHANGED <<coordVars, procVars>>

\* Mutant: the old message is acked although the Send may have failed.
ResendUnchecked(w) ==
  /\ Up /\ pc[w] = "resend"
  /\ Send(Job(w), Attempt(w), "none") \/ UNCHANGED msgs
  /\ Goto(w, "ack")
  /\ UNCHANGED <<coordVars, procVars>>

\* auto_adjust: the adjusted job is sent before the old message is acked.
Resend(w) ==
  /\ Up /\ pc[w] = "resend"
  /\ Send(Job(w), Attempt(w), "none")
  /\ Goto(w, "ack")
  /\ UNCHANGED <<coordVars, procVars>>

AckMessage(w) ==
  /\ Up /\ pc[w] = "ack"
  /\ Ack(d[w])
  /\ Loop(w)
  /\ UNCHANGED <<coordVars, procVars>>

WorkerStep(w) ==
  \/ Receive(w) \/ PollRedrives(w) \/ PollEmpty(w) \/ AskStatus(w)
  \/ StartJob(w) \/ Report(w) \/ ReleaseMessage(w) \/ Resend(w) \/ AckMessage(w)

-----------------------------------------------------------------------------
(* The queue service and faults *)

Held(i) == \E w \in Workers : Holding(w) /\ d[w].m = i /\ d[w].rc = msgs[i].rc

\* The visibility timeout ends: the holder is gone, or too slow.
Timeout(i) ==
  /\ Up
  /\ IF Held(i) THEN stalls < MaxStalls /\ stalls' = stalls + 1
                ELSE UNCHANGED stalls
  /\ Expire(i)
  /\ UNCHANGED <<coordVars, workerVars, chaos, spawned, initial, co, runErr, reaped, faults, spawnFails>>

\* A worker dies: a crash, a failed start of its runner, an SQS call failing.
Crash(w) ==
  /\ Up /\ w \in Alive /\ faults < MaxFaults
  /\ faults' = faults + 1
  /\ Goto(w, "dead")
  /\ UNCHANGED <<msgs, coordVars, chaos, spawned, initial, co, runErr, reaped, spawnFails, stalls>>

-----------------------------------------------------------------------------
(* runSQSCoordinator *)

Spawn == /\ spawned < MaxWorkers
         /\ spawned' = spawned + 1
         /\ Goto(spawned + 1, "sweep")

CoSubmit(j) ==
  /\ co = "submitting" /\ j \in Workload
  /\ Register(j)
  /\ \/ Send(j, 0, Inject[j]) /\ UNCHANGED <<co, faults>>
     \/ /\ faults < MaxFaults /\ faults' = faults + 1
        /\ co' = "failed" /\ UNCHANGED msgs
  /\ UNCHANGED <<workerVars, chaos, spawned, initial, runErr, reaped, spawnFails, stalls>>

CoClose ==
  /\ co = "submitting" /\ submitted = Workload
  /\ CloseSubmissions
  /\ co' = "spawning"
  /\ UNCHANGED <<msgs, workerVars, chaos, spawned, initial, runErr, reaped, faults, spawnFails, stalls>>

\* A start that fails ends the program; the workers started so far are left
\* to find the coordinator gone.
CoSpawn ==
  /\ co = "spawning"
  /\ \/ /\ Spawn
        /\ initial' = initial + 1
        /\ co' = (IF initial' = Pool THEN "waiting" ELSE co)
        /\ UNCHANGED spawnFails
     \/ /\ spawnFails < MaxSpawnFails /\ spawnFails' = spawnFails + 1
        /\ co' = "failed" /\ UNCHANGED <<workerVars, spawned, initial>>
  /\ UNCHANGED <<msgs, coordVars, chaos, runErr, reaped, faults, stalls>>

\* The chaos goroutine of worker w: SIGKILL it ...
ChaosKill(w) ==
  /\ Up /\ chaos[w] = "kill"
  /\ chaos' = [chaos EXCEPT ![w] = "spawn"]
  /\ IF w \in Alive THEN Goto(w, "dead") ELSE UNCHANGED workerVars
  /\ UNCHANGED <<msgs, coordVars, spawned, initial, co, runErr, reaped, faults, spawnFails, stalls>>

\* ... and start a replacement, ignoring an error.
ChaosSpawn(w) ==
  /\ Up /\ chaos[w] = "spawn"
  /\ chaos' = [chaos EXCEPT ![w] = "killed"]
  /\ \/ Spawn /\ UNCHANGED spawnFails
     \/ /\ spawnFails < MaxSpawnFails /\ spawnFails' = spawnFails + 1
        /\ UNCHANGED <<workerVars, spawned>>
  /\ UNCHANGED <<msgs, coordVars, initial, co, runErr, reaped, faults, stalls>>

\* WatchDeadLetters, started after CloseSubmissions: a peek returns some of
\* the dead letters.  A tick that races Done may still be served.
WatchDeadLetters ==
  /\ Up /\ closed
  /\ \E S \in SUBSET {msgs[i].job : i \in {m \in DOMAIN msgs : msgs[m].st = "dlq"}} :
        S \ Terminal # {} /\ DeadLettered(S)
  /\ UNCHANGED <<msgs, workerVars, procVars>>

CoDone ==
  /\ co = "waiting" /\ done
  /\ co' = "draining"
  /\ UNCHANGED <<msgs, coordVars, workerVars, chaos, spawned, initial, runErr, reaped, faults, spawnFails, stalls>>

\* An exit: expected after a chaos kill, otherwise a reason to look, a little
\* later, whether anyone is left.
CoExit(w) ==
  /\ co = "waiting" /\ w \in Gone \ reaped
  /\ reaped' = reaped \cup {w}
  /\ co' = CASE chaos[w] \in {"spawn", "killed"} -> "waiting"
             [] chaos[w] \in {"none", "kill"} /\ done -> "draining"
             [] chaos[w] \in {"none", "kill"} /\ ~done -> "looking"
  /\ UNCHANGED <<msgs, coordVars, workerVars, chaos, spawned, initial, runErr, faults, spawnFails, stalls>>

CoLook ==
  /\ co = "looking"
  /\ IF Alive = {} THEN co' = "draining" /\ runErr' = TRUE
                   ELSE co' = "waiting" /\ UNCHANGED runErr
  /\ UNCHANGED <<msgs, coordVars, workerVars, chaos, spawned, initial, reaped, faults, spawnFails, stalls>>

\* The drain loop kills the workers that are left after its deadline.
CoDrainKill ==
  /\ co = "draining" /\ Alive # {}
  /\ pc' = [w \in Workers |-> IF w \in Alive THEN "dead" ELSE pc[w]]
  /\ UNCHANGED <<msgs, coordVars, tier, d, triage, procVars>>

CoFinish ==
  /\ co = "draining" /\ Alive = {}
  /\ co' = IF runErr THEN "failed" ELSE "ok"
  /\ UNCHANGED <<msgs, coordVars, workerVars, chaos, spawned, initial, runErr, reaped, faults, spawnFails, stalls>>

CoStep == \/ \E j \in Jobs : CoSubmit(j)
          \/ CoClose \/ CoSpawn \/ CoDone \/ CoLook \/ CoDrainKill \/ CoFinish
          \/ \E w \in Workers : CoExit(w)

Returned == Over /\ UNCHANGED vars

SQSNext ==
  \/ CoStep \/ WatchDeadLetters \/ Returned
  \/ \E i \in DOMAIN msgs : Timeout(i)
  \/ \E w \in Workers : \/ WorkerStep(w) \/ FinishTriage(w) \/ Crash(w)
                        \/ ChaosKill(w) \/ ChaosSpawn(w)

\* Every process and the service keep moving: inference runs and triage calls
\* end, polls go on, an abandoned delivery times out, and the chaos goroutines
\* and the DLQ watcher are scheduled.
Fairness ==
  /\ WF_vars(CoStep)
  /\ WF_vars(WatchDeadLetters)
  /\ WF_vars(\E i \in DOMAIN msgs : ~Held(i) /\ Timeout(i))
  /\ \A w \in Workers : /\ WF_vars(WorkerStep(w))
                        /\ WF_vars(FinishTriage(w))
                        /\ WF_vars(ChaosKill(w) \/ ChaosSpawn(w))

SQSSafety == SQSInit /\ [][SQSNext]_vars
SQSSpec == SQSSafety /\ Fairness

-----------------------------------------------------------------------------
(* Properties *)

\* Every variable has a value the two programs and the service can give it.
SQSTypeOK ==
  /\ msgs \in Seq(Message)
  /\ submitted \subseteq Jobs /\ released \subseteq Jobs
  /\ outcome \in [Jobs -> Outcomes \cup {"none"}]
  /\ stats \in [Submitted : Nat, Succeeded : Nat, Escalated : Nat,
                DeadLettered : Nat, Redelivered : Nat]
  /\ closed \in BOOLEAN /\ done \in BOOLEAN
  /\ pc \in [Workers -> {"absent", "sweep", "got", "run", "stall", "triage",
                         "ack", "release", "resend", "exited", "dead"}]
  /\ tier \in [Workers -> 0..MaxTier]
  /\ d \in [Workers -> [m : Nat, rc : Nat, lapsed : BOOLEAN]]
  /\ triage \in [Workers -> ErrorKinds \cup {"none"}]
  /\ chaos \in [Workers -> {"none", "kill", "spawn", "killed"}]
  /\ spawned \in 0..MaxWorkers /\ initial \in 0..Pool
  /\ co \in {"submitting", "spawning", "waiting", "looking", "draining", "ok", "failed"}
  /\ runErr \in BOOLEAN /\ reaped \subseteq Gone

Live(i) == msgs[i].st \in {"visible", "inflight", "dlq"}

\* At-least-once: whatever crashes, times out or is acked with a stale receipt,
\* a registered job without an outcome still has a message, in a tier queue or
\* in the dead-letter queue.  (Before a failed Send the run ends.)
NoJobLost ==
  co # "failed" => \A j \in submitted \ Terminal :
                      \E i \in DOMAIN msgs : msgs[i].job = j /\ Live(i)

\* Completion is idempotent: each job is counted once, under the outcome it
\* keeps, however often it is delivered, run and reported.
CountedOnce ==
  /\ stats.Submitted = Cardinality(submitted)
  /\ stats.Succeeded = Cardinality({j \in Jobs : outcome[j] = "completed"})
  /\ stats.Escalated = Cardinality({j \in Jobs : outcome[j] = "escalated"})
  /\ stats.DeadLettered = Cardinality({j \in Jobs : outcome[j] = "dead_lettered"})

\* Without leftovers of another run the coordinator implements JobBoard: one
\* outcome per job, completion announced exactly when every job has one.
Board == INSTANCE JobBoard
ImplementsBoard == Board!BoardSpec

\* The dead-letter queue is for batches whose holders die or stall: a job whose
\* workers all answer ends by success or escalation.
DeadLetterNeedsDeadHolder ==
  \A j \in Jobs : outcome[j] = "dead_lettered" =>
                     Inject[j] = "poison" \/ faults > 0 \/ stalls > 0

\* A delivery is counted as redelivered exactly when the holder before it let
\* the visibility timeout run out, and not after a triaged retry.
RedeliveredExact ==
  [][\A w \in Workers : pc[w] = "got" /\ pc'[w] \in {"run", "stall"} =>
        (stats'.Redelivered # stats.Redelivered) = d[w].lapsed]_vars

\* A poison batch cannot take the run down: when the run completes, poison
\* jobs, and only they, are in the dead-letter queue.
OnlyPoisonDies ==
  co = "ok" => \A j \in Workload : (outcome[j] = "dead_lettered") = (Inject[j] = "poison")

\* The coordinator always returns.
CoordinatorReturns == <>Over

\* The coordinator announces completion only when every job of the run has an
\* outcome.
DoneMeansTerminal == done => submitted \subseteq Terminal

\* The run fails only because of a fault: a process that died or could not be
\* started, a failed send, or a delivery that outlived its visibility timeout.
FailureNeedsFault == co = "failed" => faults + spawnFails + stalls > 0

=============================================================================
