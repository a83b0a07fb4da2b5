----------------------------- MODULE Dispatcher -----------------------------
(***************************************************************************)
(* The dispatcher program with the in-process broker (cmd/dispatcher/      *)
(* main.go): a coordinator process that submits the workload, starts the   *)
(* worker processes, serves their net/rpc calls and reaps them, and        *)
(* workers that claim, run and report one job at a time.  The broker's     *)
(* steps are those of module Broker; here they are taken on behalf of the  *)
(* call a worker has outstanding.  A call survives the death of its worker *)
(* once the coordinator has read it from the connection.                   *)
(***************************************************************************)
EXTENDS Broker

CONSTANT MaxFaults    \* bound: worker crashes and failed process starts

ASSUME DispatcherAssumption == MaxFaults \in Nat /\ Workers # {}

VARIABLES
  pc,        \* where runWorker is; "exited" and "failed" are exit statuses
  held,      \* the job in the last ClaimReply of each worker
  call,      \* the RPC each worker has outstanding at the coordinator
  co,        \* where runCoordinator is
  received,  \* the workers whose exit the coordinator has received
  firstErr,  \* firstWorkerErr # nil
  faults     \* faults so far, capped by MaxFaults

procVars == <<pc, held, call, co, received, firstErr, faults>>
vars == <<brokerVars, procVars>>

Alive == {w \in Workers : pc[w] \in {"starting", "claiming", "running", "reporting"}}
Dead  == {w \in Workers : pc[w] \in {"exited", "failed"}}
Over  == co \in {"ok", "failed"}

DispatcherInit ==
  /\ BrokerInit
  /\ pc   = [w \in Workers |-> "absent"]
  /\ held = [w \in Workers |-> "none"]
  /\ call = [w \in Workers |-> "none"]
  /\ co = "submitting" /\ received = {} /\ firstErr = FALSE /\ faults = 0

-----------------------------------------------------------------------------
(* The coordinator: submit everything, close, start the workers. *)

CoSubmit(j) ==
  /\ co = "submitting"
  /\ \A i \in Jobs \ submitted : SubmitTime[j] <= SubmitTime[i]
  /\ Submit(j)
  /\ UNCHANGED procVars

CoClose ==
  /\ co = "submitting" /\ submitted = Jobs
  /\ CloseSubmissions
  /\ co' = "spawning"
  /\ UNCHANGED <<pc, held, call, received, firstErr, faults>>

CoSpawn(w) ==
  /\ co = "spawning" /\ pc[w] = "absent"
  /\ pc' = [pc EXCEPT ![w] = "starting"]
  /\ co' = IF \E v \in Workers \ {w} : pc[v] = "absent" THEN co ELSE "waiting"
  /\ UNCHANGED <<brokerVars, held, call, received, firstErr, faults>>

\* Process.Kill on every worker that was started.
Killed == [w \in Workers |-> IF w \in Alive THEN "failed" ELSE pc[w]]

\* A cmd.Start that fails: kill and wait for the started workers, give up.
CoSpawnFails(w) ==
  /\ co = "spawning" /\ pc[w] = "absent" /\ faults < MaxFaults
  /\ faults' = faults + 1
  /\ pc' = Killed
  /\ co' = "killing"
  /\ UNCHANGED <<brokerVars, held, call, received, firstErr>>

(* The select loop over broker.Done() and the exits of the workers. *)

CoDone ==
  /\ co = "waiting" /\ done
  /\ co' = "draining"
  /\ UNCHANGED <<brokerVars, pc, held, call, received, firstErr, faults>>

\* Mutant: the error of a worker that exits after completion is dropped.
CoReapForgets(w) ==
  /\ co = "waiting" /\ w \in Dead \ received
  /\ received' = received \cup {w}
  /\ IF done THEN co' = "draining" /\ UNCHANGED pc
             ELSE co' = "killing" /\ pc' = Killed
  /\ UNCHANGED <<brokerVars, held, call, firstErr, faults>>

\* Mutant: the surviving workers are waited for without being killed.
CoReapNoKill(w) ==
  /\ co = "waiting" /\ w \in Dead \ received
  /\ received' = received \cup {w}
  /\ co' = IF done THEN "draining" ELSE "killing"
  /\ firstErr' = (done /\ pc[w] = "failed")
  /\ UNCHANGED <<brokerVars, pc, held, call, faults>>

\* A worker's exit: the end of the run if Done is closed by now, a failure of
\* the whole run (kill and reap the others) if it is not.
CoReap(w) ==
  /\ co = "waiting" /\ w \in Dead \ received
  /\ received' = received \cup {w}
  /\ IF done THEN /\ co' = "draining" /\ UNCHANGED pc
                  /\ firstErr' = (pc[w] = "failed")
             ELSE /\ co' = "killing" /\ pc' = Killed
                  /\ UNCHANGED firstErr
  /\ UNCHANGED <<brokerVars, held, call, faults>>

\* Every exit of a killed worker has been received.
CoKilled ==
  /\ co = "killing" /\ Alive = {}
  /\ co' = "failed"
  /\ UNCHANGED <<brokerVars, pc, held, call, received, firstErr, faults>>

CoDrain(w) ==
  /\ co = "draining" /\ w \in Dead \ received
  /\ received' = received \cup {w}
  /\ firstErr' = (firstErr \/ pc[w] = "failed")
  /\ UNCHANGED <<brokerVars, pc, held, call, co, faults>>

CoFinish ==
  /\ co = "draining" /\ received = Workers
  /\ co' = IF firstErr THEN "failed" ELSE "ok"
  /\ UNCHANGED <<brokerVars, pc, held, call, received, firstErr, faults>>

-----------------------------------------------------------------------------
(* The workers. *)

\* Dialled the broker, started the Python runner, called Claim.
Start(w) ==
  /\ ~Over /\ pc[w] = "starting"
  /\ pc' = [pc EXCEPT ![w] = "claiming"]
  /\ call' = [call EXCEPT ![w] = "claim"]
  /\ UNCHANGED <<brokerVars, held, co, received, firstErr, faults>>

\* The injected failure of the job, if it has one, or what the runner says.
Results(j) == IF inject[j] # "none" THEN {inject[j]} ELSE ErrorKinds \cup {"ok"}

\* The job is run and Report is called with the result.
Run(w) ==
  /\ ~Over /\ pc[w] = "running"
  /\ pc' = [pc EXCEPT ![w] = "reporting"]
  /\ \E r \in Results(held[w]) : call' = [call EXCEPT ![w] = r]
  /\ UNCHANGED <<brokerVars, held, co, received, firstErr, faults>>

\* The worker dies (a crash, or a dial or runner start that fails).  A call it
\* was making is lost or not; one in triage has reached the coordinator.
Crash(w) ==
  /\ ~Over /\ w \in Alive /\ faults < MaxFaults
  /\ faults' = faults + 1
  /\ pc' = [pc EXCEPT ![w] = "failed"]
  /\ \/ UNCHANGED call
     \/ call[w] # "triage" /\ call' = [call EXCEPT ![w] = "none"]
  /\ UNCHANGED <<brokerVars, held, co, received, firstErr>>

-----------------------------------------------------------------------------
(* The coordinator's side of a call.  The reply reaches w if it is alive.   *)
(* A Claim answered Wait is repeated after a pause, which leaves the call   *)
(* outstanding.                                                             *)

\* After a reply the loop of runWorker calls Claim again.
NextClaim(w) ==
  IF w \in Alive THEN /\ pc' = [pc EXCEPT ![w] = "claiming"]
                      /\ call' = [call EXCEPT ![w] = "claim"]
                 ELSE /\ call' = [call EXCEPT ![w] = "none"]
                      /\ UNCHANGED pc

ServeJob(w, j) ==
  /\ ~Over /\ call[w] = "claim"
  /\ ClaimJob(w, j)
  /\ call' = [call EXCEPT ![w] = "none"]
  /\ held' = [held EXCEPT ![w] = j]
  /\ pc' = IF w \in Alive THEN [pc EXCEPT ![w] = "running"] ELSE pc
  /\ UNCHANGED <<co, received, firstErr, faults>>

ServeShutdown(w) ==
  /\ ~Over /\ call[w] = "claim"
  /\ ClaimShutdown
  /\ call' = [call EXCEPT ![w] = "none"]
  /\ pc' = IF w \in Alive THEN [pc EXCEPT ![w] = "exited"] ELSE pc
  /\ UNCHANGED <<held, co, received, firstErr, faults>>

ServeSuccess(w) ==
  /\ ~Over /\ call[w] = "ok"
  /\ ReportSuccess(held[w])
  /\ NextClaim(w)
  /\ UNCHANGED <<held, co, received, firstErr, faults>>

ServeFailure(w) ==
  /\ ~Over /\ call[w] \in ErrorKinds
  /\ ReportFailure(held[w], call[w])
  /\ call' = [call EXCEPT ![w] = "triage"]
  /\ UNCHANGED <<pc, held, co, received, firstErr, faults>>

ServeDecision(w) ==
  /\ ~Over /\ call[w] = "triage"
  /\ FinishTriage(held[w])
  /\ NextClaim(w)
  /\ UNCHANGED <<held, co, received, firstErr, faults>>

\* The coordinator process has returned.
Returned == Over /\ UNCHANGED vars

Progress ==
  \/ \E j \in Jobs : CoSubmit(j)
  \/ CoClose \/ CoDone \/ CoKilled \/ CoFinish
  \/ \E w \in Workers :
       \/ CoSpawn(w) \/ CoReap(w) \/ CoDrain(w)
       \/ Start(w) \/ Run(w)
       \/ ServeShutdown(w) \/ ServeSuccess(w) \/ ServeFailure(w) \/ ServeDecision(w)
       \/ \E j \in Jobs : ServeJob(w, j)

Fault == \E w \in Workers : CoSpawnFails(w) \/ Crash(w)

DispatcherNext == Progress \/ Fault \/ Returned

\* The processes are never all stopped while one of them can take a step:
\* inference runs end, triage calls end (30 s HTTP timeout), RPCs are served.
DispatcherSpec ==
  DispatcherInit /\ [][DispatcherNext]_vars /\ WF_vars(Progress)

-----------------------------------------------------------------------------
(* Properties *)

\* Every process variable has a value runWorker and runCoordinator can give it.
ProcTypeOK ==
  /\ TypeOK
  /\ pc \in [Workers -> {"absent", "starting", "claiming", "running",
                         "reporting", "exited", "failed"}]
  /\ held \in [Workers -> Jobs \cup {"none"}]
  /\ call \in [Workers -> ErrorKinds \cup {"none", "claim", "ok", "triage"}]
  /\ co \in {"submitting", "spawning", "waiting", "draining", "killing",
             "ok", "failed"}
  /\ received \subseteq Dead
  /\ firstErr \in BOOLEAN /\ faults \in 0..MaxFaults

\* A job is held by at most one worker at a time, also while a crash leaves a
\* report behind: whoever runs or reports a job is its node and finds it in
\* the running table, so no Report is answered "job is not assigned".
Holding(w) == pc[w] = "running" \/ call[w] \in ErrorKinds \cup {"ok"}
ExclusiveClaim ==
  /\ \A w \in Workers : Holding(w) => held[w] \in running /\ node[held[w]] = w
  /\ \A w \in Workers : call[w] = "triage" => held[w] \in triaging

\* A run that is reported complete has brought every job to an outcome, and
\* no worker process failed on the way, not even after its last report.
OkIsComplete ==
  co = "ok" => /\ Jobs = Terminal
               /\ stats.Succeeded + stats.Escalated = Cardinality(Jobs)
               /\ \A w \in Workers : pc[w] = "exited"
               /\ faults = 0

\* The coordinator always returns: it waits forever neither for a job nobody
\* can claim nor for a worker that was never told to stop.
CoordinatorReturns == <>Over

\* A run fails only because of a fault: without one, every job reaches an
\* outcome and the coordinator reports success.
FailureNeedsFault == co = "failed" => faults > 0

=============================================================================
