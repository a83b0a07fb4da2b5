-------------------------- MODULE DispatcherProofs --------------------------
(***************************************************************************)
(* Proofs about the dispatcher program over the in-process broker, for     *)
(* every workload, every set of workers, every triage agent and any number *)
(* of crashes and failed starts.                                           *)
(***************************************************************************)
EXTENDS Dispatcher, BrokerProofs

\* Which call a worker has outstanding, by where its loop is; only a worker that
\* failed may have left any call behind.
CallsOK ==
  \A w \in Workers :
    /\ pc[w] \in {"absent", "starting", "running", "exited"} => call[w] = "none"
    /\ pc[w] = "claiming" => call[w] = "claim"
    /\ pc[w] = "reporting" => call[w] \in ErrorKinds \cup {"ok", "triage"}

\* ExclusiveClaim, and that the node of a job in triage is the one that reported it.
Claims ==
  /\ ExclusiveClaim
  /\ \A w \in Workers : call[w] = "triage" => node[held[w]] = w

\* What the coordinator knows at each point: everything is submitted before the
\* first worker is started, nothing is received before the first exit is, and the
\* loop over the exits is entered with Done closed.  A fault is in the exit status of
\* a worker or has made the coordinator give up.
CoOK ==
  /\ co # "submitting" => closed /\ submitted = Jobs
  /\ co \in {"submitting", "spawning", "waiting"} => received = {}
  /\ co \in {"draining", "ok"} =>
       done /\ \A w \in received : pc[w] = "failed" => firstErr
  /\ co = "ok" => ~firstErr /\ received = Workers
  /\ faults > 0 => co \in {"killing", "failed"} \/ \E w \in Workers : pc[w] = "failed"

\* The inductive invariant.
DInv == IInv /\ ProcTypeOK /\ CallsOK /\ Claims /\ CoOK

Kept == ProcTypeOK /\ CallsOK /\ Claims /\ CoOK

-----------------------------------------------------------------------------
(* The broker inside the program *)

\* Whatever the processes do, the broker takes one of its own steps or none.
LEMMA BrokerStep == IInv /\ [DispatcherNext]_vars => [BrokerNext]_brokerVars
<1> SUFFICES ASSUME IInv, [DispatcherNext]_vars, ~UNCHANGED brokerVars PROVE BrokerNext
  OBVIOUS
<1>0. running \subseteq Jobs /\ triaging \subseteq Jobs
  BY DEF IInv, TypeOK
<1>1. ASSUME NEW j \in Jobs, CoSubmit(j) PROVE BrokerNext
  BY <1>1 DEF CoSubmit, BrokerNext
<1>2. ASSUME CoClose PROVE BrokerNext
  BY <1>2 DEF CoClose, BrokerNext
<1>3. ASSUME NEW w \in Workers, NEW j \in Jobs, ServeJob(w, j) PROVE BrokerNext
  BY <1>3 DEF ServeJob, BrokerNext
<1>4. ASSUME NEW w \in Workers, ServeShutdown(w) PROVE BrokerNext
  BY <1>4 DEF ServeShutdown, BrokerNext
<1>5. ASSUME NEW w \in Workers, ServeSuccess(w) PROVE BrokerNext
  <2>1. ReportSuccess(held[w]) /\ held[w] \in Jobs
    BY <1>0, <1>5 DEF ServeSuccess, ReportSuccess
  <2> QED BY <2>1 DEF BrokerNext
<1>6. ASSUME NEW w \in Workers, ServeFailure(w) PROVE BrokerNext
  <2>1. ReportFailure(held[w], call[w]) /\ held[w] \in Jobs /\ call[w] \in ErrorKinds
    BY <1>0, <1>6 DEF ServeFailure, ReportFailure
  <2> QED BY <2>1 DEF BrokerNext
<1>7. ASSUME NEW w \in Workers, ServeDecision(w) PROVE BrokerNext
  <2>1. FinishTriage(held[w]) /\ held[w] \in Jobs
    BY <1>0, <1>7 DEF ServeDecision, FinishTriage
  <2> QED BY <2>1 DEF BrokerNext
<1>8. ASSUME CoDone \/ CoKilled \/ CoFinish \/ Returned \/ UNCHANGED vars PROVE UNCHANGED brokerVars
  BY <1>8 DEF CoDone, CoKilled, CoFinish, Returned, vars
<1>9. ASSUME NEW w \in Workers, CoSpawn(w) \/ CoReap(w) \/ CoDrain(w) \/ Start(w) \/ Run(w)
                                 \/ CoSpawnFails(w) \/ Crash(w)
      PROVE  UNCHANGED brokerVars
  BY <1>9 DEF CoSpawn, CoReap, CoDrain, Start, Run, CoSpawnFails, Crash
<1> QED BY <1>1, <1>2, <1>3, <1>4, <1>5, <1>6, <1>7, <1>8, <1>9
        DEF DispatcherNext, Progress, Fault

-----------------------------------------------------------------------------
(* The steps of the coordinator *)

LEMMA InitDInv == DispatcherInit => DInv
<1> SUFFICES ASSUME DispatcherInit PROVE DInv
  OBVIOUS
<1>1. IInv
  BY InitInv DEF DispatcherInit
<1>2. ProcTypeOK
  <2>1. TypeOK /\ 0 \in 0..MaxFaults
    BY <1>1, DispatcherAssumption DEF IInv
  <2>2. /\ pc \in [Workers -> {"absent", "starting", "claiming", "running",
                               "reporting", "exited", "failed"}]
        /\ held \in [Workers -> Jobs \cup {"none"}]
        /\ call \in [Workers -> ErrorKinds \cup {"none", "claim", "ok", "triage"}]
    BY DEF DispatcherInit
  <2> QED BY <2>1, <2>2 DEF DispatcherInit, ProcTypeOK
<1>3. CallsOK /\ Claims
  BY DEF DispatcherInit, CallsOK, Claims, ExclusiveClaim, Holding, ErrorKinds
<1>4. CoOK
  BY DEF DispatcherInit, CoOK
<1> QED BY <1>1, <1>2, <1>3, <1>4 DEF DInv

\* A step that changes neither workers nor calls, nor where the jobs they hold are.
LEMMA WorkersStay ==
  ASSUME DInv, UNCHANGED <<pc, held, call, running, triaging, node>>
  PROVE  CallsOK' /\ Claims' /\ Dead' = Dead
<1>1. CallsOK'
  BY DEF DInv, CallsOK
<1>2. Claims'
  BY DEF DInv, Claims, ExclusiveClaim, Holding
<1> QED BY <1>1, <1>2 DEF Dead

LEMMA CoSubmits ==
  ASSUME DInv, IInv', (\E j \in Jobs : CoSubmit(j)) \/ CoClose
  PROVE  Kept'
<1>1. /\ UNCHANGED <<pc, held, call, received, firstErr, faults, running, triaging, node>>
      /\ co = "submitting"
      /\ \/ co' = co
         \/ co' = "spawning" /\ submitted' = Jobs /\ closed'
  BY DEF CoSubmit, CoClose, Submit, CloseSubmissions, procVars
<1>2. CallsOK' /\ Claims' /\ Dead' = Dead
  BY <1>1, WorkersStay
<1>3. ProcTypeOK'
  BY <1>1, <1>2 DEF DInv, ProcTypeOK, IInv
<1>4. CoOK'
  BY <1>1 DEF DInv, CoOK
<1> QED BY <1>2, <1>3, <1>4 DEF Kept

\* The coordinator alone: the broker and the workers stay as they are.
LEMMA CoAlone ==
  ASSUME DInv, IInv',
         CoDone \/ CoKilled \/ CoFinish \/ Returned \/ (\E w \in Workers : CoDrain(w))
           \/ UNCHANGED vars
  PROVE  Kept'
<1>1. UNCHANGED <<brokerVars, pc, held, call, faults>>
  BY DEF CoDone, CoKilled, CoFinish, Returned, CoDrain, vars, procVars
<1>2. UNCHANGED <<running, triaging, node, submitted, closed, done, pc, held, call, faults>>
  BY <1>1 DEF brokerVars
<1>3. CallsOK' /\ Claims' /\ Dead' = Dead
  BY <1>2, WorkersStay
<1>4. ASSUME CoDone \/ CoKilled \/ CoFinish \/ Returned \/ UNCHANGED vars
      PROVE  ProcTypeOK' /\ CoOK'
  <2>1. UNCHANGED <<received, firstErr>>
    BY <1>4 DEF CoDone, CoKilled, CoFinish, Returned, vars, procVars
  <2>2. \/ co' = co
        \/ co = "waiting" /\ done /\ co' = "draining"
        \/ co = "killing" /\ co' = "failed"
        \/ co = "draining" /\ received = Workers /\ co' = IF firstErr THEN "failed" ELSE "ok"
    BY <1>4 DEF CoDone, CoKilled, CoFinish, Returned, vars, procVars
  <2>3. ProcTypeOK'
    BY <1>2, <1>3, <2>1, <2>2 DEF DInv, ProcTypeOK, IInv
  <2>4. CoOK'
    BY <1>2, <2>1, <2>2 DEF DInv, CoOK, ProcTypeOK
  <2> QED BY <2>3, <2>4
<1>5. ASSUME NEW w \in Workers, CoDrain(w) PROVE ProcTypeOK' /\ CoOK'
  <2>1. /\ co = "draining" /\ co' = co /\ w \in Dead \ received
        /\ received' = received \cup {w} /\ firstErr' = (firstErr \/ pc[w] = "failed")
    BY <1>5 DEF CoDrain
  <2>2. ProcTypeOK'
    BY <1>2, <1>3, <2>1 DEF DInv, ProcTypeOK, IInv
  <2>3. CoOK'
    BY <1>2, <2>1 DEF DInv, CoOK, ProcTypeOK
  <2> QED BY <2>2, <2>3
<1> QED BY <1>3, <1>4, <1>5 DEF Kept

\* The workers after Process.Kill: nobody is alive, and nobody holds anything new.
LEMMA Kills ==
  ASSUME DInv, pc' = Killed, UNCHANGED <<brokerVars, held, call>>
  PROVE  /\ CallsOK' /\ Claims' /\ Dead \subseteq Dead'
         /\ pc' \in [Workers -> {"absent", "starting", "claiming", "running",
                                 "reporting", "exited", "failed"}]
         /\ \A w \in Workers : pc[w] = "failed" => pc'[w] = "failed"
<1>0. UNCHANGED <<running, triaging, node>>
  BY DEF brokerVars
<1>1. /\ pc \in [Workers -> {"absent", "starting", "claiming", "running",
                             "reporting", "exited", "failed"}]
      /\ \A w \in Workers : pc'[w] \in {pc[w], "failed"}
      /\ \A w \in Workers : pc[w] \in {"exited", "failed"} => pc'[w] = pc[w]
      /\ DOMAIN pc' = Workers /\ pc' = [w \in Workers |-> pc'[w]]
  BY DEF Killed, Alive, DInv, ProcTypeOK
<1>2. CallsOK'
  BY <1>1 DEF DInv, CallsOK
<1>3. Claims'
  BY <1>0, <1>1 DEF DInv, Claims, ExclusiveClaim, Holding
<1>4. Dead \subseteq Dead'
  BY <1>1 DEF Dead
<1> QED BY <1>1, <1>2, <1>3, <1>4

LEMMA CoReaps ==
  ASSUME DInv, IInv', NEW w \in Workers, CoReap(w) \/ CoSpawnFails(w)
  PROVE  Kept'
<1>0. UNCHANGED <<brokerVars, held, call>>
  BY DEF CoReap, CoSpawnFails
<1>1. UNCHANGED <<running, triaging, node, submitted, closed, done>>
  BY <1>0 DEF brokerVars
<1>2. ASSUME CoReap(w), done PROVE Kept'
  <2>1. /\ co = "waiting" /\ co' = "draining" /\ w \in Dead \ received
        /\ received' = received \cup {w} /\ firstErr' = (pc[w] = "failed")
        /\ UNCHANGED <<pc, faults>>
    BY <1>2 DEF CoReap
  <2>2. CallsOK' /\ Claims' /\ Dead' = Dead
    BY <1>0, <1>1, <2>1, WorkersStay
  <2>3. ProcTypeOK'
    BY <1>0, <1>1, <2>1, <2>2 DEF DInv, ProcTypeOK, IInv
  <2>4. CoOK'
    BY <1>1, <1>2, <2>1 DEF DInv, CoOK, ProcTypeOK
  <2> QED BY <2>2, <2>3, <2>4 DEF Kept
<1>3. ASSUME CoReap(w), ~done PROVE Kept'
  <2>1. /\ co = "waiting" /\ co' = "killing" /\ w \in Dead \ received
        /\ received' = received \cup {w} /\ pc' = Killed
        /\ UNCHANGED <<firstErr, faults>>
    BY <1>3 DEF CoReap
  <2>2. /\ CallsOK' /\ Claims' /\ Dead \subseteq Dead'
        /\ pc' \in [Workers -> {"absent", "starting", "claiming", "running",
                                 "reporting", "exited", "failed"}]
    BY <1>0, <2>1, Kills
  <2>3. ProcTypeOK'
    BY <1>0, <1>1, <2>1, <2>2 DEF DInv, ProcTypeOK, IInv
  <2>4. CoOK'
    BY <1>1, <2>1 DEF DInv, CoOK, ProcTypeOK
  <2> QED BY <2>2, <2>3, <2>4 DEF Kept
<1>4. ASSUME CoSpawnFails(w) PROVE Kept'
  <2>1. /\ co = "spawning" /\ co' = "killing" /\ pc' = Killed
        /\ faults < MaxFaults /\ faults' = faults + 1
        /\ UNCHANGED <<received, firstErr>>
    BY <1>4 DEF CoSpawnFails
  <2>2. /\ CallsOK' /\ Claims' /\ Dead \subseteq Dead'
        /\ pc' \in [Workers -> {"absent", "starting", "claiming", "running",
                                 "reporting", "exited", "failed"}]
    BY <1>0, <2>1, Kills
  <2>3. faults' \in 0..MaxFaults
    BY <2>1, DispatcherAssumption DEF DInv, ProcTypeOK
  <2>4. ProcTypeOK'
    BY <1>0, <1>1, <2>1, <2>2, <2>3 DEF DInv, ProcTypeOK, IInv
  <2>5. CoOK'
    BY <1>1, <2>1 DEF DInv, CoOK, ProcTypeOK
  <2> QED BY <2>2, <2>4, <2>5 DEF Kept
<1> QED BY <1>2, <1>3, <1>4

-----------------------------------------------------------------------------
(* The steps of a worker and of the calls it makes *)

\* A step in which at most worker w moves, and not to "absent" or back from an exit.
\* Reported is what the coordinator has in hand, and it does not change.
LEMMA WorkerMoves ==
  ASSUME DInv, IInv', NEW w \in Workers, NEW label, 
         pc' = [pc EXCEPT ![w] = label] \/ (pc' = pc /\ label = pc[w]),
         label \in {"starting", "claiming", "running", "reporting", "exited", "failed"},
         pc[w] \in {"exited", "failed"} => label = pc[w],
         held' \in [Workers -> Jobs \cup {"none"}],
         call' \in [Workers -> ErrorKinds \cup {"none", "claim", "ok", "triage"}],
         UNCHANGED <<received, firstErr, closed, submitted>>, done => done',
         faults' \in 0..MaxFaults, faults' = faults \/ label = "failed",
         co' = co \/ (co = "spawning" /\ co' = "waiting"),
         co \notin {"ok", "failed"}
  PROVE  ProcTypeOK' /\ CoOK'
<1>0. pc \in [Workers -> {"absent", "starting", "claiming", "running",
                          "reporting", "exited", "failed"}] /\ received \subseteq Dead
  BY DEF DInv, ProcTypeOK
<1>1. /\ pc' \in [Workers -> {"absent", "starting", "claiming", "running",
                              "reporting", "exited", "failed"}]
      /\ pc'[w] = label
      /\ \A v \in Workers : v # w => pc'[v] = pc[v]
  BY <1>0
<1>2. Dead \subseteq Dead' /\ \A v \in Dead : pc'[v] = pc[v]
  BY <1>0, <1>1 DEF Dead
<1>3. ProcTypeOK'
  BY <1>1, <1>2 DEF DInv, ProcTypeOK, IInv
<1>4. CoOK'
  <2>1. faults' > 0 => co' \in {"killing", "failed"} \/ \E v \in Workers : pc'[v] = "failed"
    BY <1>1, <1>2 DEF DInv, CoOK, Dead
  <2> QED BY <1>0, <1>2, <2>1 DEF DInv, CoOK
<1> QED BY <1>3, <1>4

\* A worker moves and the broker does not: what is to be shown of calls and claims is
\* about this worker.
LEMMA OneWorker ==
  ASSUME DInv, NEW w \in Workers, UNCHANGED <<held, running, triaging, node>>,
         \A v \in Workers : v # w => pc'[v] = pc[v] /\ call'[v] = call[v],
         pc'[w] \in {"absent", "starting", "running", "exited"} => call'[w] = "none",
         pc'[w] = "claiming" => call'[w] = "claim",
         pc'[w] = "reporting" => call'[w] \in ErrorKinds \cup {"ok", "triage"},
         pc'[w] = "running" \/ call'[w] \in ErrorKinds \cup {"ok"} => Holding(w),
         call'[w] = "triage" => call[w] = "triage"
  PROVE  CallsOK' /\ Claims'
<1>1. CallsOK'
  BY DEF DInv, CallsOK
<1>2. Claims'
  BY DEF DInv, Claims, ExclusiveClaim, Holding
<1> QED BY <1>1, <1>2

LEMMA WorkerSteps ==
  ASSUME DInv, IInv', NEW w \in Workers, CoSpawn(w) \/ Start(w) \/ Run(w) \/ Crash(w)
  PROVE  Kept'
<1>0. /\ pc \in [Workers -> {"absent", "starting", "claiming", "running",
                             "reporting", "exited", "failed"}]
      /\ call \in [Workers -> ErrorKinds \cup {"none", "claim", "ok", "triage"}]
      /\ held \in [Workers -> Jobs \cup {"none"}] /\ faults \in 0..MaxFaults
      /\ inject \in [Jobs -> ErrorKinds \cup {"none"}]
  BY DEF DInv, ProcTypeOK, TypeOK
<1>1. UNCHANGED <<brokerVars, held, received, firstErr>>
  BY DEF CoSpawn, Start, Run, Crash
<1>2. UNCHANGED <<running, triaging, node, submitted, closed, done, held, received, firstErr>>
  BY <1>1 DEF brokerVars
<1>3. ASSUME CoSpawn(w) PROVE Kept'
  <2>1. /\ pc[w] = "absent" /\ pc' = [pc EXCEPT ![w] = "starting"] /\ UNCHANGED <<call, faults>>
        /\ co = "spawning" /\ co' \in {co, "waiting"}
    BY <1>3 DEF CoSpawn
  <2>2. call[w] = "none"
    BY <2>1 DEF DInv, CallsOK
  <2>3. CallsOK' /\ Claims'
    BY <1>0, <1>2, <2>1, <2>2, OneWorker DEF ErrorKinds
  <2>4. ProcTypeOK' /\ CoOK'
    BY <1>0, <1>2, <2>1, WorkerMoves
  <2> QED BY <2>3, <2>4 DEF Kept
<1>4. ASSUME Start(w) PROVE Kept'
  <2>1. /\ pc[w] = "starting" /\ pc' = [pc EXCEPT ![w] = "claiming"]
        /\ call' = [call EXCEPT ![w] = "claim"] /\ UNCHANGED <<co, faults>>
        /\ co \notin {"ok", "failed"}
    BY <1>4 DEF Start, Over
  <2>3. CallsOK' /\ Claims'
    BY <1>0, <1>2, <2>1, OneWorker DEF ErrorKinds
  <2>4. ProcTypeOK' /\ CoOK'
    BY <1>0, <1>2, <2>1, WorkerMoves
  <2> QED BY <2>3, <2>4 DEF Kept
<1>5. ASSUME Run(w) PROVE Kept'
  <2>1. PICK r \in Results(held[w]) : call' = [call EXCEPT ![w] = r]
    BY <1>5 DEF Run
  <2>2. /\ pc[w] = "running" /\ pc' = [pc EXCEPT ![w] = "reporting"] /\ UNCHANGED <<co, faults>>
        /\ co \notin {"ok", "failed"}
    BY <1>5 DEF Run, Over
  <2>3. Holding(w) /\ held[w] \in Jobs
    BY <2>2 DEF Holding, DInv, Claims, ExclusiveClaim, IInv, TypeOK
  <2>4. r \in ErrorKinds \cup {"ok"}
    BY <1>0, <2>1, <2>3 DEF Results
  <2>5. r # "triage"
    BY <2>4 DEF ErrorKinds
  <2>6. CallsOK' /\ Claims'
    BY <1>0, <1>2, <2>1, <2>2, <2>3, <2>4, <2>5, OneWorker
  <2>7. ProcTypeOK' /\ CoOK'
    BY <1>0, <1>2, <2>1, <2>2, <2>4, WorkerMoves
  <2> QED BY <2>6, <2>7 DEF Kept
<1>6. ASSUME Crash(w) PROVE Kept'
  <2>1. /\ pc[w] \in {"starting", "claiming", "running", "reporting"}
        /\ pc' = [pc EXCEPT ![w] = "failed"] /\ co' = co /\ co \notin {"ok", "failed"}
        /\ faults < MaxFaults /\ faults' = faults + 1
        /\ call' = call \/ call' = [call EXCEPT ![w] = "none"]
    BY <1>6 DEF Crash, Over, Alive
  <2>2. faults' \in 0..MaxFaults
    BY <1>0, <2>1, DispatcherAssumption
  <2>3. call'[w] \in {call[w], "none"} /\ \A v \in Workers : v # w => call'[v] = call[v]
    BY <1>0, <2>1
  <2>4. CallsOK' /\ Claims'
    BY <1>0, <1>2, <2>1, <2>3, OneWorker DEF Holding, ErrorKinds
  <2>5. call' \in [Workers -> ErrorKinds \cup {"none", "claim", "ok", "triage"}]
    BY <1>0, <2>1
  <2>6. ProcTypeOK' /\ CoOK'
    <3>1. held' \in [Workers -> Jobs \cup {"none"}]
      BY <1>0, <1>2
    <3> QED BY <1>2, <2>1, <2>2, <2>5, <3>1, WorkerMoves
  <2> QED BY <2>4, <2>6 DEF Kept
<1> QED BY <1>3, <1>4, <1>5, <1>6

\* A worker that took its job is the only one to hold it: no one who holds another
\* job, in the running table or in triage, is affected.
LEMMA ServesJob ==
  ASSUME DInv, IInv', NEW w \in Workers, NEW j \in Jobs, ServeJob(w, j)
  PROVE  Kept'
<1>0. /\ pc \in [Workers -> {"absent", "starting", "claiming", "running",
                             "reporting", "exited", "failed"}]
      /\ call \in [Workers -> ErrorKinds \cup {"none", "claim", "ok", "triage"}]
      /\ held \in [Workers -> Jobs \cup {"none"}] /\ faults \in 0..MaxFaults
      /\ node \in [Jobs -> Workers \cup {"none"}]
      /\ running \subseteq Jobs /\ triaging \subseteq Jobs
  BY DEF DInv, ProcTypeOK, TypeOK
<1>1. /\ call[w] = "claim" /\ call' = [call EXCEPT ![w] = "none"]
      /\ held' = [held EXCEPT ![w] = j]
      /\ pc' = IF w \in Alive THEN [pc EXCEPT ![w] = "running"] ELSE pc
      /\ UNCHANGED <<co, received, firstErr, faults>> /\ co \notin {"ok", "failed"}
  BY DEF ServeJob, Over
<1>2. /\ j \in queue /\ running' = running \cup {j} /\ node' = [node EXCEPT ![j] = w]
      /\ UNCHANGED <<triaging, submitted, closed, done>>
  BY DEF ServeJob, ClaimJob, Heads
<1>3. j \notin running /\ j \notin triaging
  BY <1>2 DEF DInv, IInv, OnePlace
<1>4. /\ call'[w] = "none" /\ held'[w] = j /\ node'[j] = w
      /\ \A v \in Workers : v # w => pc'[v] = pc[v] /\ call'[v] = call[v] /\ held'[v] = held[v]
      /\ \A k \in Jobs : k # j => node'[k] = node[k]
  BY <1>0, <1>1, <1>2
<1>5. pc'[w] \in {"running", "failed"}
  <2>1. pc[w] \in {"claiming", "failed"}
    BY <1>0, <1>1 DEF DInv, CallsOK, ErrorKinds
  <2> QED BY <1>0, <1>1, <2>1 DEF Alive
<1>6. CallsOK'
  BY <1>4, <1>5 DEF DInv, CallsOK
<1>7. Claims'
  <2>1. ASSUME NEW v \in Workers PROVE
          /\ Holding(v)' => held'[v] \in running' /\ node'[held'[v]] = v
          /\ call'[v] = "triage" => held'[v] \in triaging' /\ node'[held'[v]] = v
    <3>1. CASE v = w
      BY <1>2, <1>4, <3>1 DEF ErrorKinds
    <3>2. CASE v # w
      <4>1. Holding(v)' <=> Holding(v)
        BY <1>4, <3>2 DEF Holding
      <4>2. /\ Holding(v) => held[v] \in running /\ node[held[v]] = v
            /\ call[v] = "triage" => held[v] \in triaging /\ node[held[v]] = v
        BY DEF DInv, Claims, ExclusiveClaim
      <4> QED BY <1>0, <1>2, <1>3, <1>4, <3>2, <4>1, <4>2
    <3> QED BY <3>1, <3>2
  <2> QED BY <2>1 DEF Claims, ExclusiveClaim, Holding
<1>8. ProcTypeOK' /\ CoOK'
  <2>1. /\ call' \in [Workers -> ErrorKinds \cup {"none", "claim", "ok", "triage"}]
        /\ held' \in [Workers -> Jobs \cup {"none"}] /\ faults' \in 0..MaxFaults
    BY <1>0, <1>1
  <2>2. CASE w \in Alive
    <3>1. pc' = [pc EXCEPT ![w] = "running"] /\ pc[w] \notin {"exited", "failed"}
      BY <1>1, <2>2 DEF Alive
    <3> QED BY <1>1, <1>2, <2>1, <3>1, WorkerMoves
  <2>3. CASE w \notin Alive
    <3>1. pc' = pc /\ pc[w] = "failed"
      BY <1>0, <1>1, <1>5, <2>3 DEF Alive
    <3> QED BY <1>1, <1>2, <2>1, <3>1, WorkerMoves
  <2> QED BY <2>2, <2>3
<1> QED BY <1>6, <1>7, <1>8 DEF Kept

LEMMA ServesShutdown ==
  ASSUME DInv, IInv', NEW w \in Workers, ServeShutdown(w)
  PROVE  Kept'
<1>0. /\ pc \in [Workers -> {"absent", "starting", "claiming", "running",
                             "reporting", "exited", "failed"}]
      /\ call \in [Workers -> ErrorKinds \cup {"none", "claim", "ok", "triage"}]
      /\ held \in [Workers -> Jobs \cup {"none"}] /\ faults \in 0..MaxFaults
      /\ done \in BOOLEAN
  BY DEF DInv, ProcTypeOK, TypeOK
<1>1. /\ call[w] = "claim" /\ call' = [call EXCEPT ![w] = "none"]
      /\ pc' = IF w \in Alive THEN [pc EXCEPT ![w] = "exited"] ELSE pc
      /\ UNCHANGED <<held, co, received, firstErr, faults>> /\ co \notin {"ok", "failed"}
  BY DEF ServeShutdown, Over
<1>2. UNCHANGED <<running, triaging, node, submitted, closed>> /\ (done => done')
  BY DEF ServeShutdown, ClaimShutdown, MaybeDone
<1>3. pc[w] \in {"claiming", "failed"}
  BY <1>0, <1>1 DEF DInv, CallsOK, ErrorKinds
<1>4. /\ call' \in [Workers -> ErrorKinds \cup {"none", "claim", "ok", "triage"}]
      /\ held' \in [Workers -> Jobs \cup {"none"}] /\ faults' \in 0..MaxFaults
      /\ call'[w] = "none" /\ pc'[w] \in {"exited", "failed"}
      /\ \A v \in Workers : v # w => pc'[v] = pc[v] /\ call'[v] = call[v]
  BY <1>0, <1>1, <1>3 DEF Alive
<1>5. CallsOK' /\ Claims'
  BY <1>1, <1>2, <1>4, OneWorker DEF ErrorKinds
<1>6. ProcTypeOK' /\ CoOK'
  <2>2. CASE w \in Alive
    <3>1. pc' = [pc EXCEPT ![w] = "exited"] /\ pc[w] \notin {"exited", "failed"}
      BY <1>1, <2>2 DEF Alive
    <3> QED BY <1>1, <1>2, <1>4, <3>1, WorkerMoves
  <2>3. CASE w \notin Alive
    <3>1. pc' = pc /\ pc[w] = "failed"
      BY <1>1, <1>3, <2>3 DEF Alive
    <3> QED BY <1>1, <1>2, <1>4, <3>1, WorkerMoves
  <2> QED BY <2>2, <2>3
<1> QED BY <1>5, <1>6 DEF Kept

\* The worker whose call is answered gives its job up and claims again; no other
\* worker holds the job.
LEMMA AnswerKeeps ==
  ASSUME DInv, IInv', NEW w \in Workers, NextClaim(w),
         UNCHANGED <<held, co, received, firstErr, faults, node, submitted, closed>>,
         done => done', co \notin {"ok", "failed"}, pc[w] \in {"reporting", "failed"},
         held[w] \in Jobs, node[held[w]] = w,
         running \ {held[w]} \subseteq running', triaging \ {held[w]} \subseteq triaging'
  PROVE  Kept'
<1>0. /\ pc \in [Workers -> {"absent", "starting", "claiming", "running",
                             "reporting", "exited", "failed"}]
      /\ call \in [Workers -> ErrorKinds \cup {"none", "claim", "ok", "triage"}]
      /\ held \in [Workers -> Jobs \cup {"none"}] /\ faults \in 0..MaxFaults
  BY DEF DInv, ProcTypeOK
<1>1. CASE w \in Alive
  <2>1. pc' = [pc EXCEPT ![w] = "claiming"] /\ call' = [call EXCEPT ![w] = "claim"]
          /\ pc[w] \notin {"exited", "failed"}
    BY <1>1 DEF NextClaim, Alive
  <2>2. /\ call' \in [Workers -> ErrorKinds \cup {"none", "claim", "ok", "triage"}]
        /\ held' \in [Workers -> Jobs \cup {"none"}] /\ faults' \in 0..MaxFaults
        /\ call'[w] = "claim" /\ pc'[w] = "claiming"
        /\ \A v \in Workers : v # w => pc'[v] = pc[v] /\ call'[v] = call[v]
    BY <1>0, <2>1
  <2>3. CallsOK'
    BY <2>2 DEF DInv, CallsOK
  <2>4. Claims'
    BY <2>2 DEF DInv, Claims, ExclusiveClaim, Holding, ErrorKinds
  <2>5. ProcTypeOK' /\ CoOK'
    BY <2>1, <2>2, WorkerMoves
  <2> QED BY <2>3, <2>4, <2>5 DEF Kept
<1>2. CASE w \notin Alive
  <2>1. pc' = pc /\ call' = [call EXCEPT ![w] = "none"] /\ pc[w] = "failed"
    BY <1>2 DEF NextClaim, Alive
  <2>2. /\ call' \in [Workers -> ErrorKinds \cup {"none", "claim", "ok", "triage"}]
        /\ held' \in [Workers -> Jobs \cup {"none"}] /\ faults' \in 0..MaxFaults
        /\ call'[w] = "none" /\ pc'[w] = "failed"
        /\ \A v \in Workers : v # w => pc'[v] = pc[v] /\ call'[v] = call[v]
    BY <1>0, <2>1
  <2>3. CallsOK'
    BY <2>2 DEF DInv, CallsOK
  <2>4. Claims'
    BY <2>2 DEF DInv, Claims, ExclusiveClaim, Holding, ErrorKinds
  <2>5. ProcTypeOK' /\ CoOK'
    BY <2>1, <2>2, WorkerMoves
  <2> QED BY <2>3, <2>4, <2>5 DEF Kept
<1> QED BY <1>1, <1>2

LEMMA ServesReport ==
  ASSUME DInv, IInv', NEW w \in Workers, ServeSuccess(w) \/ ServeDecision(w)
  PROVE  Kept'
<1>1. call[w] \in {"ok", "triage"} /\ NextClaim(w) /\ co \notin {"ok", "failed"}
      /\ UNCHANGED <<held, co, received, firstErr, faults>>
  BY DEF ServeSuccess, ServeDecision, Over
<1>2. held[w] \in Jobs /\ node[held[w]] = w
  BY <1>1 DEF DInv, Claims, ExclusiveClaim, Holding, IInv, TypeOK
<1>3. pc[w] \in {"reporting", "failed"}
  BY <1>1 DEF DInv, CallsOK, ProcTypeOK
<1>4. ASSUME ServeSuccess(w) PROVE Kept'
  <2>1. /\ UNCHANGED <<node, submitted, closed, triaging>> /\ (done => done')
        /\ running' = running \ {held[w]}
    BY <1>4 DEF ServeSuccess, ReportSuccess, MaybeDone
  <2> QED BY <1>1, <1>2, <1>3, <2>1, AnswerKeeps
<1>5. ASSUME ServeDecision(w) PROVE Kept'
  <2>1. /\ UNCHANGED <<node, submitted, closed, running>> /\ (done => done')
        /\ triaging' = triaging \ {held[w]}
    BY <1>5 DEF ServeDecision, FinishTriage, MaybeDone
  <2> QED BY <1>1, <1>2, <1>3, <2>1, AnswerKeeps
<1> QED BY <1>4, <1>5

LEMMA ServesFailure ==
  ASSUME DInv, IInv', NEW w \in Workers, ServeFailure(w)
  PROVE  Kept'
<1>0. /\ pc \in [Workers -> {"absent", "starting", "claiming", "running",
                             "reporting", "exited", "failed"}]
      /\ call \in [Workers -> ErrorKinds \cup {"none", "claim", "ok", "triage"}]
      /\ held \in [Workers -> Jobs \cup {"none"}] /\ faults \in 0..MaxFaults
  BY DEF DInv, ProcTypeOK
<1>1. /\ call[w] \in ErrorKinds /\ call' = [call EXCEPT ![w] = "triage"] /\ pc' = pc
      /\ UNCHANGED <<held, co, received, firstErr, faults>> /\ co \notin {"ok", "failed"}
  BY DEF ServeFailure, Over
<1>2. /\ running' = running \ {held[w]} /\ triaging' = triaging \cup {held[w]}
      /\ UNCHANGED <<node, submitted, closed, done>>
  BY DEF ServeFailure, ReportFailure
<1>3. Holding(w) /\ held[w] \in running /\ node[held[w]] = w
  BY <1>1 DEF Holding, DInv, Claims, ExclusiveClaim
<1>4. pc[w] \in {"reporting", "failed"}
  BY <1>0, <1>1 DEF DInv, CallsOK, ErrorKinds
<1>5. /\ call' \in [Workers -> ErrorKinds \cup {"none", "claim", "ok", "triage"}]
      /\ held' \in [Workers -> Jobs \cup {"none"}] /\ faults' \in 0..MaxFaults
      /\ call'[w] = "triage" /\ \A v \in Workers : v # w => call'[v] = call[v]
  BY <1>0, <1>1
<1>6. CallsOK'
  BY <1>1, <1>4, <1>5 DEF DInv, CallsOK
<1>7. Claims'
  BY <1>1, <1>2, <1>3, <1>4, <1>5 DEF DInv, Claims, ExclusiveClaim, Holding, ErrorKinds
<1>8. ProcTypeOK' /\ CoOK'
  BY <1>1, <1>2, <1>4, <1>5, WorkerMoves
<1> QED BY <1>6, <1>7, <1>8 DEF Kept

-----------------------------------------------------------------------------
(* Theorems *)

LEMMA NextDInv == DInv /\ [DispatcherNext]_vars => DInv'
<1> SUFFICES ASSUME DInv, [DispatcherNext]_vars PROVE DInv'
  OBVIOUS
<1>1. IInv'
  BY BrokerStep, NextInv DEF DInv
<1>2. Kept'
  BY <1>1, CoSubmits, CoAlone, CoReaps, WorkerSteps, ServesJob, ServesShutdown, ServesReport,
     ServesFailure DEF DispatcherNext, Progress, Fault
<1> QED BY <1>1, <1>2 DEF DInv, Kept

\* The inductive invariant holds of every reachable state of the program.
THEOREM DispatcherInductive == DispatcherSpec => []DInv
BY InitDInv, NextDInv, PTL DEF DispatcherSpec

\* The broker inside the program behaves as a broker, so that whatever is proved of
\* BrokerSpec, for any caller, holds of the dispatcher: no step of a process, no crash
\* and no call of a dead worker does to the broker what Submit, Claim and Report do not.
THEOREM DispatcherRunsABroker == DispatcherSpec => BrokerSpec
<1>1. DispatcherInit => BrokerInit
  BY DEF DispatcherInit
<1>2. DInv /\ [DispatcherNext]_vars => [BrokerNext]_brokerVars
  BY BrokerStep DEF DInv
<1> QED BY <1>1, <1>2, DispatcherInductive, PTL DEF DispatcherSpec, BrokerSpec

\* Type correctness of the processes, their calls and the broker.
THEOREM DispatcherTypeCorrect == DispatcherSpec => []ProcTypeOK
<1>1. DInv => ProcTypeOK
  BY DEF DInv
<1> QED BY <1>1, DispatcherInductive, PTL

\* Whoever runs or reports a job is its node and finds it in the running table, also
\* when the report was left behind by a worker that died.
THEOREM ClaimsAreExclusive == DispatcherSpec => []ExclusiveClaim
<1>1. DInv => ExclusiveClaim
  BY DEF DInv, Claims
<1> QED BY <1>1, DispatcherInductive, PTL

\* runCoordinator returns nil only if every job has its outcome, the counters say so,
\* every worker exited by itself and nothing failed on the way.
THEOREM SuccessIsComplete == DispatcherSpec => []OkIsComplete
<1>1. DInv => OkIsComplete
  <2> SUFFICES ASSUME DInv, co = "ok"
               PROVE  /\ Jobs = Terminal
                      /\ stats.Succeeded + stats.Escalated = Cardinality(Jobs)
                      /\ \A w \in Workers : pc[w] = "exited"
                      /\ faults = 0
    BY DEF OkIsComplete
  <2>1. done /\ closed /\ submitted = Jobs /\ received = Workers /\ ~firstErr
    BY DEF DInv, CoOK
  <2>2. submitted \subseteq Terminal
    BY <2>1 DEF DInv, IInv, DoneExact
  <2>3. Jobs = Terminal
    BY <2>1, <2>2 DEF Terminal
  <2>4. AllSettled(closed, queue, running, stats)
    BY <2>1, <2>2, AllSettledMeaning DEF DInv, IInv
  <2>5. stats.Succeeded + stats.Escalated = Cardinality(Jobs)
    BY <2>1, <2>4 DEF AllSettled, DInv, IInv, CountersExact
  <2>6. \A w \in Workers : pc[w] = "exited"
    BY <2>1 DEF DInv, ProcTypeOK, Dead, CoOK
  <2>7. faults = 0
    <3>1. ~(faults > 0)
      BY <2>6 DEF DInv, CoOK
    <3> QED BY <3>1, DispatcherAssumption DEF DInv, ProcTypeOK
  <2> QED BY <2>3, <2>5, <2>6, <2>7
<1> QED BY <1>1, DispatcherInductive, PTL

\* Under the policy agent every batch that a worker process is given is in range.
THEOREM DispatcherBatchInRange ==
  ASSUME Agent = "policy" PROVE DispatcherSpec => []BatchInRange
BY DispatcherRunsABroker, PolicyKeepsBatchInRange, PTL

=============================================================================
