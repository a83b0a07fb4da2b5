------------------------------ MODULE SQSProofs -----------------------------
(***************************************************************************)
(* Proofs about the dispatcher with the SQS backend, for every workload,   *)
(* every triage agent and any number of tiers, workers, receives, crashes, *)
(* failed starts and deliveries that time out.                             *)
(***************************************************************************)
EXTENDS SQSDispatch, FiniteSetTheorems, TLAPS

(* The type invariant in four parts: messages, coordinator, workers, processes. *)

QType == msgs \in Seq(Message)

CType ==
  /\ submitted \subseteq Jobs /\ released \subseteq Jobs
  /\ outcome \in [Jobs -> Outcomes \cup {"none"}]
  /\ stats \in [Submitted : Nat, Succeeded : Nat, Escalated : Nat,
                DeadLettered : Nat, Redelivered : Nat]
  /\ closed \in BOOLEAN /\ done \in BOOLEAN

Labels == {"absent", "sweep", "got", "run", "stall", "triage",
           "ack", "release", "resend", "exited", "dead"}
Deliveries == [m : Nat, rc : Nat, lapsed : BOOLEAN]

WType ==
  /\ pc \in [Workers -> Labels]
  /\ tier \in [Workers -> 0..MaxTier]
  /\ d \in [Workers -> Deliveries]
  /\ triage \in [Workers -> ErrorKinds \cup {"none"}]

PType ==
  /\ chaos \in [Workers -> {"none", "kill", "spawn", "killed"}]
  /\ spawned \in 0..MaxWorkers /\ initial \in 0..Pool
  /\ co \in {"submitting", "spawning", "waiting", "looking", "draining", "ok", "failed"}
  /\ runErr \in BOOLEAN /\ reaped \subseteq Gone

LEMMA TypeParts == SQSTypeOK <=> QType /\ CType /\ WType /\ PType
BY DEF SQSTypeOK, QType, CType, WType, PType, Labels, Deliveries

LEMMA Numbers ==
  /\ MaxTier \in Nat \ {0} /\ MaxReceive \in Nat \ {0} /\ MaxWorkers \in Nat /\ Pool \in 1..MaxWorkers
  /\ MaxFaults \in Nat /\ MaxSpawnFails \in Nat /\ MaxStalls \in Nat
BY SQSAssumption, SQSDispatchAssumption

LEMMA Tables ==
  /\ Workload \subseteq Jobs /\ Inject \in [Jobs -> Injections] /\ Leftover \in Seq(Message)
  /\ Budget \in [Jobs -> Nat \ {0}]
BY SQSDispatchAssumption, BudgetAssumption

\* The jobs are finitely many, and so are all the sets the counters count.
LEMMA FiniteJobs ==
  ASSUME NEW S \in SUBSET Jobs
  PROVE  IsFiniteSet(S) /\ Cardinality(S) \in Nat
BY SQSDispatchAssumption, FS_Subset, FS_CardinalityType

-----------------------------------------------------------------------------
(* The coordinator's critical sections, whoever enters them *)

Counters == {"Succeeded", "Escalated", "DeadLettered"}

Ends == \E S \in SUBSET Jobs : \/ Finish(S, "completed", "Succeeded")
                               \/ Finish(S, "escalated", "Escalated")
                               \/ Finish(S, "dead_lettered", "DeadLettered")

CoordStep ==
  \/ UNCHANGED coordVars
  \/ \E j \in Jobs : Register(j)
  \/ CloseSubmissions
  \/ \E j \in Jobs, rc \in Nat : Started(j, rc)
  \/ \E j \in Jobs : \E a : ReportRetry(j, a)
  \/ Ends

CInv == CType /\ CountedOnce

\* What the coordinator never takes back.
Onward ==
  /\ \A j \in Jobs : outcome[j] # "none" => outcome'[j] = outcome[j]
  /\ submitted \subseteq submitted'
  /\ closed => closed'
  /\ done => done'

\* The set that a counter counts grows by the jobs that ended.
LEMMA OutcomeCount ==
  ASSUME outcome \in [Jobs -> Outcomes \cup {"none"}], NEW S \in SUBSET Jobs,
         S \cap Terminal = {}, NEW o \in Outcomes,
         outcome' = [j \in Jobs |-> IF j \in S THEN o ELSE outcome[j]]
  PROVE  /\ Cardinality({k \in Jobs : outcome'[k] = o})
              = Cardinality({k \in Jobs : outcome[k] = o}) + Cardinality(S)
         /\ \A p \in Outcomes \ {o} :
              {k \in Jobs : outcome'[k] = p} = {k \in Jobs : outcome[k] = p}
<1> DEFINE A == {k \in Jobs : outcome[k] = o}
           B == {k \in Jobs : outcome'[k] = o}
<1>0. \A k \in S : outcome[k] = "none"
  BY DEF Terminal
<1>1. B = A \cup S
  OBVIOUS
<1>2. A \cap S = {}
  BY <1>0 DEF Outcomes
<1>3. \A p \in Outcomes \ {o} :
        {k \in Jobs : outcome'[k] = p} = {k \in Jobs : outcome[k] = p}
  BY <1>0 DEF Outcomes
<1>4. IsFiniteSet(A) /\ IsFiniteSet(S) /\ Cardinality(A) \in Nat /\ Cardinality(S) \in Nat
  BY FiniteJobs
<1> HIDE DEF A, B
<1>5. Cardinality(A \cup S) = Cardinality(A) + Cardinality(S) - Cardinality(A \cap S)
  BY <1>4, FS_Union
<1>6. Cardinality(A \cap S) = 0
  BY <1>2, FS_EmptySet
<1>7. Cardinality(B) = Cardinality(A) + Cardinality(S)
  BY <1>1, <1>4, <1>5, <1>6
<1> QED BY <1>3, <1>7 DEF A, B

LEMMA MaybeDoneType ==
  ASSUME CType, MaybeDone
  PROVE  done' \in BOOLEAN /\ (done => done')
BY DEF CType, MaybeDone

\* Jobs that end together are counted once each, under their outcome.
LEMMA FinishKeeps ==
  ASSUME CInv, NEW S \in SUBSET Jobs, NEW o \in Outcomes, NEW counter \in Counters,
         Finish(S, o, counter),
         \/ o = "completed" /\ counter = "Succeeded"
         \/ o = "escalated" /\ counter = "Escalated"
         \/ o = "dead_lettered" /\ counter = "DeadLettered"
  PROVE  CInv' /\ Onward
<1>1. /\ S \cap Terminal = {} /\ UNCHANGED <<submitted, released, closed>> /\ MaybeDone
      /\ outcome' = [j \in Jobs |-> IF j \in S THEN o ELSE outcome[j]]
      /\ stats' = [stats EXCEPT ![counter] = @ + Cardinality(S)]
  BY DEF Finish
<1>2. outcome' \in [Jobs -> Outcomes \cup {"none"}]
  BY <1>1 DEF CInv, CType
<1>3. Cardinality(S) \in Nat
  BY FiniteJobs
<1>4. /\ stats' \in [Submitted : Nat, Succeeded : Nat, Escalated : Nat,
                     DeadLettered : Nat, Redelivered : Nat]
      /\ stats'.Submitted = stats.Submitted
      /\ stats'.Succeeded = stats.Succeeded + IF counter = "Succeeded" THEN Cardinality(S) ELSE 0
      /\ stats'.Escalated = stats.Escalated + IF counter = "Escalated" THEN Cardinality(S) ELSE 0
      /\ stats'.DeadLettered =
           stats.DeadLettered + IF counter = "DeadLettered" THEN Cardinality(S) ELSE 0
  BY <1>1, <1>3 DEF CInv, CType, Counters
<1>5. /\ Cardinality({k \in Jobs : outcome'[k] = o})
           = Cardinality({k \in Jobs : outcome[k] = o}) + Cardinality(S)
      /\ \A p \in Outcomes \ {o} :
           {k \in Jobs : outcome'[k] = p} = {k \in Jobs : outcome[k] = p}
  BY <1>1, OutcomeCount DEF CInv, CType
<1>6. CountedOnce'
  <2>0. /\ stats.Submitted \in Nat /\ stats.Succeeded \in Nat /\ stats.Escalated \in Nat
        /\ stats.DeadLettered \in Nat
    BY DEF CInv, CType
  <2>1. CASE counter = "Succeeded"
    <3>1. {k \in Jobs : outcome'[k] = "escalated"} = {k \in Jobs : outcome[k] = "escalated"}
      BY <1>5, <2>1 DEF Outcomes
    <3>2. {k \in Jobs : outcome'[k] = "dead_lettered"} = {k \in Jobs : outcome[k] = "dead_lettered"}
      BY <1>5, <2>1 DEF Outcomes
    <3>3. /\ stats'.Succeeded = stats.Succeeded + Cardinality(S)
          /\ stats'.Escalated = stats.Escalated /\ stats'.DeadLettered = stats.DeadLettered
      BY <1>4, <2>0, <2>1
    <3>4. o = "completed"
      BY <2>1
    <3>5. Cardinality({k \in Jobs : outcome'[k] = "completed"})
            = Cardinality({k \in Jobs : outcome[k] = "completed"}) + Cardinality(S)
      BY <1>5, <3>4
    <3> QED BY <1>1, <1>4, <3>1, <3>2, <3>3, <3>5 DEF CInv, CountedOnce
  <2>2. CASE counter = "Escalated"
    <3>1. {k \in Jobs : outcome'[k] = "completed"} = {k \in Jobs : outcome[k] = "completed"}
      BY <1>5, <2>2 DEF Outcomes
    <3>2. {k \in Jobs : outcome'[k] = "dead_lettered"} = {k \in Jobs : outcome[k] = "dead_lettered"}
      BY <1>5, <2>2 DEF Outcomes
    <3>3. /\ stats'.Escalated = stats.Escalated + Cardinality(S)
          /\ stats'.Succeeded = stats.Succeeded /\ stats'.DeadLettered = stats.DeadLettered
      BY <1>4, <2>0, <2>2
    <3>4. o = "escalated"
      BY <2>2
    <3>5. Cardinality({k \in Jobs : outcome'[k] = "escalated"})
            = Cardinality({k \in Jobs : outcome[k] = "escalated"}) + Cardinality(S)
      BY <1>5, <3>4
    <3> QED BY <1>1, <1>4, <3>1, <3>2, <3>3, <3>5 DEF CInv, CountedOnce
  <2>3. CASE counter = "DeadLettered"
    <3>1. {k \in Jobs : outcome'[k] = "completed"} = {k \in Jobs : outcome[k] = "completed"}
      BY <1>5, <2>3 DEF Outcomes
    <3>2. {k \in Jobs : outcome'[k] = "escalated"} = {k \in Jobs : outcome[k] = "escalated"}
      BY <1>5, <2>3 DEF Outcomes
    <3>3. /\ stats'.DeadLettered = stats.DeadLettered + Cardinality(S)
          /\ stats'.Succeeded = stats.Succeeded /\ stats'.Escalated = stats.Escalated
      BY <1>4, <2>0, <2>3
    <3>4. o = "dead_lettered"
      BY <2>3
    <3>5. Cardinality({k \in Jobs : outcome'[k] = "dead_lettered"})
            = Cardinality({k \in Jobs : outcome[k] = "dead_lettered"}) + Cardinality(S)
      BY <1>5, <3>4
    <3> QED BY <1>1, <1>4, <3>1, <3>2, <3>3, <3>5 DEF CInv, CountedOnce
  <2> QED BY <2>1, <2>2, <2>3 DEF Counters
<1>7. done' \in BOOLEAN /\ (done => done')
  BY <1>1, MaybeDoneType DEF CInv
<1>8. \A j \in Jobs : outcome[j] # "none" => outcome'[j] = outcome[j]
  BY <1>1 DEF Terminal
<1> QED BY <1>1, <1>2, <1>4, <1>6, <1>7, <1>8 DEF CInv, CType, Onward

\* Every critical section keeps the counts and takes nothing back.
LEMMA CoordKeeps ==
  ASSUME CInv, CoordStep
  PROVE  CInv' /\ Onward
<1>1. ASSUME UNCHANGED coordVars PROVE CInv' /\ Onward
  BY <1>1 DEF coordVars, CInv, CType, CountedOnce, Onward
<1>2. ASSUME NEW j \in Jobs, Register(j) PROVE CInv' /\ Onward
  <2>1. /\ submitted' = submitted \cup {j} /\ j \notin submitted
        /\ stats' = [stats EXCEPT !.Submitted = @ + 1]
        /\ UNCHANGED <<outcome, released, closed, done>>
    BY <1>2 DEF Register
  <2>2. Cardinality(submitted') = Cardinality(submitted) + 1
    BY <2>1, FiniteJobs, FS_AddElement DEF CInv, CType
  <2>3. CType'
    BY <2>1 DEF CInv, CType
  <2>4. CountedOnce'
    BY <2>1, <2>2 DEF CInv, CType, CountedOnce
  <2> QED BY <2>1, <2>3, <2>4 DEF CInv, Onward
<1>3. ASSUME CloseSubmissions \/ \E j \in Jobs : \E a : ReportRetry(j, a) PROVE CInv' /\ Onward
  <2>1. UNCHANGED <<submitted, outcome, stats>> /\ MaybeDone
    BY <1>3 DEF CloseSubmissions, ReportRetry
  <2>2. released' \subseteq Jobs /\ closed' \in BOOLEAN /\ (closed => closed')
    BY <1>3 DEF CloseSubmissions, ReportRetry, CInv, CType
  <2>3. done' \in BOOLEAN /\ (done => done')
    BY <2>1, MaybeDoneType DEF CInv
  <2> QED BY <2>1, <2>2, <2>3 DEF CInv, CType, CountedOnce, Onward
<1>4. ASSUME NEW j \in Jobs, NEW rc \in Nat, Started(j, rc) PROVE CInv' /\ Onward
  <2>1. /\ stats' \in [Submitted : Nat, Succeeded : Nat, Escalated : Nat,
                       DeadLettered : Nat, Redelivered : Nat]
        /\ stats'.Submitted = stats.Submitted /\ stats'.Succeeded = stats.Succeeded
        /\ stats'.Escalated = stats.Escalated /\ stats'.DeadLettered = stats.DeadLettered
    BY <1>4 DEF Started, CInv, CType
  <2>2. UNCHANGED <<submitted, outcome, closed, done>> /\ released' \subseteq Jobs
    BY <1>4 DEF Started, CInv, CType
  <2> QED BY <2>1, <2>2 DEF CInv, CType, CountedOnce, Onward
<1>5. ASSUME Ends PROVE CInv' /\ Onward
  BY <1>5, FinishKeeps DEF Ends, Outcomes, Counters
<1> QED BY <1>1, <1>2, <1>3, <1>4, <1>5 DEF CoordStep

-----------------------------------------------------------------------------
(* The queues *)

\* What a message carries is never changed.
Bodies ==
  /\ DOMAIN msgs \subseteq DOMAIN msgs'
  /\ \A i \in DOMAIN msgs : /\ msgs'[i].job = msgs[i].job /\ msgs'[i].tried = msgs[i].tried
                            /\ msgs'[i].inject = msgs[i].inject

LEMMA MessageFields ==
  ASSUME QType, NEW i \in DOMAIN msgs
  PROVE  /\ msgs[i] \in Message /\ msgs[i].job \in Jobs /\ msgs[i].tried \in Nat
         /\ msgs[i].rc \in Nat /\ msgs[i].inject \in Injections
         /\ msgs[i].st \in {"visible", "inflight", "deleted", "dlq"}
         /\ msgs[i].lapsed \in BOOLEAN /\ i \in Nat
<1>1. msgs[i] \in Message /\ i \in Nat
  BY DEF QType
<1> QED BY <1>1 DEF Message

\* One message changes, and not in what it carries.
LEMMA Edit ==
  ASSUME QType, NEW i \in DOMAIN msgs, NEW e \in Message, e.job = msgs[i].job,
         e.tried = msgs[i].tried, e.inject = msgs[i].inject, msgs' = [msgs EXCEPT ![i] = e]
  PROVE  /\ QType' /\ DOMAIN msgs' = DOMAIN msgs /\ Bodies
         /\ msgs'[i] = e /\ \A k \in DOMAIN msgs : k # i => msgs'[k] = msgs[k]
<1>1. msgs' \in Seq(Message) /\ DOMAIN msgs' = DOMAIN msgs
  BY DEF QType
<1>2. msgs'[i] = e /\ \A k \in DOMAIN msgs : k # i => msgs'[k] = msgs[k]
  BY DEF QType
<1> QED BY <1>1, <1>2 DEF QType, Bodies

LEMMA Delivers ==
  ASSUME QType, NEW i \in DOMAIN msgs, Deliver(i)
  PROVE  /\ QType' /\ DOMAIN msgs' = DOMAIN msgs /\ Bodies
         /\ msgs'[i].st = "inflight" /\ msgs'[i].rc = msgs[i].rc + 1
         /\ \A k \in DOMAIN msgs : k # i => msgs'[k] = msgs[k]
<1> DEFINE e == [msgs[i] EXCEPT !.st = "inflight", !.rc = @ + 1]
<1>1. msgs[i] \in Message
  BY MessageFields
<1>2. msgs' = [msgs EXCEPT ![i] = e]
  BY DEF Deliver
<1>3. /\ e \in Message /\ e.job = msgs[i].job /\ e.tried = msgs[i].tried /\ e.inject = msgs[i].inject
      /\ e.st = "inflight" /\ e.rc = msgs[i].rc + 1
  <2>1. msgs[i].rc + 1 \in Nat
    BY MessageFields
  <2> QED BY <1>1, <2>1 DEF Message
<1> HIDE DEF e
<1> QED BY <1>2, <1>3, Edit

LEMMA Restates ==
  ASSUME QType, NEW i \in DOMAIN msgs, NEW st \in {"visible", "inflight", "deleted", "dlq"},
         msgs' = [msgs EXCEPT ![i].st = st]
  PROVE  /\ QType' /\ DOMAIN msgs' = DOMAIN msgs /\ Bodies
         /\ msgs'[i].st = st /\ msgs'[i].rc = msgs[i].rc
         /\ \A k \in DOMAIN msgs : k # i => msgs'[k] = msgs[k]
<1> DEFINE e == [msgs[i] EXCEPT !.st = st]
<1>1. msgs[i] \in Message
  BY MessageFields
<1>2. msgs' = [msgs EXCEPT ![i] = e]
  OBVIOUS
<1>3. /\ e \in Message /\ e.job = msgs[i].job /\ e.tried = msgs[i].tried /\ e.inject = msgs[i].inject
      /\ e.st = st /\ e.rc = msgs[i].rc
  BY <1>1 DEF Message
<1> HIDE DEF e
<1> QED BY <1>2, <1>3, Edit

LEMMA Reappears ==
  ASSUME QType, NEW i \in DOMAIN msgs, NEW b \in BOOLEAN,
         msgs' = [msgs EXCEPT ![i].st = "visible", ![i].lapsed = b]
  PROVE  /\ QType' /\ DOMAIN msgs' = DOMAIN msgs /\ Bodies
         /\ msgs'[i].st = "visible" /\ msgs'[i].rc = msgs[i].rc
         /\ \A k \in DOMAIN msgs : k # i => msgs'[k] = msgs[k]
<1> DEFINE e == [msgs[i] EXCEPT !.st = "visible", !.lapsed = b]
<1>1. msgs[i] \in Message
  BY MessageFields
<1>2. msgs' = [msgs EXCEPT ![i] = e]
  OBVIOUS
<1>3. /\ e \in Message /\ e.job = msgs[i].job /\ e.tried = msgs[i].tried /\ e.inject = msgs[i].inject
      /\ e.st = "visible" /\ e.rc = msgs[i].rc
  BY <1>1 DEF Message
<1> HIDE DEF e
<1> QED BY <1>2, <1>3, Edit

\* A timeout marks the message, a release does not.
LEMMA MarkedByTimeout ==
  ASSUME QType, NEW i \in DOMAIN msgs
  PROVE  /\ Expire(i) => msgs'[i].lapsed
         /\ msgs' = [msgs EXCEPT ![i].st = "visible", ![i].lapsed = FALSE] => ~msgs'[i].lapsed
<1>1. msgs[i] \in Message
  BY MessageFields
<1> QED BY <1>1 DEF Expire, Message, QType

\* A message that is sent is newer than all others.
LEMMA Sends ==
  ASSUME QType, NEW j \in Jobs, NEW tried \in Nat, NEW inject \in Injections, Send(j, tried, inject)
  PROVE  /\ QType' /\ DOMAIN msgs' = DOMAIN msgs \cup {Len(msgs) + 1} /\ Bodies
         /\ Len(msgs) \in Nat /\ \A k \in DOMAIN msgs : k < Len(msgs) + 1 /\ msgs'[k] = msgs[k]
         /\ msgs'[Len(msgs) + 1].job = j /\ msgs'[Len(msgs) + 1].st = "visible"
         /\ msgs'[Len(msgs) + 1].rc = 0 /\ msgs'[Len(msgs) + 1].inject = inject
         /\ ~msgs'[Len(msgs) + 1].lapsed
<1> DEFINE e == NewMessage(j, tried, inject)
<1>1. e \in Message /\ e.job = j /\ e.st = "visible" /\ e.rc = 0 /\ e.inject = inject /\ ~e.lapsed
  BY DEF NewMessage, Message
<1>2. msgs' = Append(msgs, e)
  BY DEF Send
<1> HIDE DEF e
<1>3. msgs' \in Seq(Message) /\ Len(msgs') = Len(msgs) + 1 /\ Len(msgs) \in Nat
  BY <1>1, <1>2 DEF QType
<1>4. DOMAIN msgs = 1..Len(msgs) /\ DOMAIN msgs' = 1..Len(msgs')
  BY <1>3 DEF QType
<1>5. \A k \in 1..Len(msgs) : msgs'[k] = msgs[k]
  BY <1>1, <1>2 DEF QType
<1>6. msgs'[Len(msgs) + 1] = e
  BY <1>1, <1>2 DEF QType
<1>7. DOMAIN msgs' = DOMAIN msgs \cup {Len(msgs) + 1} /\ \A k \in DOMAIN msgs : k < Len(msgs) + 1
  BY <1>3, <1>4
<1> QED BY <1>1, <1>3, <1>4, <1>5, <1>6, <1>7 DEF QType, Bodies

-----------------------------------------------------------------------------
(* The invariant behind NoJobLost *)

\* A worker holds a message that exists, also in a call that outlived it, and a
\* worker that was not started has nothing.
HoldsOK ==
  \A w \in Workers :
    /\ Holding(w) \/ triage[w] # "none" => d[w].m \in DOMAIN msgs /\ d[w].rc >= 1
    /\ pc[w] = "triage" => triage[w] # "none"
    /\ triage[w] # "none" => pc[w] \in {"triage", "dead"}
    /\ w > spawned <=> pc[w] = "absent"
    /\ pc[w] = "absent" => chaos[w] = "none"

\* A message is acked only when its job has ended or was sent again.
Acked ==
  \A w \in Workers :
    pc[w] = "ack" => \/ outcome[Job(w)] # "none"
                     \/ \E k \in DOMAIN msgs : k > d[w].m /\ msgs[k].job = Job(w)

\* The newest message of a job that has not ended is not deleted.
NewestLive ==
  co # "failed" =>
    \A j \in submitted \ Terminal :
      \E i \in DOMAIN msgs : /\ msgs[i].job = j /\ Live(i)
                             /\ \A k \in DOMAIN msgs : k > i => msgs[k].job # j

CoOK ==
  /\ submitted \subseteq Workload
  /\ co \in {"submitting", "spawning"} => initial < Pool
  /\ co = "submitting" => ~closed
  /\ co \notin {"submitting", "failed"} => closed /\ submitted = Workload

SInv == QType /\ CInv /\ WType /\ PType /\ HoldsOK /\ Acked /\ NewestLive /\ CoOK

LEMMA TerminalOnward ==
  ASSUME CInv, CInv', Onward PROVE Terminal \subseteq Terminal'
BY DEF CInv, CType, Onward, Terminal

\* Nothing is sent, and what is deleted is either not the newest or has ended.
LEMMA NewestStays ==
  ASSUME NewestLive, QType, DOMAIN msgs' = DOMAIN msgs, Bodies, 
         submitted' = submitted, Terminal \subseteq Terminal', co = "failed" => co' = "failed",
         \A i \in DOMAIN msgs : Live(i) =>
            \/ msgs'[i].st \in {"visible", "inflight", "dlq"}
            \/ msgs[i].job \in Terminal
            \/ \E k \in DOMAIN msgs : k > i /\ msgs[k].job = msgs[i].job
  PROVE  NewestLive'
<1> SUFFICES ASSUME co' # "failed", NEW j \in submitted' \ Terminal'
             PROVE  \E i \in DOMAIN msgs' :
                      /\ msgs'[i].job = j /\ Live(i)'
                      /\ \A k \in DOMAIN msgs' : k > i => msgs'[k].job # j
  BY DEF NewestLive
<1>1. PICK i \in DOMAIN msgs : /\ msgs[i].job = j /\ Live(i)
                               /\ \A k \in DOMAIN msgs : k > i => msgs[k].job # j
  BY DEF NewestLive
<1>2. msgs'[i].st \in {"visible", "inflight", "dlq"}
  BY <1>1
<1> QED BY <1>1, <1>2 DEF Bodies, Live

\* The ends of acks stay justified.
LEMMA AckedStays ==
  ASSUME Acked, QType, WType, HoldsOK, CInv, Onward, Bodies,
         \A w \in Workers : pc'[w] = "ack" =>
            \/ pc[w] = "ack" /\ d'[w] = d[w]
            \/ /\ d'[w] = d[w] /\ d[w].m \in DOMAIN msgs /\ outcome'[Job(w)] # "none"
            \/ /\ d'[w] = d[w] /\ d[w].m \in DOMAIN msgs
               /\ \E k \in DOMAIN msgs' : k > d[w].m /\ msgs'[k].job = Job(w)
  PROVE  Acked'
<1> SUFFICES ASSUME NEW w \in Workers, pc'[w] = "ack"
             PROVE  \/ outcome'[msgs'[d'[w].m].job] # "none"
                    \/ \E k \in DOMAIN msgs' : k > d'[w].m /\ msgs'[k].job = msgs'[d'[w].m].job
  BY DEF Acked, Job, Msg
<1>1. d'[w] = d[w] /\ d[w].m \in DOMAIN msgs
  BY DEF HoldsOK, Holding
<1>2. msgs'[d'[w].m].job = Job(w) /\ Job(w) \in Jobs
  BY <1>1, MessageFields DEF Bodies, Job, Msg
<1>3. CASE pc[w] = "ack"
  BY <1>1, <1>2, <1>3 DEF Acked, Bodies, Onward
<1>4. CASE pc[w] # "ack"
  BY <1>1, <1>2, <1>4
<1> QED BY <1>3, <1>4

\* At most worker w moves; what is to be shown is about it alone.
LEMMA HoldsStays ==
  ASSUME HoldsOK, WType, PType, NEW w \in Workers, DOMAIN msgs \subseteq DOMAIN msgs',
         \A v \in Workers \ {w} : pc'[v] = pc[v] /\ d'[v] = d[v] /\ triage'[v] = triage[v]
                                   /\ chaos'[v] = chaos[v],
         spawned' = spawned, pc[w] # "absent", pc'[w] # "absent",
         Holding(w)' \/ triage'[w] # "none" => d'[w].m \in DOMAIN msgs' /\ d'[w].rc >= 1,
         pc'[w] = "triage" => triage'[w] # "none",
         triage'[w] # "none" => pc'[w] \in {"triage", "dead"}
  PROVE  HoldsOK'
BY DEF HoldsOK, Holding

-----------------------------------------------------------------------------
(* Moves of one worker *)

\* Only worker w moves.
OnlyWorker(w) ==
  \A v \in Workers \ {w} : pc'[v] = pc[v] /\ d'[v] = d[v] /\ triage'[v] = triage[v]

LEMMA Gotos ==
  ASSUME WType, NEW w \in Workers, NEW l \in Labels, Goto(w, l)
  PROVE  WType' /\ OnlyWorker(w) /\ pc'[w] = l /\ d'[w] = d[w] /\ triage'[w] = triage[w]
BY DEF WType, Goto, OnlyWorker

LEMMA Loops ==
  ASSUME WType, NEW w \in Workers, Loop(w)
  PROVE  WType' /\ OnlyWorker(w) /\ pc'[w] = "sweep" /\ triage'[w] = triage[w]
<1>1. NoDelivery \in Deliveries
  BY DEF NoDelivery, Deliveries
<1>2. d' \in [Workers -> Deliveries]
  BY <1>1 DEF Loop, WType
<1>3. tier' \in [Workers -> 0..MaxTier]
  BY Numbers DEF Loop, WType
<1> QED BY <1>2, <1>3 DEF WType, Loop, OnlyWorker, Labels

LEMMA Decideds ==
  ASSUME WType, NEW w \in Workers, NEW l \in Labels, Decided(w, l)
  PROVE  /\ WType' /\ OnlyWorker(w) /\ d'[w] = d[w] /\ triage'[w] = "none"
         /\ pc'[w] = IF pc[w] = "triage" THEN l ELSE pc[w]
BY DEF WType, Decided, OnlyWorker

\* A step of worker w, or of a call of it, that goes through the coordinator and the
\* queue: the obligations that are left are about w and about the newest messages.
LEMMA OneStep ==
  ASSUME SInv, NEW w \in Workers, CInv', Onward, QType', Bodies, WType', OnlyWorker(w),
         UNCHANGED <<submitted, closed, spawned, initial, co, runErr, reaped>>,
         chaos' \in [Workers -> {"none", "kill", "spawn", "killed"}],
         \A v \in Workers \ {w} : chaos'[v] = chaos[v],
         pc[w] # "absent", pc'[w] # "absent",
         pc[w] \in {"exited", "dead"} => pc'[w] = pc[w],
         Holding(w)' \/ triage'[w] # "none" => d'[w].m \in DOMAIN msgs' /\ d'[w].rc >= 1,
         pc'[w] = "triage" => triage'[w] # "none",
         triage'[w] # "none" => pc'[w] \in {"triage", "dead"},
         pc'[w] = "ack" =>
            \/ pc[w] = "ack" /\ d'[w] = d[w]
            \/ /\ d'[w] = d[w] /\ d[w].m \in DOMAIN msgs /\ outcome'[Job(w)] # "none"
            \/ /\ d'[w] = d[w] /\ d[w].m \in DOMAIN msgs
               /\ \E k \in DOMAIN msgs' : k > d[w].m /\ msgs'[k].job = Job(w),
         NewestLive'
  PROVE  SInv'
<1>0. /\ QType /\ CInv /\ WType /\ PType /\ HoldsOK /\ Acked /\ CoOK
  BY DEF SInv
<1>1. Gone \subseteq Gone'
  BY DEF Gone, OnlyWorker
<1>2. PType'
  BY <1>0, <1>1 DEF PType
<1>3. HoldsOK'
  BY <1>0, HoldsStays DEF Bodies, OnlyWorker
<1>4. Acked'
  <2>1. \A v \in Workers : pc'[v] = "ack" =>
            \/ pc[v] = "ack" /\ d'[v] = d[v]
            \/ /\ d'[v] = d[v] /\ d[v].m \in DOMAIN msgs /\ outcome'[Job(v)] # "none"
            \/ /\ d'[v] = d[v] /\ d[v].m \in DOMAIN msgs
               /\ \E k \in DOMAIN msgs' : k > d[v].m /\ msgs'[k].job = Job(v)
    BY DEF OnlyWorker
  <2> QED BY <1>0, <2>1, AckedStays
<1>5. CoOK'
  BY <1>0 DEF CoOK
<1> QED BY <1>2, <1>3, <1>4, <1>5 DEF SInv

\* The same for a step that sends nothing and deletes nothing that is needed.
LEMMA QuietStep ==
  ASSUME SInv, NEW w \in Workers, CoordStep, QType', Bodies, DOMAIN msgs' = DOMAIN msgs,
         WType', OnlyWorker(w),
         UNCHANGED <<submitted, closed, spawned, initial, co, runErr, reaped>>,
         chaos' \in [Workers -> {"none", "kill", "spawn", "killed"}],
         \A v \in Workers \ {w} : chaos'[v] = chaos[v],
         pc[w] # "absent", pc'[w] # "absent",
         pc[w] \in {"exited", "dead"} => pc'[w] = pc[w],
         Holding(w)' \/ triage'[w] # "none" => d'[w].m \in DOMAIN msgs' /\ d'[w].rc >= 1,
         pc'[w] = "triage" => triage'[w] # "none",
         triage'[w] # "none" => pc'[w] \in {"triage", "dead"},
         pc'[w] = "ack" => \/ pc[w] = "ack" /\ d'[w] = d[w]
                           \/ /\ d'[w] = d[w] /\ d[w].m \in DOMAIN msgs
                              /\ outcome'[Job(w)] # "none",
         \A i \in DOMAIN msgs : Live(i) =>
            \/ msgs'[i].st \in {"visible", "inflight", "dlq"}
            \/ msgs[i].job \in Terminal
            \/ \E k \in DOMAIN msgs : k > i /\ msgs[k].job = msgs[i].job
  PROVE  SInv'
<1>1. CInv' /\ Onward
  BY CoordKeeps DEF SInv
<1>2. Terminal \subseteq Terminal'
  BY <1>1, TerminalOnward DEF SInv
<1>3. NewestLive'
  BY <1>2, NewestStays DEF SInv
<1> QED BY <1>1, <1>3, OneStep

\* With the messages as they are.
LEMMA LocalStep ==
  ASSUME SInv, NEW w \in Workers, CoordStep, UNCHANGED msgs, WType', OnlyWorker(w),
         UNCHANGED <<submitted, closed, spawned, initial, co, runErr, reaped>>,
         chaos' \in [Workers -> {"none", "kill", "spawn", "killed"}],
         \A v \in Workers \ {w} : chaos'[v] = chaos[v],
         pc[w] # "absent", pc'[w] # "absent",
         pc[w] \in {"exited", "dead"} => pc'[w] = pc[w],
         Holding(w)' \/ triage'[w] # "none" => d'[w] = d[w] /\ (Holding(w) \/ triage[w] # "none"),
         pc'[w] = "triage" => triage'[w] # "none",
         triage'[w] # "none" => pc'[w] \in {"triage", "dead"},
         pc'[w] = "ack" => \/ pc[w] = "ack" /\ d'[w] = d[w]
                           \/ /\ d'[w] = d[w] /\ d[w].m \in DOMAIN msgs
                              /\ outcome'[Job(w)] # "none"
  PROVE  SInv'
<1>1. QType' /\ Bodies /\ DOMAIN msgs' = DOMAIN msgs
  BY DEF SInv, QType, Bodies
<1>2. Holding(w)' \/ triage'[w] # "none" => d'[w].m \in DOMAIN msgs' /\ d'[w].rc >= 1
  BY DEF SInv, HoldsOK
<1>3. \A i \in DOMAIN msgs : Live(i) => msgs'[i].st \in {"visible", "inflight", "dlq"}
  BY DEF Live
<1> QED BY <1>1, <1>2, <1>3, QuietStep

-----------------------------------------------------------------------------
(* RunSQSWorker and the calls it makes *)

LEMMA ProcStays ==
  ASSUME SInv, UNCHANGED procVars
  PROVE  /\ UNCHANGED <<chaos, spawned, initial, co, runErr, reaped, faults, spawnFails, stalls>>
         /\ chaos' \in [Workers -> {"none", "kill", "spawn", "killed"}]
         /\ \A v \in Workers : chaos'[v] = chaos[v]
BY DEF SInv, PType, procVars

LEMMA CoordStays ==
  ASSUME UNCHANGED coordVars
  PROVE  CoordStep /\ UNCHANGED <<submitted, outcome, released, stats, closed, done>>
BY DEF coordVars, CoordStep

\* What a worker that holds a delivery holds.
LEMMA HeldMessage ==
  ASSUME SInv, NEW w \in Workers, Holding(w) \/ triage[w] # "none"
  PROVE  /\ d[w].m \in DOMAIN msgs /\ Job(w) \in Jobs /\ Msg(w) = msgs[d[w].m]
         /\ d[w].rc \in Nat /\ d[w].rc >= 1 /\ d[w].m \in Nat
         /\ Attempt(w) \in Nat /\ Budget[Job(w)] \in Nat
<1>1. d[w].m \in DOMAIN msgs /\ d[w].rc >= 1
  BY DEF SInv, HoldsOK
<1>2. d[w].rc \in Nat /\ d[w].m \in Nat
  BY DEF SInv, WType, Deliveries
<1>3. Msg(w) = msgs[d[w].m] /\ Job(w) \in Jobs /\ Msg(w).tried \in Nat
  BY <1>1, MessageFields DEF Msg, Job, SInv
<1> QED BY <1>1, <1>2, <1>3, Tables DEF Attempt

LEMMA ReceiveKeeps ==
  ASSUME SInv, NEW w \in Workers, Receive(w)
  PROVE  SInv'
<1>0. QType /\ WType /\ pc[w] = "sweep" /\ triage[w] = "none"
  BY DEF Receive, SInv, HoldsOK
<1>1. PICK i \in DOMAIN msgs :
        /\ msgs[i].st = "visible" /\ Deliver(i)
        /\ d' = [d EXCEPT ![w] = [m |-> i, rc |-> msgs[i].rc + 1, lapsed |-> msgs[i].lapsed]]
  BY DEF Receive, Visible
<1>2. pc' = [pc EXCEPT ![w] = "got"] /\ UNCHANGED <<coordVars, tier, triage, procVars>>
  BY DEF Receive
<1>3. /\ QType' /\ DOMAIN msgs' = DOMAIN msgs /\ Bodies /\ msgs'[i].st = "inflight"
      /\ \A k \in DOMAIN msgs : k # i => msgs'[k] = msgs[k]
  BY <1>0, <1>1, Delivers
<1>4. msgs[i].rc \in Nat /\ msgs[i].lapsed \in BOOLEAN /\ i \in Nat
  BY <1>0, MessageFields
<1> DEFINE x == [m |-> i, rc |-> msgs[i].rc + 1, lapsed |-> msgs[i].lapsed]
<1>5. x \in Deliveries /\ x.m = i /\ x.rc >= 1
  BY <1>4 DEF Deliveries
<1>6. d' = [d EXCEPT ![w] = x]
  BY <1>1
<1> HIDE DEF x
<1>7. d' \in [Workers -> Deliveries] /\ d'[w] = x
  BY <1>0, <1>5, <1>6 DEF WType
<1>8. WType' /\ OnlyWorker(w) /\ pc'[w] = "got" /\ triage'[w] = triage[w]
  BY <1>0, <1>2, <1>6, <1>7 DEF WType, OnlyWorker, Labels
<1>9. \A k \in DOMAIN msgs : Live(k) => msgs'[k].st \in {"visible", "inflight", "dlq"}
  BY <1>3 DEF Live
<1>10. /\ UNCHANGED <<submitted, closed, spawned, initial, co, runErr, reaped>>
       /\ chaos' \in [Workers -> {"none", "kill", "spawn", "killed"}]
       /\ \A v \in Workers \ {w} : chaos'[v] = chaos[v]
       /\ CoordStep
  BY <1>2, ProcStays, CoordStays
<1>11. d'[w].m \in DOMAIN msgs' /\ d'[w].rc >= 1
  BY <1>3, <1>5, <1>7
<1> QED BY <1>0, <1>3, <1>8, <1>9, <1>10, <1>11, QuietStep

LEMMA PollKeeps ==
  ASSUME SInv, NEW w \in Workers, PollRedrives(w) \/ PollEmpty(w) \/ AskStatus(w)
  PROVE  SInv'
<1>0. /\ QType /\ WType /\ pc[w] = "sweep" /\ tier[w] \in 0..MaxTier /\ triage[w] = "none"
      /\ pc'[w] \in {"sweep", "exited"} /\ triage'[w] = triage[w]
      /\ UNCHANGED <<coordVars, procVars>>
  <2>1. QType /\ WType /\ pc[w] = "sweep" /\ UNCHANGED <<coordVars, procVars>>
    BY DEF PollRedrives, PollEmpty, AskStatus, SInv
  <2>2. pc'[w] \in {"sweep", "exited"} /\ triage' = triage
    BY <2>1 DEF PollRedrives, PollEmpty, AskStatus, workerVars, Goto, Loop, WType
  <2>3. triage[w] = "none"
    BY <2>1 DEF SInv, HoldsOK
  <2> QED BY <2>1, <2>2, <2>3 DEF WType
<1>1. /\ UNCHANGED <<submitted, closed, spawned, initial, co, runErr, reaped>>
      /\ chaos' \in [Workers -> {"none", "kill", "spawn", "killed"}]
      /\ \A v \in Workers \ {w} : chaos'[v] = chaos[v]
      /\ CoordStep
  BY <1>0, ProcStays, CoordStays
<1>2. ~Holding(w)' /\ triage'[w] = "none"
  BY <1>0 DEF Holding
<1>3. ASSUME PollRedrives(w) PROVE SInv'
  <2>1. PICK i \in DOMAIN msgs : Redrive(i)
    BY <1>3 DEF PollRedrives, Visible
  <2>2. msgs' = [msgs EXCEPT ![i].st = "dlq"]
    BY <2>1 DEF Redrive
  <2>3. /\ QType' /\ DOMAIN msgs' = DOMAIN msgs /\ Bodies /\ msgs'[i].st = "dlq"
        /\ \A k \in DOMAIN msgs : k # i => msgs'[k] = msgs[k]
    BY <1>0, <2>2, Restates
  <2>4. \A k \in DOMAIN msgs : Live(k) => msgs'[k].st \in {"visible", "inflight", "dlq"}
    BY <2>3 DEF Live
  <2>5. WType' /\ OnlyWorker(w) /\ d' = d
    BY <1>0, <1>3 DEF PollRedrives, workerVars, WType, OnlyWorker
  <2> QED BY <1>0, <1>1, <1>2, <2>3, <2>4, <2>5, QuietStep
<1>4. ASSUME PollEmpty(w) \/ AskStatus(w) PROVE SInv'
  <2>1. UNCHANGED msgs
    BY <1>4 DEF PollEmpty, AskStatus
  <2>2. WType' /\ OnlyWorker(w)
    <3>1. ASSUME PollEmpty(w) PROVE WType' /\ OnlyWorker(w)
      <4>1. tier[w] - 1 \in 0..MaxTier
        BY <1>0, <3>1, Numbers DEF PollEmpty
      <4> QED BY <1>0, <3>1, <4>1 DEF PollEmpty, WType, OnlyWorker
    <3>2. ASSUME AskStatus(w) PROVE WType' /\ OnlyWorker(w)
      <4>1. Goto(w, "exited") \/ Loop(w)
        BY <3>2 DEF AskStatus
      <4> QED BY <1>0, <4>1, Gotos, Loops DEF Labels
    <3> QED BY <1>4, <3>1, <3>2
  <2> QED BY <1>0, <1>1, <1>2, <2>1, <2>2, LocalStep
<1> QED BY <1>3, <1>4

LEMMA StartJobKeeps ==
  ASSUME SInv, NEW w \in Workers, StartJob(w)
  PROVE  SInv'
<1>0. /\ QType /\ WType /\ pc[w] = "got" /\ triage[w] = "none" /\ Holding(w)
      /\ UNCHANGED <<msgs, spawned, initial, co, runErr, reaped, faults, spawnFails, stalls>>
  BY DEF StartJob, SInv, HoldsOK, Holding
<1>1. Job(w) \in Jobs /\ d[w].rc \in Nat /\ d[w].m \in DOMAIN msgs
  BY <1>0, HeldMessage
<1>2. ASSUME outcome[Job(w)] # "none", Goto(w, "ack"), UNCHANGED <<coordVars, chaos>> PROVE SInv'
  <2>1. CoordStep /\ UNCHANGED <<submitted, closed, outcome>>
    BY <1>2, CoordStays
  <2>2. WType' /\ OnlyWorker(w) /\ pc'[w] = "ack" /\ d'[w] = d[w] /\ triage'[w] = "none"
    BY <1>0, <1>2, Gotos DEF Labels
  <2>3. chaos' \in [Workers -> {"none", "kill", "spawn", "killed"}] /\ chaos' = chaos
    BY <1>2 DEF SInv, PType
  <2> QED BY <1>0, <1>1, <1>2, <2>1, <2>2, <2>3, LocalStep
<1>3. ASSUME Started(Job(w), d[w].rc), Goto(w, IF Stalls(w) THEN "stall" ELSE "run"),
             chaos' = IF Stalls(w) THEN [chaos EXCEPT ![w] = "kill"] ELSE chaos
      PROVE  SInv'
  <2>1. CoordStep /\ UNCHANGED <<submitted, closed, outcome>>
    BY <1>1, <1>3 DEF CoordStep, Started
  <2>2. /\ WType' /\ OnlyWorker(w) /\ pc'[w] \in {"stall", "run"} /\ d'[w] = d[w]
        /\ triage'[w] = "none"
    <3>1. CASE Stalls(w)
      BY <1>0, <1>3, <3>1, Gotos DEF Labels
    <3>2. CASE ~Stalls(w)
      BY <1>0, <1>3, <3>2, Gotos DEF Labels
    <3> QED BY <3>1, <3>2
  <2>3. /\ chaos' \in [Workers -> {"none", "kill", "spawn", "killed"}]
        /\ \A v \in Workers \ {w} : chaos'[v] = chaos[v]
    BY <1>3 DEF SInv, PType
  <2> QED BY <1>0, <2>1, <2>2, <2>3, LocalStep
<1> QED BY <1>2, <1>3 DEF StartJob

\* What Report is told.
LEMMA ResultsType ==
  ASSUME NEW w \in Workers, NEW r \in Results(w) PROVE r \in ErrorKinds \cup {"ok"}
BY DEF Results

LEMMA ReportKeeps ==
  ASSUME SInv, NEW w \in Workers, Report(w)
  PROVE  SInv'
<1>0. /\ QType /\ WType /\ pc[w] = "run" /\ triage[w] = "none" /\ Holding(w)
      /\ UNCHANGED <<msgs, procVars>>
  BY DEF Report, SInv, HoldsOK, Holding
<1>1. Job(w) \in Jobs /\ d[w].m \in DOMAIN msgs
  BY <1>0, HeldMessage
<1>2. /\ UNCHANGED <<spawned, initial, co, runErr, reaped>>
      /\ chaos' \in [Workers -> {"none", "kill", "spawn", "killed"}]
      /\ \A v \in Workers \ {w} : chaos'[v] = chaos[v]
  BY <1>0, ProcStays
<1>3. ASSUME outcome[Job(w)] # "none", Goto(w, "ack"), UNCHANGED coordVars PROVE SInv'
  <2>1. CoordStep /\ UNCHANGED <<submitted, closed, outcome>>
    BY <1>3, CoordStays
  <2>2. WType' /\ OnlyWorker(w) /\ pc'[w] = "ack" /\ d'[w] = d[w] /\ triage'[w] = "none"
    BY <1>0, <1>3, Gotos DEF Labels
  <2> QED BY <1>0, <1>1, <1>2, <1>3, <2>1, <2>2, LocalStep
<1>4. ASSUME ReportSuccess(Job(w)), Goto(w, "ack") PROVE SInv'
  <2>1. Finish({Job(w)}, "completed", "Succeeded") /\ {Job(w)} \in SUBSET Jobs
    BY <1>1, <1>4 DEF ReportSuccess
  <2>2. CoordStep
    BY <2>1 DEF CoordStep, Ends
  <2>3. UNCHANGED <<submitted, closed>> /\ outcome'[Job(w)] # "none"
    BY <1>1, <2>1 DEF Finish
  <2>4. WType' /\ OnlyWorker(w) /\ pc'[w] = "ack" /\ d'[w] = d[w] /\ triage'[w] = "none"
    BY <1>0, <1>4, Gotos DEF Labels
  <2> QED BY <1>0, <1>1, <1>2, <2>2, <2>3, <2>4, LocalStep
<1>5. ASSUME NEW r \in ErrorKinds, pc' = [pc EXCEPT ![w] = "triage"],
             triage' = [triage EXCEPT ![w] = r], UNCHANGED <<coordVars, tier, d>>
      PROVE  SInv'
  <2>1. CoordStep /\ UNCHANGED <<submitted, closed, outcome>>
    BY <1>5, CoordStays
  <2>2. /\ WType' /\ OnlyWorker(w) /\ pc'[w] = "triage" /\ d'[w] = d[w]
        /\ triage'[w] # "none"
    BY <1>0, <1>5 DEF WType, OnlyWorker, Labels, ErrorKinds
  <2> QED BY <1>0, <1>1, <1>2, <2>1, <2>2, LocalStep
<1>6. PICK r \in Results(w) :
        \/ /\ outcome[Job(w)] # "none" /\ Goto(w, "ack") /\ UNCHANGED coordVars
        \/ /\ r = "ok" /\ ReportSuccess(Job(w)) /\ Goto(w, "ack")
        \/ /\ r # "ok" /\ outcome[Job(w)] = "none"
           /\ pc' = [pc EXCEPT ![w] = "triage"] /\ triage' = [triage EXCEPT ![w] = r]
           /\ UNCHANGED <<coordVars, tier, d>>
  BY DEF Report
<1>7. r \in ErrorKinds \cup {"ok"}
  BY ResultsType
<1> QED BY <1>3, <1>4, <1>5, <1>6, <1>7

LEMMA FinishTriageKeeps ==
  ASSUME SInv, NEW w \in Workers, FinishTriage(w)
  PROVE  SInv'
<1>0. /\ QType /\ WType /\ pc[w] \in {"triage", "dead"} /\ triage[w] # "none"
      /\ UNCHANGED <<msgs, procVars>>
  BY DEF FinishTriage, SInv, HoldsOK
<1>1. Job(w) \in Jobs /\ d[w].m \in DOMAIN msgs
  BY <1>0, HeldMessage
<1>2. /\ UNCHANGED <<spawned, initial, co, runErr, reaped>>
      /\ chaos' \in [Workers -> {"none", "kill", "spawn", "killed"}]
      /\ \A v \in Workers \ {w} : chaos'[v] = chaos[v]
  BY <1>0, ProcStays
<1>3. ASSUME NEW l \in {"ack", "release", "resend"}, Decided(w, l), CoordStep,
             UNCHANGED <<submitted, closed>>,
             l = "ack" => outcome'[Job(w)] # "none"
      PROVE  SInv'
  <2>1. /\ WType' /\ OnlyWorker(w) /\ d'[w] = d[w] /\ triage'[w] = "none"
        /\ pc'[w] = IF pc[w] = "triage" THEN l ELSE pc[w]
    BY <1>0, <1>3, Decideds DEF Labels
  <2> QED BY <1>0, <1>1, <1>2, <1>3, <2>1, LocalStep
<1>4. ASSUME outcome[Job(w)] # "none", Decided(w, "ack"), UNCHANGED coordVars PROVE SInv'
  <2>1. CoordStep /\ UNCHANGED <<submitted, closed, outcome>>
    BY <1>4, CoordStays
  <2> QED BY <1>3, <1>4, <2>1
<1>5. ASSUME NEW g, ReportRetry(Job(w), g), 
             Decided(w, IF g.action = "retry" THEN "release" ELSE "resend") PROVE SInv'
  <2>1. CoordStep /\ UNCHANGED <<submitted, closed>>
    BY <1>1, <1>5 DEF CoordStep, ReportRetry
  <2>2. CASE g.action = "retry"
    BY <1>3, <1>5, <2>1, <2>2
  <2>3. CASE g.action # "retry"
    BY <1>3, <1>5, <2>1, <2>3
  <2> QED BY <2>2, <2>3
<1>6. ASSUME ReportEscalate(Job(w)), Decided(w, "ack") PROVE SInv'
  <2>1. Finish({Job(w)}, "escalated", "Escalated") /\ {Job(w)} \in SUBSET Jobs
    BY <1>1, <1>6 DEF ReportEscalate
  <2>2. CoordStep
    BY <2>1 DEF CoordStep, Ends
  <2>3. UNCHANGED <<submitted, closed>> /\ outcome'[Job(w)] # "none"
    BY <1>1, <2>1 DEF Finish
  <2> QED BY <1>3, <1>6, <2>2, <2>3
<1> QED BY <1>4, <1>5, <1>6 DEF FinishTriage

LEMMA ReleaseKeeps ==
  ASSUME SInv, NEW w \in Workers, ReleaseMessage(w)
  PROVE  SInv'
<1>0. /\ QType /\ WType /\ pc[w] = "release" /\ triage[w] = "none" /\ Holding(w)
      /\ UNCHANGED <<coordVars, procVars>>
  BY DEF ReleaseMessage, SInv, HoldsOK, Holding
<1>1. /\ UNCHANGED <<submitted, closed, spawned, initial, co, runErr, reaped>>
      /\ chaos' \in [Workers -> {"none", "kill", "spawn", "killed"}]
      /\ \A v \in Workers \ {w} : chaos'[v] = chaos[v]
      /\ CoordStep
  BY <1>0, ProcStays, CoordStays
<1>2. d[w].m \in DOMAIN msgs
  BY <1>0, HeldMessage
<1>3. WType' /\ OnlyWorker(w) /\ pc'[w] \in {"sweep", "dead"} /\ triage'[w] = "none"
  <2>1. Loop(w) \/ Goto(w, "dead")
    BY DEF ReleaseMessage
  <2> QED BY <1>0, <2>1, Gotos, Loops DEF Labels
<1>4. ~Holding(w)'
  BY <1>3 DEF Holding
<1>5. ASSUME Release(d[w]) PROVE SInv'
  <2>1. msgs' = [msgs EXCEPT ![d[w].m].st = "visible", ![d[w].m].lapsed = FALSE]
    BY <1>5 DEF Release
  <2>2. /\ QType' /\ DOMAIN msgs' = DOMAIN msgs /\ Bodies /\ msgs'[d[w].m].st = "visible"
        /\ \A k \in DOMAIN msgs : k # d[w].m => msgs'[k] = msgs[k]
    BY <1>0, <1>2, <2>1, Reappears
  <2>3. \A k \in DOMAIN msgs : Live(k) => msgs'[k].st \in {"visible", "inflight", "dlq"}
    BY <2>2 DEF Live
  <2> QED BY <1>0, <1>1, <1>3, <1>4, <2>2, <2>3, QuietStep
<1>6. ASSUME UNCHANGED msgs PROVE SInv'
  BY <1>0, <1>1, <1>3, <1>4, <1>6, LocalStep
<1> QED BY <1>5, <1>6 DEF ReleaseMessage

\* The adjusted job is sent again before its old message is acked.
LEMMA ResendKeeps ==
  ASSUME SInv, NEW w \in Workers, Resend(w)
  PROVE  SInv'
<1>0. /\ QType /\ WType /\ pc[w] = "resend" /\ triage[w] = "none" /\ Holding(w)
      /\ UNCHANGED <<coordVars, procVars>> /\ Send(Job(w), Attempt(w), "none")
      /\ Goto(w, "ack")
  BY DEF Resend, SInv, HoldsOK, Holding
<1>1. /\ UNCHANGED <<submitted, closed, spawned, initial, co, runErr, reaped>>
      /\ chaos' \in [Workers -> {"none", "kill", "spawn", "killed"}]
      /\ \A v \in Workers \ {w} : chaos'[v] = chaos[v]
      /\ CoordStep
  BY <1>0, ProcStays, CoordStays
<1>2. CInv' /\ Onward /\ Terminal \subseteq Terminal'
  BY <1>1, CoordKeeps, TerminalOnward DEF SInv
<1>3. Job(w) \in Jobs /\ d[w].m \in DOMAIN msgs /\ Attempt(w) \in Nat /\ d[w].rc >= 1
  BY <1>0, HeldMessage
<1>4. WType' /\ OnlyWorker(w) /\ pc'[w] = "ack" /\ d'[w] = d[w] /\ triage'[w] = "none"
  BY <1>0, Gotos DEF Labels
<1> DEFINE n == Len(msgs) + 1
<1>5. /\ QType' /\ DOMAIN msgs' = DOMAIN msgs \cup {n} /\ Bodies
      /\ Len(msgs) \in Nat /\ \A k \in DOMAIN msgs : k < n /\ msgs'[k] = msgs[k]
      /\ msgs'[n].job = Job(w) /\ msgs'[n].st = "visible"
  BY <1>0, <1>3, Sends DEF Injections
<1> HIDE DEF n
<1>6. NewestLive'
  <2> SUFFICES ASSUME co' # "failed", NEW j \in submitted' \ Terminal'
               PROVE  \E i \in DOMAIN msgs' :
                        /\ msgs'[i].job = j /\ Live(i)'
                        /\ \A k \in DOMAIN msgs' : k > i => msgs'[k].job # j
    BY DEF NewestLive
  <2>0. n \in Nat /\ DOMAIN msgs \subseteq Nat
    BY <1>5, MessageFields DEF n, SInv
  <2>1. CASE j = Job(w)
    <3>1. \A k \in DOMAIN msgs' : ~(k > n)
      BY <1>5, <2>0
    <3> QED BY <1>5, <2>1, <3>1 DEF Live
  <2>2. CASE j # Job(w)
    <3>1. PICK i \in DOMAIN msgs : /\ msgs[i].job = j /\ Live(i)
                                   /\ \A k \in DOMAIN msgs : k > i => msgs[k].job # j
      BY <1>1, <1>2 DEF SInv, NewestLive
    <3>2. i \in DOMAIN msgs' /\ msgs'[i] = msgs[i]
      BY <1>5
    <3>3. \A k \in DOMAIN msgs' : k > i => msgs'[k].job # j
      BY <1>5, <2>2, <3>1
    <3> QED BY <3>1, <3>2, <3>3 DEF Live
  <2> QED BY <2>1, <2>2
<1>7. \E k \in DOMAIN msgs' : k > d[w].m /\ msgs'[k].job = Job(w)
  <2>1. n > d[w].m
    BY <1>3, <1>5, MessageFields DEF SInv, n
  <2> QED BY <1>5, <2>1
<1>8. d'[w].m \in DOMAIN msgs' /\ d'[w].rc >= 1
  BY <1>3, <1>4, <1>5
<1> QED BY <1>0, <1>1, <1>2, <1>3, <1>4, <1>5, <1>6, <1>7, <1>8, OneStep

LEMMA AckKeeps ==
  ASSUME SInv, NEW w \in Workers, AckMessage(w)
  PROVE  SInv'
<1>0. /\ QType /\ WType /\ pc[w] = "ack" /\ triage[w] = "none" /\ Holding(w)
      /\ UNCHANGED <<coordVars, procVars>> /\ Loop(w) /\ Ack(d[w])
  BY DEF AckMessage, SInv, HoldsOK, Holding
<1>1. /\ UNCHANGED <<submitted, closed, spawned, initial, co, runErr, reaped>>
      /\ chaos' \in [Workers -> {"none", "kill", "spawn", "killed"}]
      /\ \A v \in Workers \ {w} : chaos'[v] = chaos[v]
      /\ CoordStep
  BY <1>0, ProcStays, CoordStays
<1>2. d[w].m \in DOMAIN msgs /\ Job(w) \in Jobs /\ Job(w) = msgs[d[w].m].job
  BY <1>0, HeldMessage DEF Job
<1>3. WType' /\ OnlyWorker(w) /\ pc'[w] = "sweep" /\ triage'[w] = "none"
  BY <1>0, Loops
<1>4. ~Holding(w)'
  BY <1>3 DEF Holding
<1>5. ASSUME msgs' = [msgs EXCEPT ![d[w].m].st = "deleted"] PROVE SInv'
  <2>2. /\ QType' /\ DOMAIN msgs' = DOMAIN msgs /\ Bodies /\ msgs'[d[w].m].st = "deleted"
        /\ \A k \in DOMAIN msgs : k # d[w].m => msgs'[k] = msgs[k]
    BY <1>0, <1>2, <1>5, Restates
  <2>3. \A i \in DOMAIN msgs : Live(i) =>
            \/ msgs'[i].st \in {"visible", "inflight", "dlq"}
            \/ msgs[i].job \in Terminal
            \/ \E k \in DOMAIN msgs : k > i /\ msgs[k].job = msgs[i].job
    <3> SUFFICES ASSUME NEW i \in DOMAIN msgs, Live(i)
                 PROVE  \/ msgs'[i].st \in {"visible", "inflight", "dlq"}
                        \/ msgs[i].job \in Terminal
                        \/ \E k \in DOMAIN msgs : k > i /\ msgs[k].job = msgs[i].job
      OBVIOUS
    <3>1. CASE i # d[w].m
      BY <2>2, <3>1 DEF Live
    <3>2. CASE i = d[w].m
      BY <1>0, <1>2, <3>2 DEF SInv, Acked, Terminal
    <3> QED BY <3>1, <3>2
  <2> QED BY <1>0, <1>1, <1>3, <1>4, <2>2, <2>3, QuietStep
<1>6. ASSUME UNCHANGED msgs PROVE SInv'
  BY <1>0, <1>1, <1>3, <1>4, <1>6, LocalStep
<1> QED BY <1>0, <1>5, <1>6 DEF Ack

-----------------------------------------------------------------------------
(* The queue service, faults and the coordinator process *)

\* A step in which no worker moves: what is left is about the processes.
LEMMA CalmStep ==
  ASSUME SInv, CoordStep, QType', Bodies, DOMAIN msgs' = DOMAIN msgs,
         UNCHANGED <<workerVars, chaos, spawned, submitted>>,
         \A i \in DOMAIN msgs : Live(i) => msgs'[i].st \in {"visible", "inflight", "dlq"},
         co = "failed" => co' = "failed", PType', CoOK'
  PROVE  SInv'
<1>0. QType /\ CInv /\ WType /\ PType /\ HoldsOK /\ Acked /\ NewestLive
  BY DEF SInv
<1>1. CInv' /\ Onward
  BY <1>0, CoordKeeps
<1>2. Terminal \subseteq Terminal'
  BY <1>0, <1>1, TerminalOnward
<1>3. NewestLive'
  BY <1>0, <1>2, NewestStays
<1>4. UNCHANGED <<pc, tier, d, triage>>
  BY DEF workerVars
<1>5. WType'
  BY <1>0, <1>4 DEF WType
<1>6. HoldsOK'
  BY <1>0, <1>4 DEF HoldsOK, Holding
<1>7. Acked'
  BY <1>0, <1>1, <1>4, AckedStays
<1> QED BY <1>1, <1>3, <1>5, <1>6, <1>7 DEF SInv

\* With the messages and the coordinator's books as they are.
LEMMA CoMove ==
  ASSUME SInv, UNCHANGED <<msgs, coordVars, workerVars, chaos, spawned, initial>>,
         co \notin {"submitting", "spawning", "failed"}, co' \notin {"submitting", "spawning"},
         co' \in {"submitting", "spawning", "waiting", "looking", "draining", "ok", "failed"},
         runErr' \in BOOLEAN, reaped' \subseteq Gone
  PROVE  SInv'
<1>1. CoordStep /\ UNCHANGED <<submitted, closed>>
  BY CoordStays
<1>2. QType' /\ Bodies /\ DOMAIN msgs' = DOMAIN msgs
  BY DEF SInv, QType, Bodies
<1>3. \A i \in DOMAIN msgs : Live(i) => msgs'[i].st \in {"visible", "inflight", "dlq"}
  BY DEF Live
<1>4. PType'
  BY DEF SInv, PType, Gone, workerVars
<1>5. CoOK'
  BY <1>1 DEF SInv, CoOK
<1> QED BY <1>1, <1>2, <1>3, <1>4, <1>5, CalmStep

LEMMA TimeoutKeeps ==
  ASSUME SInv, NEW i \in DOMAIN msgs, Timeout(i)
  PROVE  SInv'
<1>1. /\ msgs' = [msgs EXCEPT ![i].st = "visible", ![i].lapsed = TRUE]
      /\ UNCHANGED <<coordVars, workerVars, chaos, spawned, initial, co, runErr, reaped>>
  BY DEF Timeout, Expire
<1>2. /\ QType' /\ DOMAIN msgs' = DOMAIN msgs /\ Bodies /\ msgs'[i].st = "visible"
      /\ \A k \in DOMAIN msgs : k # i => msgs'[k] = msgs[k]
  BY <1>1, Reappears DEF SInv
<1>3. \A k \in DOMAIN msgs : Live(k) => msgs'[k].st \in {"visible", "inflight", "dlq"}
  BY <1>2 DEF Live
<1>4. CoordStep /\ UNCHANGED <<submitted, closed>>
  BY <1>1, CoordStays
<1>5. PType' /\ CoOK'
  BY <1>1, <1>4 DEF SInv, PType, Gone, workerVars, CoOK
<1> QED BY <1>1, <1>2, <1>3, <1>4, <1>5, CalmStep

LEMMA CrashKeeps ==
  ASSUME SInv, NEW w \in Workers, Crash(w)
  PROVE  SInv'
<1>0. /\ WType /\ Goto(w, "dead") /\ (pc[w] = "sweep" \/ Holding(w)) /\ UNCHANGED msgs
      /\ UNCHANGED <<coordVars, chaos, spawned, initial, co, runErr, reaped>>
  BY DEF Crash, Alive, SInv
<1>1. CoordStep /\ UNCHANGED <<submitted, closed>>
  BY <1>0, CoordStays
<1>2. WType' /\ OnlyWorker(w) /\ pc'[w] = "dead" /\ d'[w] = d[w] /\ triage'[w] = triage[w]
  BY <1>0, Gotos DEF Labels
<1>3. pc[w] \notin {"absent", "exited", "dead"} /\ ~Holding(w)'
  BY <1>0, <1>2 DEF Holding
<1>4. chaos' \in [Workers -> {"none", "kill", "spawn", "killed"}]
  BY <1>0 DEF SInv, PType
<1> QED BY <1>0, <1>1, <1>2, <1>3, <1>4, LocalStep

LEMMA ChaosKillKeeps ==
  ASSUME SInv, NEW w \in Workers, ChaosKill(w)
  PROVE  SInv'
<1>0. /\ WType /\ chaos[w] = "kill" /\ chaos' = [chaos EXCEPT ![w] = "spawn"] /\ UNCHANGED msgs
      /\ UNCHANGED <<coordVars, spawned, initial, co, runErr, reaped>>
  BY DEF ChaosKill, SInv
<1>1. CoordStep /\ UNCHANGED <<submitted, closed>>
  BY <1>0, CoordStays
<1>2. pc[w] # "absent"
  BY <1>0 DEF SInv, HoldsOK
<1>3. /\ chaos' \in [Workers -> {"none", "kill", "spawn", "killed"}]
      /\ \A v \in Workers \ {w} : chaos'[v] = chaos[v]
  BY <1>0 DEF SInv, PType
<1>4. CASE w \in Alive
  <2>1. Goto(w, "dead") /\ pc[w] \notin {"exited", "dead"}
    BY <1>4 DEF ChaosKill, Alive, Holding
  <2>2. WType' /\ OnlyWorker(w) /\ pc'[w] = "dead" /\ d'[w] = d[w] /\ triage'[w] = triage[w]
    BY <1>0, <2>1, Gotos DEF Labels
  <2>3. ~Holding(w)'
    BY <2>2 DEF Holding
  <2> QED BY <1>0, <1>1, <1>2, <1>3, <2>1, <2>2, <2>3, LocalStep
<1>5. CASE w \notin Alive
  <2>1. UNCHANGED <<pc, tier, d, triage>>
    BY <1>5 DEF ChaosKill, workerVars
  <2>2. WType' /\ OnlyWorker(w) /\ (Holding(w)' <=> Holding(w))
    BY <1>0, <2>1 DEF WType, OnlyWorker, Holding
  <2>3. pc[w] = "triage" => triage[w] # "none"
    BY DEF SInv, HoldsOK
  <2>4. pc[w] # "ack" /\ (triage[w] # "none" => pc[w] \in {"triage", "dead"})
    BY <1>5 DEF Alive, Holding, SInv, HoldsOK
  <2> QED BY <1>0, <1>1, <1>2, <1>3, <2>1, <2>2, <2>3, <2>4, LocalStep
<1> QED BY <1>4, <1>5

\* A worker that is started was absent.
LEMMA SpawnKeeps ==
  ASSUME SInv, Spawn, UNCHANGED <<msgs, coordVars, runErr, reaped>>,
         co' = co \/ (co = "spawning" /\ co' = "waiting"),
         initial' \in 0..Pool, co' \in {"submitting", "spawning"} => initial' < Pool,
         chaos' \in [Workers -> {"none", "kill", "spawn", "killed"}],
         \A v \in Workers : chaos[v] = "none" => chaos'[v] = "none"
  PROVE  SInv'
<1> DEFINE w == spawned + 1
<1>0. QType /\ CInv /\ WType /\ PType /\ HoldsOK /\ Acked /\ NewestLive /\ CoOK
  BY DEF SInv
<1>1. w \in Workers /\ spawned' = w /\ Goto(w, "sweep") /\ w > spawned /\ spawned \in Nat
  BY <1>0, Numbers DEF Spawn, Workers, PType
<1>2. \A v \in Workers : v > w <=> v > spawned /\ v # w
  BY <1>0, Numbers DEF Workers, PType
<1>3. pc[w] = "absent" /\ triage[w] = "none"
  BY <1>0, <1>1 DEF HoldsOK
<1> HIDE DEF w
<1>4. WType' /\ OnlyWorker(w) /\ pc'[w] = "sweep" /\ d'[w] = d[w] /\ triage'[w] = triage[w]
  BY <1>0, <1>1, Gotos DEF Labels
<1>5. CoordStep /\ UNCHANGED <<submitted, closed, outcome>>
  BY CoordStays
<1>6. CInv' /\ Onward
  BY <1>0, <1>5, CoordKeeps
<1>7. QType' /\ Bodies
  BY <1>0 DEF QType, Bodies
<1>8. NewestLive'
  BY <1>0, <1>5 DEF NewestLive, Terminal, Live
<1>9. HoldsOK'
  <2> SUFFICES ASSUME NEW v \in Workers
               PROVE  /\ Holding(v)' \/ triage'[v] # "none" => d'[v].m \in DOMAIN msgs' /\ d'[v].rc >= 1
                      /\ pc'[v] = "triage" => triage'[v] # "none"
                      /\ triage'[v] # "none" => pc'[v] \in {"triage", "dead"}
                      /\ v > spawned' <=> pc'[v] = "absent"
                      /\ pc'[v] = "absent" => chaos'[v] = "none"
    BY DEF HoldsOK
  <2>1. CASE v = w
    BY <1>1, <1>2, <1>3, <1>4, <2>1 DEF Holding
  <2>2. CASE v # w
    <3>1. pc'[v] = pc[v] /\ d'[v] = d[v] /\ triage'[v] = triage[v]
      BY <1>4, <2>2 DEF OnlyWorker
    <3>2. v > spawned' <=> v > spawned
      BY <1>1, <1>2, <2>2
    <3> QED BY <1>0, <3>1, <3>2 DEF HoldsOK, Holding
  <2> QED BY <2>1, <2>2
<1>10. Acked'
  <2>1. \A v \in Workers : pc'[v] = "ack" => pc[v] = "ack" /\ d'[v] = d[v]
    BY <1>4 DEF OnlyWorker
  <2> QED BY <1>0, <1>6, <1>7, <2>1, AckedStays
<1>11. PType'
  <2>0. co' \in {"submitting", "spawning", "waiting", "looking", "draining", "ok", "failed"}
    BY <1>0 DEF PType
  <2>1. Gone \subseteq Gone'
    BY <1>3, <1>4 DEF Gone, OnlyWorker
  <2>2. spawned' \in 0..MaxWorkers
    BY <1>1, Numbers DEF Workers
  <2> QED BY <1>0, <2>0, <2>1, <2>2 DEF PType
<1>12. CoOK'
  BY <1>0, <1>5 DEF CoOK
<1> QED BY <1>4, <1>6, <1>7, <1>8, <1>9, <1>10, <1>11, <1>12 DEF SInv

LEMMA ChaosSpawnKeeps ==
  ASSUME SInv, NEW w \in Workers, ChaosSpawn(w)
  PROVE  SInv'
<1>0. /\ WType /\ chaos[w] = "spawn" /\ chaos' = [chaos EXCEPT ![w] = "killed"] /\ UNCHANGED msgs
      /\ UNCHANGED <<coordVars, initial, co, runErr, reaped>>
  BY DEF ChaosSpawn, SInv
<1>1. /\ chaos' \in [Workers -> {"none", "kill", "spawn", "killed"}]
      /\ \A v \in Workers \ {w} : chaos'[v] = chaos[v]
      /\ \A v \in Workers : chaos[v] = "none" => chaos'[v] = "none"
  BY <1>0 DEF SInv, PType
<1>2. ASSUME Spawn PROVE SInv'
  <2>1. initial' \in 0..Pool /\ (co' \in {"submitting", "spawning"} => initial' < Pool)
    BY <1>0 DEF SInv, PType, CoOK
  <2> QED BY <1>0, <1>1, <1>2, <2>1, SpawnKeeps
<1>3. ASSUME UNCHANGED <<workerVars, spawned>> PROVE SInv'
  <2>1. UNCHANGED <<pc, tier, d, triage>>
    BY <1>3 DEF workerVars
  <2>2. WType' /\ OnlyWorker(w) /\ (Holding(w)' <=> Holding(w))
    BY <1>0, <2>1 DEF WType, OnlyWorker, Holding
  <2>3. /\ pc[w] # "absent" /\ (pc[w] = "triage" => triage[w] # "none")
        /\ (triage[w] # "none" => pc[w] \in {"triage", "dead"})
    BY <1>0 DEF SInv, HoldsOK
  <2>4. CoordStep /\ UNCHANGED <<submitted, closed>>
    BY <1>0, CoordStays
  <2> QED BY <1>0, <1>1, <1>3, <2>1, <2>2, <2>3, <2>4, LocalStep
<1> QED BY <1>2, <1>3 DEF ChaosSpawn

LEMMA WatchKeeps ==
  ASSUME SInv, WatchDeadLetters
  PROVE  SInv'
<1>1. UNCHANGED <<msgs, workerVars, procVars>>
  BY DEF WatchDeadLetters
<1>2. PICK S \in SUBSET {msgs[i].job : i \in {m \in DOMAIN msgs : msgs[m].st = "dlq"}} :
        DeadLettered(S)
  BY DEF WatchDeadLetters
<1>3. S \ Terminal \in SUBSET Jobs
  BY <1>2, MessageFields DEF SInv
<1>4. Finish(S \ Terminal, "dead_lettered", "DeadLettered")
  BY <1>2 DEF DeadLettered
<1>5. CoordStep
  BY <1>3, <1>4 DEF CoordStep, Ends
<1>6. UNCHANGED <<submitted, closed>>
  BY <1>4 DEF Finish
<1>7. UNCHANGED <<chaos, spawned, initial, co, runErr, reaped>>
  BY <1>1, ProcStays
<1>8. QType' /\ Bodies /\ DOMAIN msgs' = DOMAIN msgs
  BY <1>1 DEF SInv, QType, Bodies
<1>9. \A i \in DOMAIN msgs : Live(i) => msgs'[i].st \in {"visible", "inflight", "dlq"}
  BY <1>1 DEF Live
<1>10. PType' /\ CoOK'
  BY <1>1, <1>6, <1>7 DEF SInv, PType, Gone, workerVars, CoOK
<1> QED BY <1>1, <1>5, <1>6, <1>7, <1>8, <1>9, <1>10, CalmStep

\* Submit registers the job before it sends its message; a failed Send ends the run.
LEMMA SubmitKeeps ==
  ASSUME SInv, NEW j \in Jobs, CoSubmit(j)
  PROVE  SInv'
<1>0. /\ QType /\ CInv /\ WType /\ PType /\ HoldsOK /\ Acked /\ NewestLive /\ CoOK
      /\ co = "submitting" /\ j \in Workload /\ Register(j)
      /\ UNCHANGED <<workerVars, chaos, spawned, initial, runErr, reaped>>
  BY DEF CoSubmit, SInv
<1>1. UNCHANGED <<pc, tier, d, triage>>
  BY <1>0 DEF workerVars
<1>2. submitted' = submitted \cup {j} /\ UNCHANGED <<outcome, closed>>
  BY <1>0 DEF Register
<1>3. CInv' /\ Onward
  BY <1>0, CoordKeeps DEF CoordStep
<1>4. WType'
  BY <1>0, <1>1 DEF WType
<1>5. ASSUME QType', Bodies, NewestLive', co' \in {co, "failed"} PROVE SInv'
  <2>1. HoldsOK'
    BY <1>0, <1>1, <1>5 DEF HoldsOK, Holding, Bodies
  <2>2. Acked'
    BY <1>0, <1>1, <1>3, <1>5, AckedStays
  <2>3. PType'
    BY <1>0, <1>1, <1>5 DEF PType, Gone
  <2>4. CoOK'
    BY <1>0, <1>2, <1>5 DEF CoOK
  <2> QED BY <1>3, <1>4, <1>5, <2>1, <2>2, <2>3, <2>4 DEF SInv
<1>6. ASSUME Send(j, 0, Inject[j]), co' = co PROVE SInv'
  <2> DEFINE n == Len(msgs) + 1
  <2>1. /\ QType' /\ DOMAIN msgs' = DOMAIN msgs \cup {n} /\ Bodies
        /\ Len(msgs) \in Nat /\ \A k \in DOMAIN msgs : k < n /\ msgs'[k] = msgs[k]
        /\ msgs'[n].job = j /\ msgs'[n].st = "visible"
    BY <1>0, <1>6, Tables, Sends
  <2> HIDE DEF n
  <2>2. n \in Nat /\ DOMAIN msgs \subseteq Nat
    BY <1>0, <2>1, MessageFields DEF n
  <2>3. NewestLive'
    <3> SUFFICES ASSUME NEW k \in submitted' \ Terminal'
                 PROVE  \E i \in DOMAIN msgs' :
                          /\ msgs'[i].job = k /\ Live(i)'
                          /\ \A l \in DOMAIN msgs' : l > i => msgs'[l].job # k
      BY DEF NewestLive
    <3>1. CASE k = j
      <4>1. \A l \in DOMAIN msgs' : ~(l > n)
        BY <2>1, <2>2
      <4> QED BY <2>1, <3>1, <4>1 DEF Live
    <3>2. CASE k # j
      <4>0. k \in submitted \ Terminal
        BY <1>2, <3>2 DEF Terminal
      <4>1. PICK i \in DOMAIN msgs : /\ msgs[i].job = k /\ Live(i)
                                     /\ \A l \in DOMAIN msgs : l > i => msgs[l].job # k
        BY <1>0, <4>0 DEF NewestLive
      <4>2. i \in DOMAIN msgs' /\ msgs'[i] = msgs[i]
        BY <2>1
      <4>3. \A l \in DOMAIN msgs' : l > i => msgs'[l].job # k
        BY <2>1, <3>2, <4>1
      <4> QED BY <4>1, <4>2, <4>3 DEF Live
    <3> QED BY <3>1, <3>2
  <2> QED BY <1>5, <1>6, <2>1, <2>3
<1>7. ASSUME co' = "failed", UNCHANGED msgs PROVE SInv'
  <2>1. QType' /\ Bodies /\ NewestLive'
    BY <1>0, <1>7 DEF QType, Bodies, NewestLive
  <2> QED BY <1>5, <1>7, <2>1
<1> QED BY <1>6, <1>7 DEF CoSubmit

LEMMA CloseKeeps ==
  ASSUME SInv, CoClose
  PROVE  SInv'
<1>0. /\ co = "submitting" /\ co' = "spawning" /\ submitted = Workload /\ CloseSubmissions
      /\ UNCHANGED <<msgs, workerVars, chaos, spawned, initial, runErr, reaped>>
  BY DEF CoClose
<1>1. CoordStep /\ closed' /\ UNCHANGED submitted
  BY <1>0 DEF CoordStep, CloseSubmissions
<1>2. QType' /\ Bodies /\ DOMAIN msgs' = DOMAIN msgs
  BY <1>0 DEF SInv, QType, Bodies
<1>3. \A i \in DOMAIN msgs : Live(i) => msgs'[i].st \in {"visible", "inflight", "dlq"}
  BY <1>0 DEF Live
<1>4. PType'
  BY <1>0 DEF SInv, PType, Gone, workerVars
<1>5. CoOK'
  BY <1>0, <1>1 DEF SInv, CoOK
<1> QED BY <1>0, <1>1, <1>2, <1>3, <1>4, <1>5, CalmStep

LEMMA CoSpawnKeeps ==
  ASSUME SInv, CoSpawn
  PROVE  SInv'
<1>0. /\ co = "spawning" /\ UNCHANGED <<msgs, coordVars, chaos, runErr, reaped>>
      /\ chaos' \in [Workers -> {"none", "kill", "spawn", "killed"}] /\ chaos' = chaos
  BY DEF CoSpawn, SInv, PType
<1>1. initial \in Nat /\ initial < Pool /\ Pool \in Nat
  BY <1>0, Numbers DEF SInv, PType, CoOK
<1>2. ASSUME Spawn, initial' = initial + 1,
             co' = (IF initial' = Pool THEN "waiting" ELSE co) PROVE SInv'
  <2>1. initial' \in 0..Pool /\ (co' \in {"submitting", "spawning"} => initial' < Pool)
    BY <1>1, <1>2
  <2>2. co' = co \/ (co = "spawning" /\ co' = "waiting")
    BY <1>0, <1>2
  <2> QED BY <1>0, <1>2, <2>1, <2>2, SpawnKeeps
<1>3. ASSUME co' = "failed", UNCHANGED <<workerVars, spawned, initial>> PROVE SInv'
  <2>1. CoordStep /\ UNCHANGED <<submitted, closed>>
    BY <1>0, CoordStays
  <2>2. QType' /\ Bodies /\ DOMAIN msgs' = DOMAIN msgs
    BY <1>0 DEF SInv, QType, Bodies
  <2>3. \A i \in DOMAIN msgs : Live(i) => msgs'[i].st \in {"visible", "inflight", "dlq"}
    BY <1>0 DEF Live
  <2>4. PType'
    BY <1>0, <1>3 DEF SInv, PType, Gone, workerVars
  <2>5. CoOK'
    BY <1>3, <2>1 DEF SInv, CoOK
  <2> QED BY <1>0, <1>3, <2>1, <2>2, <2>3, <2>4, <2>5, CalmStep
<1> QED BY <1>2, <1>3 DEF CoSpawn

\* The select loop, the look around, and the return.
LEMMA WaitKeeps ==
  ASSUME SInv, CoDone \/ CoLook \/ CoFinish \/ \E w \in Workers : CoExit(w)
  PROVE  SInv'
<1>0. runErr \in BOOLEAN /\ reaped \subseteq Gone
  BY DEF SInv, PType
<1>1. ASSUME CoDone PROVE SInv'
  BY <1>0, <1>1, CoMove DEF CoDone
<1>2. ASSUME CoLook PROVE SInv'
  BY <1>0, <1>2, CoMove DEF CoLook
<1>3. ASSUME CoFinish PROVE SInv'
  BY <1>0, <1>3, CoMove DEF CoFinish
<1>4. ASSUME NEW w \in Workers, CoExit(w) PROVE SInv'
  <2>1. chaos[w] \in {"none", "kill", "spawn", "killed"} /\ done \in BOOLEAN
    BY DEF SInv, PType, CInv, CType
  <2>2. co' \in {"waiting", "draining", "looking"}
    BY <1>4, <2>1 DEF CoExit
  <2>3. /\ co = "waiting" /\ reaped' \subseteq Gone /\ runErr' = runErr
        /\ UNCHANGED <<msgs, coordVars, workerVars, chaos, spawned, initial>>
    BY <1>0, <1>4 DEF CoExit
  <2> QED BY <1>0, <2>2, <2>3, CoMove
<1> QED BY <1>1, <1>2, <1>3, <1>4

LEMMA DrainKillKeeps ==
  ASSUME SInv, CoDrainKill
  PROVE  SInv'
<1>0. /\ QType /\ CInv /\ WType /\ PType /\ HoldsOK /\ Acked /\ NewestLive /\ CoOK
      /\ pc' = [w \in Workers |-> IF w \in Alive THEN "dead" ELSE pc[w]]
      /\ UNCHANGED <<msgs, coordVars, tier, d, triage, procVars>>
  BY DEF CoDrainKill, SInv
<1>1. CoordStep /\ UNCHANGED <<submitted, outcome, closed>>
  BY <1>0, CoordStays
<1>2. UNCHANGED <<chaos, spawned, initial, co, runErr, reaped>>
  BY <1>0, ProcStays
<1>3. CInv' /\ Onward
  BY <1>0, <1>1, CoordKeeps
<1>4. QType' /\ Bodies
  BY <1>0 DEF QType, Bodies
<1>5. WType'
  BY <1>0 DEF WType, Labels
<1>6. \A w \in Workers : \/ pc'[w] = pc[w] /\ ~Holding(w)
                         \/ pc'[w] = "dead" /\ pc[w] \notin {"absent", "dead", "exited"}
  BY <1>0 DEF Alive, Holding
<1>7. HoldsOK'
  BY <1>0, <1>2, <1>6 DEF HoldsOK, Holding
<1>8. Acked'
  BY <1>6 DEF Acked, Holding
<1>9. NewestLive'
  BY <1>0, <1>1, <1>2 DEF NewestLive, Terminal, Live
<1>10. PType'
  <2>1. Gone \subseteq Gone'
    BY <1>6 DEF Gone
  <2> QED BY <1>0, <1>2, <2>1 DEF PType
<1>11. CoOK'
  BY <1>0, <1>1, <1>2 DEF CoOK
<1> QED BY <1>3, <1>4, <1>5, <1>7, <1>8, <1>9, <1>10, <1>11 DEF SInv

LEMMA StutterKeeps ==
  ASSUME SInv, UNCHANGED vars
  PROVE  SInv'
<1>1. /\ UNCHANGED <<msgs, coordVars, workerVars, chaos, spawned, initial, co, runErr, reaped>>
      /\ UNCHANGED <<pc, tier, d, triage>>
  BY DEF vars, procVars, workerVars
<1>2. CoordStep /\ UNCHANGED <<submitted, closed>>
  BY <1>1, CoordStays
<1>3. QType' /\ Bodies /\ DOMAIN msgs' = DOMAIN msgs
  BY <1>1 DEF SInv, QType, Bodies
<1>4. \A i \in DOMAIN msgs : Live(i) => msgs'[i].st \in {"visible", "inflight", "dlq"}
  BY <1>1 DEF Live
<1>5. PType' /\ CoOK'
  BY <1>1, <1>2 DEF SInv, PType, Gone, CoOK
<1> QED BY <1>1, <1>2, <1>3, <1>4, <1>5, CalmStep

-----------------------------------------------------------------------------
(* The theorems *)

LEMMA InitSInv == SQSInit => SInv
<1> SUFFICES ASSUME SQSInit PROVE SInv
  OBVIOUS
<1>1. QType
  BY Tables DEF SQSInit, QType
<1>2. CType
  BY DEF SQSInit, CoordInit, CType
<1>3. CountedOnce
  <2>1. Cardinality({}) = 0
    BY FS_EmptySet
  <2>2. \A o \in Outcomes : {j \in Jobs : outcome[j] = o} = {}
    BY DEF SQSInit, CoordInit, Outcomes
  <2>3. /\ {j \in Jobs : outcome[j] = "completed"} = {}
        /\ {j \in Jobs : outcome[j] = "escalated"} = {}
        /\ {j \in Jobs : outcome[j] = "dead_lettered"} = {}
    BY <2>2 DEF Outcomes
  <2> QED BY <2>1, <2>3 DEF SQSInit, CoordInit, CountedOnce
<1>4. WType
  <2>1. NoDelivery \in Deliveries
    BY DEF NoDelivery, Deliveries
  <2> QED BY <2>1, Numbers DEF SQSInit, WType, Labels
<1>5. PType
  <2>1. 0 \in 0..MaxWorkers /\ 0 \in 0..Pool
    BY Numbers
  <2>2. chaos \in [Workers -> {"none", "kill", "spawn", "killed"}]
    BY DEF SQSInit
  <2> QED BY <2>1, <2>2 DEF SQSInit, PType
<1>6. HoldsOK /\ Acked
  BY DEF SQSInit, HoldsOK, Holding, Acked, Workers
<1>7. NewestLive /\ CoOK
  BY Numbers DEF SQSInit, CoordInit, NewestLive, CoOK
<1> QED BY <1>1, <1>2, <1>3, <1>4, <1>5, <1>6, <1>7 DEF SInv, CInv

LEMMA NextSInv == SInv /\ [SQSNext]_vars => SInv'
<1> SUFFICES ASSUME SInv, [SQSNext]_vars PROVE SInv'
  OBVIOUS
<1>1. ASSUME CoStep PROVE SInv'
  BY <1>1, SubmitKeeps, CloseKeeps, CoSpawnKeeps, WaitKeeps, DrainKillKeeps DEF CoStep
<1>2. ASSUME NEW w \in Workers, WorkerStep(w) PROVE SInv'
  BY <1>2, ReceiveKeeps, PollKeeps, StartJobKeeps, ReportKeeps, ReleaseKeeps, ResendKeeps, AckKeeps
     DEF WorkerStep
<1>3. ASSUME NEW w \in Workers, FinishTriage(w) \/ Crash(w) \/ ChaosKill(w) \/ ChaosSpawn(w)
      PROVE  SInv'
  BY <1>3, FinishTriageKeeps, CrashKeeps, ChaosKillKeeps, ChaosSpawnKeeps
<1>4. ASSUME UNCHANGED vars PROVE SInv'
  BY <1>4, StutterKeeps
<1> QED BY <1>1, <1>2, <1>3, <1>4, WatchKeeps, TimeoutKeeps DEF SQSNext, Returned

\* SInv holds in every reachable state, whatever an earlier run left in the queues.
THEOREM SQSInductive == SQSSafety => []SInv
BY InitSInv, NextSInv, PTL DEF SQSSafety

\* The variables of coordinator, workers and queues keep their types: in particular a
\* worker's exit is received once and only after it is gone.
THEOREM SQSTypeCorrect == SQSSafety => []SQSTypeOK
<1>1. SInv => SQSTypeOK
  BY TypeParts DEF SInv, CInv
<1> QED BY <1>1, SQSInductive, PTL

\* At-least-once: a registered job without an outcome always has a message that can
\* still be received or dead-lettered, for any number of crashes, timeouts and acks or
\* releases with stale receipts, and whatever was left in the queues.
THEOREM AtLeastOnce == SQSSafety => []NoJobLost
<1>1. SInv => NoJobLost
  BY DEF SInv, NewestLive, NoJobLost
<1> QED BY <1>1, SQSInductive, PTL

\* However often a job is delivered, run and reported, the coordinator's counters count
\* it once, under the outcome it keeps.
THEOREM CompletionIsIdempotent == SQSSafety => []CountedOnce
<1>1. SInv => CountedOnce
  BY DEF SInv, CInv
<1> QED BY <1>1, SQSInductive, PTL

-----------------------------------------------------------------------------
(* Why a run fails: receipts and exits when nobody dies or is too slow *)

\* Nobody died but by the chaos goroutine, no Send failed and nobody was too slow.
Quiet == faults = 0 /\ stalls = 0

Counts == faults \in 0..MaxFaults /\ spawnFails \in 0..MaxSpawnFails /\ stalls \in 0..MaxStalls

\* A worker that holds a delivery is then the only one, and its receipt is good.
ReceiptsOK ==
  Quiet => \A w \in Workers : Holding(w) =>
    /\ msgs[d[w].m].st = "inflight" /\ msgs[d[w].m].rc = d[w].rc
    /\ \A v \in Workers : Holding(v) /\ d[v].m = d[w].m => v = w

\* A worker is gone because it was told that all is done, or was killed on purpose.
Excused(w) ==
  /\ pc[w] = "exited" => done
  /\ pc[w] = "dead" => done \/ chaos[w] \in {"spawn", "killed"}
  /\ chaos[w] = "kill" => pc[w] = "stall" \/ done

\* So the coordinator never has a reason to look whether everybody is gone.
ExitsOK == Quiet => co # "looking" /\ ~runErr /\ \A w \in Workers : Excused(w)

\* How the coordinator got to where it is.
ReturnsOK ==
  /\ co = "draining" => done \/ runErr
  /\ co = "ok" => done
  /\ runErr => co \in {"draining", "failed"}
  /\ co = "failed" => faults + spawnFails + stalls > 0

FInv == SInv /\ Counts /\ ReceiptsOK /\ ExitsOK /\ ReturnsOK

\* Every step is a critical section of the coordinator or leaves its books alone.
LEMMA NextCoord ==
  ASSUME SInv, [SQSNext]_vars
  PROVE  CoordStep
<1>1. ASSUME NEW j \in Jobs, CoSubmit(j) PROVE CoordStep
  BY <1>1 DEF CoSubmit, CoordStep
<1>2. ASSUME CoClose PROVE CoordStep
  BY <1>2 DEF CoClose, CoordStep
<1>3. ASSUME NEW w \in Workers, StartJob(w) PROVE CoordStep
  <2>1. Holding(w)
    BY <1>3 DEF StartJob, Holding
  <2>2. Job(w) \in Jobs /\ d[w].rc \in Nat
    BY <2>1, HeldMessage
  <2> QED BY <1>3, <2>2 DEF StartJob, CoordStep
<1>4. ASSUME NEW w \in Workers, Report(w) PROVE CoordStep
  <2>1. Holding(w)
    BY <1>4 DEF Report, Holding
  <2>2. Job(w) \in Jobs /\ {Job(w)} \in SUBSET Jobs
    BY <2>1, HeldMessage
  <2> QED BY <1>4, <2>2 DEF Report, ReportSuccess, CoordStep, Ends
<1>5. ASSUME NEW w \in Workers, FinishTriage(w) PROVE CoordStep
  <2>1. Job(w) \in Jobs /\ {Job(w)} \in SUBSET Jobs
    BY <1>5, HeldMessage DEF FinishTriage
  <2>2. ASSUME ReportEscalate(Job(w)) PROVE CoordStep
    BY <2>1, <2>2 DEF ReportEscalate, CoordStep, Ends
  <2> QED BY <1>5, <2>1, <2>2 DEF FinishTriage, CoordStep
<1>6. ASSUME WatchDeadLetters PROVE CoordStep
  <2>1. PICK S \in SUBSET {msgs[i].job : i \in {m \in DOMAIN msgs : msgs[m].st = "dlq"}} :
          DeadLettered(S)
    BY <1>6 DEF WatchDeadLetters
  <2>2. S \ Terminal \in SUBSET Jobs
    BY <2>1, MessageFields DEF SInv
  <2> QED BY <2>1, <2>2 DEF DeadLettered, CoordStep, Ends
<1>7. ASSUME \/ CoSpawn \/ CoDone \/ CoLook \/ CoDrainKill \/ CoFinish \/ UNCHANGED vars
             \/ \E w \in Workers : CoExit(w) \/ Receive(w) \/ PollRedrives(w) \/ PollEmpty(w)
             \/ \E w \in Workers : AskStatus(w) \/ ReleaseMessage(w) \/ Resend(w) \/ AckMessage(w)
             \/ \E w \in Workers : Crash(w) \/ ChaosKill(w) \/ ChaosSpawn(w)
             \/ \E i \in DOMAIN msgs : Timeout(i)
      PROVE  CoordStep
  <2>1. UNCHANGED coordVars
    BY <1>7 DEF CoSpawn, CoDone, CoLook, CoDrainKill, CoFinish, vars, CoExit, Receive, PollRedrives,
         PollEmpty, AskStatus, ReleaseMessage, Resend, AckMessage, Crash, ChaosKill, ChaosSpawn, Timeout
  <2> QED BY <2>1 DEF CoordStep
<1> QED BY <1>1, <1>2, <1>3, <1>4, <1>5, <1>6, <1>7 DEF SQSNext, CoStep, WorkerStep, Returned

LEMMA MoreFaults ==
  \A a, b, c, x, y, z \in Nat :
    x >= a /\ y >= b /\ z >= c /\ a + b + c > 0 => x + y + z > 0
OBVIOUS

\* Worker w moves, under the same counts of faults or more.
LEMMA FStep ==
  ASSUME FInv, SInv', Onward, NEW w \in Workers, OnlyWorker(w), runErr' = runErr, Counts',
         co' = co \/ (co = "spawning" /\ co' = "waiting"),
         faults' >= faults, spawnFails' >= spawnFails, stalls' >= stalls,
         Quiet' => \A v \in Workers \ {w} :
                      /\ chaos'[v] = chaos[v] \/ (chaos[v] = "spawn" /\ chaos'[v] = "killed")
                      /\ Holding(v) => /\ msgs'[d[v].m].st = msgs[d[v].m].st
                                       /\ msgs'[d[v].m].rc = msgs[d[v].m].rc,
         Quiet' /\ Holding(w)' =>
           /\ msgs'[d'[w].m].st = "inflight" /\ msgs'[d'[w].m].rc = d'[w].rc
           /\ \A v \in Workers \ {w} : Holding(v) => d[v].m # d'[w].m,
         Quiet' => Excused(w)'
  PROVE  FInv'
<1>0. SInv /\ Counts /\ ReceiptsOK /\ ExitsOK /\ ReturnsOK
  BY DEF FInv
<1>1. Quiet' => Quiet
  BY <1>0 DEF Quiet, Counts
<1>2. (done => done') /\ \A v \in Workers \ {w} : Holding(v)' <=> Holding(v)
  BY DEF Onward, OnlyWorker, Holding
<1>3. ReceiptsOK'
  <2> SUFFICES ASSUME Quiet', NEW u \in Workers, Holding(u)'
               PROVE  /\ msgs'[d'[u].m].st = "inflight" /\ msgs'[d'[u].m].rc = d'[u].rc
                      /\ \A v \in Workers : Holding(v)' /\ d'[v].m = d'[u].m => v = u
    BY DEF ReceiptsOK
  <2>1. CASE u = w
    BY <1>2, <2>1 DEF OnlyWorker
  <2>2. CASE u # w
    <3>1. Holding(u) /\ d'[u] = d[u]
      BY <1>2, <2>2 DEF OnlyWorker
    <3>2. /\ msgs[d[u].m].st = "inflight" /\ msgs[d[u].m].rc = d[u].rc
          /\ \A v \in Workers : Holding(v) /\ d[v].m = d[u].m => v = u
      BY <1>0, <1>1, <3>1 DEF ReceiptsOK
    <3>3. \A v \in Workers : Holding(v)' /\ d'[v].m = d'[u].m => v = u
      BY <1>2, <2>2, <3>1, <3>2 DEF OnlyWorker
    <3> QED BY <2>2, <3>1, <3>2, <3>3
  <2> QED BY <2>1, <2>2
<1>4. ExitsOK'
  <2> SUFFICES ASSUME Quiet'
               PROVE  co' # "looking" /\ ~runErr' /\ \A v \in Workers : Excused(v)'
    BY DEF ExitsOK
  <2>1. co # "looking" /\ ~runErr /\ \A v \in Workers : Excused(v)
    BY <1>0, <1>1 DEF ExitsOK
  <2>2. ASSUME NEW v \in Workers \ {w} PROVE Excused(v)'
    BY <1>2, <2>1, <2>2 DEF Excused, OnlyWorker
  <2> QED BY <2>1, <2>2
<1>5. ReturnsOK'
  <2>1. faults + spawnFails + stalls > 0 => faults' + spawnFails' + stalls' > 0
    <3>1. /\ faults \in Nat /\ spawnFails \in Nat /\ stalls \in Nat
          /\ faults' \in Nat /\ spawnFails' \in Nat /\ stalls' \in Nat
      BY <1>0, Numbers DEF Counts
    <3> QED BY <3>1, MoreFaults
  <2> QED BY <1>0, <1>2, <2>1 DEF ReturnsOK
<1> QED BY <1>3, <1>4, <1>5 DEF FInv

\* The usual case: no fault, and the processes stay as they are.
LEMMA FLocal ==
  ASSUME FInv, SInv', Onward, NEW w \in Workers, OnlyWorker(w),
         UNCHANGED <<co, runErr, faults, spawnFails, stalls>>,
         \A v \in Workers \ {w} : chaos'[v] = chaos[v],
         Quiet => \A v \in Workers \ {w} :
                    Holding(v) => /\ msgs'[d[v].m].st = msgs[d[v].m].st
                                  /\ msgs'[d[v].m].rc = msgs[d[v].m].rc,
         Quiet /\ Holding(w)' =>
           \/ /\ Holding(w) /\ d'[w] = d[w]
              /\ msgs'[d[w].m].st = msgs[d[w].m].st /\ msgs'[d[w].m].rc = msgs[d[w].m].rc
           \/ /\ msgs'[d'[w].m].st = "inflight" /\ msgs'[d'[w].m].rc = d'[w].rc
              /\ \A v \in Workers \ {w} : Holding(v) => d[v].m # d'[w].m,
         Quiet => Excused(w)'
  PROVE  FInv'
<1>0. Counts' /\ (Quiet' => Quiet) /\ faults' >= faults /\ spawnFails' >= spawnFails /\ stalls' >= stalls
  BY Numbers DEF FInv, Counts, Quiet
<1>1. Quiet /\ Holding(w) =>
           /\ msgs[d[w].m].st = "inflight" /\ msgs[d[w].m].rc = d[w].rc
           /\ \A v \in Workers \ {w} : Holding(v) => d[v].m # d[w].m
  BY DEF FInv, ReceiptsOK
<1> QED BY <1>0, <1>1, FStep

\* No worker moves.
LEMMA FCalm ==
  ASSUME FInv, SInv', Onward, UNCHANGED <<pc, d, chaos>>, Counts', Quiet' => Quiet,
         Quiet' => \A v \in Workers : Holding(v) => /\ msgs'[d[v].m].st = msgs[d[v].m].st
                                                    /\ msgs'[d[v].m].rc = msgs[d[v].m].rc,
         Quiet' => co' # "looking" /\ ~runErr',
         ReturnsOK'
  PROVE  FInv'
<1>0. ReceiptsOK /\ ExitsOK
  BY DEF FInv
<1>1. ReceiptsOK'
  BY <1>0 DEF ReceiptsOK, Holding
<1>2. ExitsOK'
  BY <1>0 DEF ExitsOK, Excused, Onward
<1> QED BY <1>1, <1>2 DEF FInv

\* Nobody holds a message that can be received.
LEMMA VisibleIsFree ==
  ASSUME FInv, Quiet, NEW i, msgs[i].st = "visible", NEW v \in Workers, Holding(v)
  PROVE  d[v].m # i
BY DEF FInv, ReceiptsOK

LEMMA FReceive ==
  ASSUME FInv, SInv', Onward, NEW w \in Workers, Receive(w)
  PROVE  FInv'
<1>0. SInv /\ QType /\ WType /\ pc[w] = "sweep"
  BY DEF Receive, FInv, SInv
<1>1. PICK i \in DOMAIN msgs :
        /\ msgs[i].st = "visible" /\ Deliver(i)
        /\ d' = [d EXCEPT ![w] = [m |-> i, rc |-> msgs[i].rc + 1, lapsed |-> msgs[i].lapsed]]
  BY DEF Receive, Visible
<1>2. pc' = [pc EXCEPT ![w] = "got"] /\ UNCHANGED <<tier, triage, procVars>>
  BY DEF Receive
<1>3. /\ msgs'[i].st = "inflight" /\ msgs'[i].rc = msgs[i].rc + 1
      /\ \A k \in DOMAIN msgs : k # i => msgs'[k] = msgs[k]
  BY <1>0, <1>1, Delivers
<1>4. OnlyWorker(w) /\ pc'[w] = "got" /\ d'[w].m = i /\ d'[w].rc = msgs[i].rc + 1
  BY <1>0, <1>1, <1>2 DEF WType, OnlyWorker
<1>5. Quiet => \A v \in Workers : Holding(v) => d[v].m # i /\ d[v].m \in DOMAIN msgs
  BY <1>0, <1>1, VisibleIsFree, HeldMessage
<1>6. UNCHANGED <<chaos, co, runErr, faults, spawnFails, stalls>>
  BY <1>0, <1>2, ProcStays
<1>7. Quiet => Excused(w)'
  <2>1. Quiet => Excused(w)
    BY DEF FInv, ExitsOK
  <2> QED BY <1>0, <1>4, <1>6, <2>1 DEF Excused, Onward
<1> QED BY <1>3, <1>4, <1>5, <1>6, <1>7, FLocal

LEMMA FPoll ==
  ASSUME FInv, SInv', Onward, NEW w \in Workers, PollRedrives(w) \/ PollEmpty(w) \/ AskStatus(w)
  PROVE  FInv'
<1>0. /\ SInv /\ QType /\ WType /\ pc[w] = "sweep" /\ UNCHANGED <<coordVars, procVars>>
  BY DEF PollRedrives, PollEmpty, AskStatus, FInv, SInv
<1>1. /\ UNCHANGED <<chaos, co, runErr, faults, spawnFails, stalls>> /\ UNCHANGED done
  BY <1>0, ProcStays, CoordStays
<1>2. OnlyWorker(w) /\ (pc'[w] = "sweep" \/ (pc'[w] = "exited" /\ done))
  <2>1. ASSUME PollRedrives(w) \/ PollEmpty(w) PROVE OnlyWorker(w) /\ pc'[w] = "sweep"
    BY <1>0, <2>1 DEF PollRedrives, PollEmpty, workerVars, OnlyWorker
  <2>2. ASSUME AskStatus(w) PROVE OnlyWorker(w) /\ (pc'[w] = "sweep" \/ (pc'[w] = "exited" /\ done))
    <3>1. (Goto(w, "exited") /\ done) \/ Loop(w)
      BY <2>2 DEF AskStatus
    <3> QED BY <1>0, <3>1, Gotos, Loops DEF Labels
  <2> QED BY <2>1, <2>2
<1>3. ~Holding(w)'
  BY <1>2 DEF Holding
<1>4. Quiet => Excused(w)'
  <2>1. Quiet => Excused(w)
    BY DEF FInv, ExitsOK
  <2> QED BY <1>0, <1>1, <1>2, <2>1 DEF Excused
<1>5. Quiet => \A v \in Workers \ {w} : Holding(v) => msgs'[d[v].m] = msgs[d[v].m]
  <2>1. ASSUME PollEmpty(w) \/ AskStatus(w) PROVE UNCHANGED msgs
    BY <2>1 DEF PollEmpty, AskStatus
  <2>2. ASSUME PollRedrives(w), Quiet, NEW v \in Workers \ {w}, Holding(v)
        PROVE  msgs'[d[v].m] = msgs[d[v].m]
    <3>1. PICK i \in DOMAIN msgs : Redrive(i)
      BY <2>2 DEF PollRedrives, Visible
    <3>2. msgs[i].st = "visible" /\ msgs' = [msgs EXCEPT ![i].st = "dlq"]
      BY <3>1 DEF Redrive
    <3>3. d[v].m # i /\ d[v].m \in DOMAIN msgs
      BY <1>0, <2>2, <3>2, VisibleIsFree, HeldMessage
    <3>4. \A k \in DOMAIN msgs : k # i => msgs'[k] = msgs[k]
      BY <1>0, <3>2, Restates
    <3> QED BY <3>3, <3>4
  <2> QED BY <2>1, <2>2
<1> QED BY <1>1, <1>2, <1>3, <1>4, <1>5, FLocal

\* Steps of a holder, or of its call, that leave the messages alone.
LEMMA FHolder ==
  ASSUME FInv, SInv', Onward, NEW w \in Workers, StartJob(w) \/ Report(w) \/ FinishTriage(w)
  PROVE  FInv'
<1>0. SInv /\ WType /\ pc[w] \notin {"absent", "sweep", "exited"} /\ UNCHANGED msgs
  BY DEF StartJob, Report, FinishTriage, FInv, SInv, HoldsOK
<1>1. UNCHANGED <<co, runErr, faults, spawnFails, stalls>> /\ \A v \in Workers \ {w} : chaos'[v] = chaos[v]
  <2>1. ASSUME StartJob(w)
        PROVE  /\ UNCHANGED <<co, runErr, faults, spawnFails, stalls>>
               /\ \A v \in Workers \ {w} : chaos'[v] = chaos[v]
    BY <1>0, <2>1 DEF StartJob, SInv, PType
  <2>2. ASSUME Report(w) \/ FinishTriage(w)
        PROVE  UNCHANGED <<co, runErr, faults, spawnFails, stalls, chaos>>
    BY <1>0, <2>2, ProcStays DEF Report, FinishTriage
  <2> QED BY <2>1, <2>2
<1>2. /\ OnlyWorker(w) /\ d'[w] = d[w] /\ (Holding(w)' => Holding(w))
      /\ pc[w] = "dead" => pc'[w] = "dead" /\ chaos'[w] = chaos[w]
      /\ pc[w] # "dead" => pc[w] # "stall" /\ pc'[w] # "dead"
      /\ pc'[w] # "exited"
      /\ chaos'[w] = chaos[w] \/ pc'[w] = "stall"
  <2>1. ASSUME StartJob(w)
        PROVE /\ OnlyWorker(w) /\ d'[w] = d[w] /\ pc[w] = "got"
              /\ pc'[w] \in {"ack", "stall", "run"} /\ (chaos'[w] = chaos[w] \/ pc'[w] = "stall")
    <3>1. ASSUME Goto(w, "ack"), UNCHANGED chaos
          PROVE OnlyWorker(w) /\ d'[w] = d[w] /\ pc'[w] = "ack" /\ chaos'[w] = chaos[w]
      BY <1>0, <3>1, Gotos DEF Labels
    <3>2. ASSUME Stalls(w), Goto(w, "stall") PROVE OnlyWorker(w) /\ d'[w] = d[w] /\ pc'[w] = "stall"
      BY <1>0, <3>2, Gotos DEF Labels
    <3>3. ASSUME ~Stalls(w), Goto(w, "run"), UNCHANGED chaos
          PROVE  OnlyWorker(w) /\ d'[w] = d[w] /\ pc'[w] = "run" /\ chaos'[w] = chaos[w]
      BY <1>0, <3>3, Gotos DEF Labels
    <3> QED BY <2>1, <3>1, <3>2, <3>3 DEF StartJob
  <2>2. ASSUME Report(w)
        PROVE OnlyWorker(w) /\ d'[w] = d[w] /\ pc[w] = "run" /\ pc'[w] \in {"ack", "triage"} /\ chaos' = chaos
    <3>1. ASSUME Goto(w, "ack") PROVE OnlyWorker(w) /\ d'[w] = d[w] /\ pc'[w] = "ack"
      BY <1>0, <3>1, Gotos DEF Labels
    <3>2. ASSUME NEW r, pc' = [pc EXCEPT ![w] = "triage"], triage' = [triage EXCEPT ![w] = r],
                 UNCHANGED d
          PROVE  OnlyWorker(w) /\ d'[w] = d[w] /\ pc'[w] = "triage"
      BY <1>0, <3>2 DEF WType, OnlyWorker
    <3> QED BY <2>2, <3>1, <3>2 DEF Report, procVars
  <2>3. ASSUME FinishTriage(w)
        PROVE /\ OnlyWorker(w) /\ d'[w] = d[w] /\ pc[w] \in {"triage", "dead"} /\ chaos' = chaos
              /\ IF pc[w] = "triage" THEN pc'[w] \in {"ack", "release", "resend"} ELSE pc'[w] = pc[w]
    <3>1. pc[w] \in {"triage", "dead"} /\ chaos' = chaos
      BY <1>0, <2>3 DEF FinishTriage, SInv, HoldsOK, procVars
    <3>2. PICK l \in {"ack", "release", "resend"} : Decided(w, l)
      BY <2>3 DEF FinishTriage
    <3> QED BY <1>0, <3>1, <3>2, Decideds DEF Labels
  <2> QED BY <2>1, <2>2, <2>3 DEF Holding
<1>3. Quiet => Excused(w)'
  <2>1. Quiet => Excused(w)
    BY DEF FInv, ExitsOK
  <2> QED BY <1>0, <1>2, <2>1 DEF Excused, Onward
<1> QED BY <1>0, <1>1, <1>2, <1>3, FLocal

\* A worker that returns its delivery had a good receipt.
LEMMA FReturn ==
  ASSUME FInv, SInv', Onward, NEW w \in Workers, ReleaseMessage(w) \/ AckMessage(w)
  PROVE  FInv'
<1>0. /\ SInv /\ QType /\ WType /\ Holding(w) /\ pc[w] # "stall" /\ UNCHANGED <<coordVars, procVars>>
  BY DEF ReleaseMessage, AckMessage, FInv, SInv, Holding
<1>1. UNCHANGED <<chaos, co, runErr, faults, spawnFails, stalls, done>>
  BY <1>0, ProcStays, CoordStays
<1>2. Quiet => ~StaleReceipt(d[w])
  BY <1>0 DEF FInv, ReceiptsOK, StaleReceipt
<1>3. OnlyWorker(w) /\ pc'[w] \in {"sweep", "dead"} /\ (Quiet => pc'[w] = "sweep")
  <2>1. Loop(w) \/ (Goto(w, "dead") /\ StaleReceipt(d[w]))
    BY DEF ReleaseMessage, AckMessage
  <2> QED BY <1>0, <1>2, <2>1, Gotos, Loops DEF Labels
<1>4. ~Holding(w)'
  BY <1>3 DEF Holding
<1>5. Quiet => Excused(w)'
  <2>1. Quiet => Excused(w)
    BY DEF FInv, ExitsOK
  <2> QED BY <1>0, <1>1, <1>3, <2>1 DEF Excused
<1>6. Quiet => \A v \in Workers \ {w} : Holding(v) => msgs'[d[v].m] = msgs[d[v].m]
  <2> SUFFICES ASSUME Quiet, NEW v \in Workers \ {w}, Holding(v) PROVE msgs'[d[v].m] = msgs[d[v].m]
    OBVIOUS
  <2>1. d[w].m \in DOMAIN msgs /\ d[v].m \in DOMAIN msgs
    BY <1>0, HeldMessage
  <2>2. d[v].m # d[w].m
    BY <1>0 DEF FInv, ReceiptsOK
  <2>3. \/ msgs' = msgs
        \/ msgs' = [msgs EXCEPT ![d[w].m].st = "visible", ![d[w].m].lapsed = FALSE]
        \/ msgs' = [msgs EXCEPT ![d[w].m].st = "deleted"]
    BY DEF ReleaseMessage, AckMessage, Release, Ack
  <2> QED BY <1>0, <2>1, <2>2, <2>3, Reappears, Restates
<1> QED BY <1>1, <1>3, <1>4, <1>5, <1>6, FLocal

LEMMA FResend ==
  ASSUME FInv, SInv', Onward, NEW w \in Workers, Resend(w)
  PROVE  FInv'
<1>0. /\ SInv /\ QType /\ WType /\ pc[w] = "resend" /\ Holding(w) /\ UNCHANGED procVars
      /\ Send(Job(w), Attempt(w), "none") /\ Goto(w, "ack")
  BY DEF Resend, FInv, SInv, Holding
<1>1. UNCHANGED <<chaos, co, runErr, faults, spawnFails, stalls>>
  BY <1>0, ProcStays
<1>2. OnlyWorker(w) /\ pc'[w] = "ack" /\ d'[w] = d[w]
  BY <1>0, Gotos DEF Labels
<1>3. Job(w) \in Jobs /\ Attempt(w) \in Nat
  BY <1>0, HeldMessage
<1>4. \A k \in DOMAIN msgs : msgs'[k] = msgs[k]
  BY <1>0, <1>3, Sends DEF Injections
<1>5. \A v \in Workers : Holding(v) => msgs'[d[v].m] = msgs[d[v].m]
  BY <1>0, <1>4, HeldMessage
<1>6. Quiet => Excused(w)'
  <2>1. Quiet => Excused(w)
    BY DEF FInv, ExitsOK
  <2> QED BY <1>0, <1>1, <1>2, <2>1 DEF Excused, Onward
<1> QED BY <1>0, <1>1, <1>2, <1>5, <1>6, FLocal

LEMMA FCrash ==
  ASSUME FInv, SInv', Onward, NEW w \in Workers, Crash(w)
  PROVE  FInv'
<1>0. /\ SInv /\ WType /\ Goto(w, "dead") /\ faults < MaxFaults /\ faults' = faults + 1
      /\ UNCHANGED <<msgs, chaos, co, runErr, spawnFails, stalls>>
  BY DEF Crash, FInv, SInv
<1>1. OnlyWorker(w)
  BY <1>0, Gotos DEF Labels
<1>2. Counts' /\ faults' >= faults /\ spawnFails' >= spawnFails /\ stalls' >= stalls /\ ~Quiet'
  BY <1>0, Numbers DEF FInv, Counts, Quiet
<1> QED BY <1>0, <1>1, <1>2, FStep

LEMMA FChaosKill ==
  ASSUME FInv, SInv', Onward, NEW w \in Workers, ChaosKill(w)
  PROVE  FInv'
<1>0. /\ SInv /\ WType /\ chaos[w] = "kill" /\ chaos' = [chaos EXCEPT ![w] = "spawn"]
      /\ UNCHANGED <<msgs, co, runErr, faults, spawnFails, stalls>>
  BY DEF ChaosKill, FInv, SInv
<1>1. OnlyWorker(w) /\ ~Holding(w)' /\ (pc'[w] = "exited" => pc[w] = "exited")
  <2>1. CASE w \in Alive
    <3>1. Goto(w, "dead")
      BY <2>1 DEF ChaosKill
    <3> QED BY <1>0, <3>1, Gotos DEF Labels, Holding
  <2>2. CASE w \notin Alive
    BY <2>2 DEF ChaosKill, Alive, workerVars, OnlyWorker, Holding
  <2> QED BY <2>1, <2>2
<1>2. chaos'[w] = "spawn" /\ \A v \in Workers \ {w} : chaos'[v] = chaos[v]
  BY <1>0 DEF SInv, PType
<1>3. Quiet => Excused(w)'
  <2>1. Quiet => Excused(w)
    BY DEF FInv, ExitsOK
  <2> QED BY <1>1, <1>2, <2>1 DEF Excused, Onward
<1> QED BY <1>0, <1>1, <1>2, <1>3, FLocal

LEMMA FSpawn ==
  ASSUME FInv, SInv', Onward, Spawn, UNCHANGED <<msgs, runErr, faults, spawnFails, stalls>>,
         co' = co \/ (co = "spawning" /\ co' = "waiting"),
         chaos' = chaos \/ \E v \in Workers : chaos[v] = "spawn" /\ chaos' = [chaos EXCEPT ![v] = "killed"]
  PROVE  FInv'
<1>0. SInv /\ WType /\ PType /\ HoldsOK
  BY DEF FInv, SInv
<1>10. spawned + 1 \in Workers
  BY <1>0, Numbers DEF Spawn, Workers, PType
<1>11. PICK w \in Workers : w = spawned + 1
  BY <1>10
<1>1. Goto(w, "sweep") /\ w > spawned
  BY <1>0, <1>11, Numbers DEF Spawn, Workers, PType
<1>2. pc[w] = "absent" /\ chaos[w] = "none"
  BY <1>0, <1>1 DEF HoldsOK
<1>3. OnlyWorker(w) /\ pc'[w] = "sweep" /\ ~Holding(w)'
  BY <1>0, <1>1, Gotos DEF Labels, Holding
<1>4. /\ \A v \in Workers : chaos'[v] = chaos[v] \/ (chaos[v] = "spawn" /\ chaos'[v] = "killed")
      /\ chaos'[w] = "none"
  BY <1>0, <1>1, <1>2 DEF PType
<1>5. Excused(w)'
  BY <1>3, <1>4 DEF Excused
<1>6. Counts' /\ (Quiet' => Quiet) /\ faults' >= faults /\ spawnFails' >= spawnFails /\ stalls' >= stalls
  BY Numbers DEF FInv, Counts, Quiet
<1> QED BY <1>1, <1>3, <1>4, <1>5, <1>6, FStep

LEMMA FChaosSpawn ==
  ASSUME FInv, SInv', Onward, NEW w \in Workers, ChaosSpawn(w)
  PROVE  FInv'
<1>0. /\ SInv /\ chaos[w] = "spawn" /\ chaos' = [chaos EXCEPT ![w] = "killed"] /\ UNCHANGED msgs
      /\ UNCHANGED <<co, runErr, faults, stalls>>
  BY DEF ChaosSpawn, FInv
<1>1. ASSUME Spawn, UNCHANGED spawnFails PROVE FInv'
  BY <1>0, <1>1, FSpawn
<1>2. ASSUME spawnFails < MaxSpawnFails, spawnFails' = spawnFails + 1, UNCHANGED workerVars PROVE FInv'
  <2>1. UNCHANGED <<pc, d, triage>> /\ OnlyWorker(w) /\ (Holding(w)' <=> Holding(w))
    BY <1>2 DEF workerVars, OnlyWorker, Holding
  <2>2. chaos'[w] = "killed" /\ \A v \in Workers \ {w} : chaos'[v] = chaos[v]
    BY <1>0 DEF SInv, PType
  <2>3. Counts' /\ (Quiet' => Quiet) /\ faults' >= faults /\ spawnFails' >= spawnFails /\ stalls' >= stalls
    BY <1>0, <1>2, Numbers DEF FInv, Counts, Quiet
  <2>4. Quiet => Excused(w)'
    <3>1. Quiet => Excused(w)
      BY DEF FInv, ExitsOK
    <3> QED BY <2>1, <2>2, <3>1 DEF Excused, Onward
  <2>5. Quiet /\ Holding(w) =>
           /\ msgs[d[w].m].st = "inflight" /\ msgs[d[w].m].rc = d[w].rc
           /\ \A v \in Workers \ {w} : Holding(v) => d[v].m # d[w].m
    BY DEF FInv, ReceiptsOK
  <2> QED BY <1>0, <2>1, <2>2, <2>3, <2>4, <2>5, FStep
<1> QED BY <1>1, <1>2 DEF ChaosSpawn

LEMMA FCoSpawn ==
  ASSUME FInv, SInv', Onward, CoSpawn
  PROVE  FInv'
<1>0. co = "spawning" /\ UNCHANGED <<msgs, chaos, runErr, faults, stalls>> /\ Counts /\ ReturnsOK
  BY DEF CoSpawn, FInv
<1>1. ASSUME Spawn, co' = (IF initial' = Pool THEN "waiting" ELSE co), UNCHANGED spawnFails PROVE FInv'
  BY <1>0, <1>1, FSpawn
<1>2. ASSUME spawnFails < MaxSpawnFails, spawnFails' = spawnFails + 1, co' = "failed",
             UNCHANGED workerVars
      PROVE  FInv'
  <2>1. Counts' /\ (Quiet' => Quiet) /\ faults' + spawnFails' + stalls' > 0
    BY <1>0, <1>2, Numbers DEF Counts, Quiet
  <2>2. UNCHANGED <<pc, d>>
    BY <1>2 DEF workerVars
  <2>3. ReturnsOK'
    BY <1>0, <1>2, <2>1 DEF ReturnsOK
  <2>4. Quiet => ~runErr
    BY DEF FInv, ExitsOK
  <2> QED BY <1>0, <1>2, <2>1, <2>2, <2>3, <2>4, FCalm
<1> QED BY <1>1, <1>2 DEF CoSpawn

\* A delivery that times out under its holder is counted.
LEMMA FTimeout ==
  ASSUME FInv, SInv', Onward, NEW i \in DOMAIN msgs, Timeout(i)
  PROVE  FInv'
<1>0. /\ SInv /\ QType /\ Counts /\ ReturnsOK /\ msgs' = [msgs EXCEPT ![i].st = "visible", ![i].lapsed = TRUE]
      /\ UNCHANGED <<workerVars, chaos, co, runErr, faults, spawnFails>>
  BY DEF Timeout, Expire, FInv, SInv
<1>1. Counts' /\ stalls' >= stalls /\ (Quiet' => Quiet /\ ~Held(i))
  <2>1. CASE Held(i)
    <3>1. stalls < MaxStalls /\ stalls' = stalls + 1
      BY <2>1 DEF Timeout
    <3> QED BY <1>0, <3>1, Numbers DEF Counts, Quiet
  <2>2. CASE ~Held(i)
    <3>1. stalls' = stalls
      BY <2>2 DEF Timeout
    <3> QED BY <1>0, <2>2, <3>1, Numbers DEF Counts, Quiet
  <2> QED BY <2>1, <2>2
<1>2. Quiet' => \A v \in Workers : Holding(v) => msgs'[d[v].m] = msgs[d[v].m]
  <2> SUFFICES ASSUME Quiet', NEW v \in Workers, Holding(v) PROVE msgs'[d[v].m] = msgs[d[v].m]
    OBVIOUS
  <2>1. msgs[d[v].m].rc = d[v].rc
    BY <1>1 DEF FInv, ReceiptsOK
  <2>2. d[v].m # i
    BY <1>1, <2>1 DEF Held
  <2>3. d[v].m \in DOMAIN msgs
    BY <1>0, HeldMessage
  <2> QED BY <1>0, <2>2, <2>3, Reappears
<1>3. UNCHANGED <<pc, d>>
  BY <1>0 DEF workerVars
<1>4. ReturnsOK'
  <2>1. /\ faults \in Nat /\ spawnFails \in Nat /\ stalls \in Nat
        /\ faults' \in Nat /\ spawnFails' \in Nat /\ stalls' \in Nat
        /\ faults' >= faults /\ spawnFails' >= spawnFails
    BY <1>0, <1>1, Numbers DEF Counts
  <2>2. faults + spawnFails + stalls > 0 => faults' + spawnFails' + stalls' > 0
    BY <1>1, <2>1, MoreFaults
  <2> QED BY <1>0, <2>2 DEF ReturnsOK, Onward
<1>5. Quiet => co # "looking" /\ ~runErr
  BY DEF FInv, ExitsOK
<1> QED BY <1>0, <1>1, <1>2, <1>3, <1>4, <1>5, FCalm

LEMMA FSubmit ==
  ASSUME FInv, SInv', Onward, NEW j \in Jobs, CoSubmit(j)
  PROVE  FInv'
<1>0. /\ SInv /\ QType /\ Counts /\ ReturnsOK /\ co = "submitting" /\ j \in Workload
      /\ UNCHANGED <<workerVars, chaos, runErr, spawnFails, stalls>>
  BY DEF CoSubmit, FInv, SInv
<1>1. UNCHANGED <<pc, d>>
  BY <1>0 DEF workerVars
<1>2. Quiet => ~runErr
  BY DEF FInv, ExitsOK
<1>3. ASSUME Send(j, 0, Inject[j]), UNCHANGED <<co, faults>> PROVE FInv'
  <2>1. \A k \in DOMAIN msgs : msgs'[k] = msgs[k]
    BY <1>0, <1>3, Tables, Sends
  <2>2. \A v \in Workers : Holding(v) => msgs'[d[v].m] = msgs[d[v].m]
    BY <1>0, <2>1, HeldMessage
  <2>3. Counts' /\ (Quiet' => Quiet) /\ ReturnsOK'
    BY <1>0, <1>3 DEF Counts, Quiet, ReturnsOK
  <2> QED BY <1>0, <1>1, <1>2, <1>3, <2>2, <2>3, FCalm
<1>4. ASSUME faults < MaxFaults, faults' = faults + 1, co' = "failed", UNCHANGED msgs PROVE FInv'
  <2>1. Counts' /\ ~Quiet' /\ faults' + spawnFails' + stalls' > 0
    BY <1>0, <1>4, Numbers DEF Counts, Quiet
  <2>2. ReturnsOK'
    BY <1>4, <2>1 DEF ReturnsOK
  <2> QED BY <1>0, <1>1, <1>4, <2>1, <2>2, FCalm
<1> QED BY <1>3, <1>4 DEF CoSubmit

\* The coordinator moves between its loops, or learns of dead letters.
LEMMA FCo ==
  ASSUME FInv, SInv', Onward,
         \/ CoClose \/ CoDone \/ CoLook \/ CoFinish \/ WatchDeadLetters \/ UNCHANGED vars
         \/ \E w \in Workers : CoExit(w)
  PROVE  FInv'
<1>0. SInv /\ Counts /\ ReturnsOK /\ ExitsOK /\ WType
  BY DEF FInv, SInv
<1>1. UNCHANGED <<msgs, workerVars, chaos, faults, spawnFails, stalls>>
  BY DEF CoClose, CoDone, CoLook, CoFinish, WatchDeadLetters, CoExit, vars, procVars
<1>2. UNCHANGED <<pc, d>> /\ Counts' /\ (Quiet' <=> Quiet)
  BY <1>0, <1>1 DEF workerVars, Counts, Quiet
<1>3. ASSUME Quiet' => co' # "looking" /\ ~runErr', ReturnsOK' PROVE FInv'
  BY <1>1, <1>2, <1>3, FCalm
<1>4. ASSUME CoClose PROVE FInv'
  BY <1>0, <1>1, <1>2, <1>3, <1>4 DEF CoClose, ExitsOK, ReturnsOK
<1>5. ASSUME CoDone PROVE FInv'
  BY <1>0, <1>1, <1>2, <1>3, <1>5 DEF CoDone, ExitsOK, ReturnsOK, Onward
<1>6. ASSUME CoLook PROVE FInv'
  BY <1>0, <1>1, <1>2, <1>3, <1>6 DEF CoLook, ExitsOK, ReturnsOK
<1>7. ASSUME CoFinish PROVE FInv'
  <2>1. runErr => faults + spawnFails + stalls > 0
    <3>1. /\ faults \in Nat /\ spawnFails \in Nat /\ stalls \in Nat
      BY <1>0, Numbers DEF Counts
    <3>2. runErr => faults # 0 \/ stalls # 0
      BY <1>0 DEF ExitsOK, Quiet
    <3> QED BY <3>1, <3>2
  <2>2. /\ co = "draining" /\ co' = (IF runErr THEN "failed" ELSE "ok") /\ UNCHANGED <<runErr, done>>
    BY <1>7 DEF CoFinish, coordVars
  <2>3. runErr \in BOOLEAN
    BY <1>0 DEF SInv, PType
  <2>4. ReturnsOK'
    BY <1>0, <1>1, <2>1, <2>2, <2>3 DEF ReturnsOK
  <2>5. Quiet' => co' # "looking" /\ ~runErr'
    BY <1>0, <1>2, <2>2 DEF ExitsOK
  <2> QED BY <1>3, <2>4, <2>5
<1>8. ASSUME WatchDeadLetters \/ UNCHANGED vars PROVE FInv'
  <2>1. UNCHANGED <<co, runErr>>
    BY <1>8 DEF WatchDeadLetters, vars, procVars
  <2> QED BY <1>0, <1>1, <1>2, <1>3, <2>1 DEF ExitsOK, ReturnsOK, Onward
<1>9. ASSUME NEW w \in Workers, CoExit(w) PROVE FInv'
  <2>1. /\ co = "waiting" /\ pc[w] \in {"exited", "dead"} /\ UNCHANGED <<runErr, done>>
        /\ co' = CASE chaos[w] \in {"spawn", "killed"} -> "waiting"
                   [] chaos[w] \in {"none", "kill"} /\ done -> "draining"
                   [] chaos[w] \in {"none", "kill"} /\ ~done -> "looking"
    BY <1>9 DEF CoExit, Gone, coordVars
  <2>2. chaos[w] \in {"none", "kill", "spawn", "killed"} /\ done \in BOOLEAN
    BY <1>0 DEF SInv, PType, CInv, CType
  <2>3. \/ co' = "waiting"
        \/ co' = "draining" /\ done
        \/ co' = "looking" /\ chaos[w] \in {"none", "kill"} /\ ~done
    BY <2>1, <2>2
  <2>4. Quiet => Excused(w) /\ ~runErr
    BY <1>0 DEF ExitsOK
  <2>5. Quiet' => co' # "looking" /\ ~runErr'
    BY <1>2, <2>1, <2>3, <2>4 DEF Excused
  <2>6. ReturnsOK'
    BY <1>0, <2>1, <2>3 DEF ReturnsOK
  <2> QED BY <1>3, <2>5, <2>6
<1> QED BY <1>4, <1>5, <1>6, <1>7, <1>8, <1>9

LEMMA FDrainKill ==
  ASSUME FInv, SInv', Onward, CoDrainKill
  PROVE  FInv'
<1>0. /\ SInv /\ Counts /\ ReturnsOK /\ ExitsOK /\ co = "draining"
      /\ pc' = [w \in Workers |-> IF w \in Alive THEN "dead" ELSE pc[w]]
      /\ UNCHANGED <<coordVars, procVars>>
  BY DEF CoDrainKill, FInv
<1>1. UNCHANGED <<chaos, co, runErr, faults, spawnFails, stalls, done>>
  BY <1>0, ProcStays, CoordStays
<1>2. Quiet => done
  BY <1>0 DEF ReturnsOK, ExitsOK
<1>3. \A w \in Workers : ~Holding(w)'
  BY <1>0 DEF Alive, Holding
<1>4. ReceiptsOK'
  BY <1>3 DEF ReceiptsOK
<1>5. ExitsOK'
  BY <1>0, <1>1, <1>2 DEF ExitsOK, Excused, Quiet
<1>6. Counts' /\ ReturnsOK'
  BY <1>0, <1>1 DEF Counts, ReturnsOK
<1> QED BY <1>4, <1>5, <1>6 DEF FInv

LEMMA InitFInv == SQSInit => FInv
<1> SUFFICES ASSUME SQSInit PROVE FInv
  OBVIOUS
<1>1. SInv
  BY InitSInv
<1>2. Counts
  BY Numbers DEF SQSInit, Counts
<1>3. ReceiptsOK
  BY DEF SQSInit, ReceiptsOK, Holding
<1>4. ExitsOK
  BY DEF SQSInit, ExitsOK, Excused
<1>5. ReturnsOK
  BY DEF SQSInit, ReturnsOK
<1> QED BY <1>1, <1>2, <1>3, <1>4, <1>5 DEF FInv

LEMMA NextFInv == FInv /\ [SQSNext]_vars => FInv'
<1> SUFFICES ASSUME FInv, [SQSNext]_vars PROVE FInv'
  OBVIOUS
<1>0. SInv /\ SInv' /\ Onward
  <2>1. SInv /\ CInv
    BY DEF FInv, SInv
  <2>2. SInv'
    BY <2>1, NextSInv
  <2>3. CoordStep
    BY <2>1, NextCoord
  <2> QED BY <2>1, <2>2, <2>3, CoordKeeps
<1>1. ASSUME CoStep PROVE FInv'
  BY <1>0, <1>1, FSubmit, FCoSpawn, FCo, FDrainKill DEF CoStep
<1>2. ASSUME NEW w \in Workers, WorkerStep(w) PROVE FInv'
  BY <1>0, <1>2, FReceive, FPoll, FHolder, FReturn, FResend DEF WorkerStep
<1>3. ASSUME NEW w \in Workers, FinishTriage(w) \/ Crash(w) \/ ChaosKill(w) \/ ChaosSpawn(w)
      PROVE  FInv'
  BY <1>0, <1>3, FHolder, FCrash, FChaosKill, FChaosSpawn
<1>4. ASSUME WatchDeadLetters \/ UNCHANGED vars PROVE FInv'
  BY <1>0, <1>4, FCo
<1>5. ASSUME NEW i \in DOMAIN msgs, Timeout(i) PROVE FInv'
  BY <1>0, <1>5, FTimeout
<1> QED BY <1>1, <1>2, <1>3, <1>4, <1>5 DEF SQSNext, Returned

\* The receipts and the exits are in order for as long as nobody dies or is too slow.
THEOREM SQSFaultInductive == SQSSafety => []FInv
BY InitFInv, NextFInv, PTL DEF SQSSafety

\* A run does not fail by itself: it takes a process that died or could not be started,
\* a failed Send, or a delivery that outlived its visibility timeout.  Poison and hanging
\* jobs, whose workers the coordinator kills itself, and leftovers do not make it fail.
THEOREM RunFailsOnlyByFault == SQSSafety => []FailureNeedsFault
<1>1. FInv => FailureNeedsFault
  BY DEF FInv, ReturnsOK, FailureNeedsFault
<1> QED BY <1>1, SQSFaultInductive, PTL

-----------------------------------------------------------------------------
(* Queues without leftovers: the coordinator implements JobBoard *)

\* Every message is of a job of this run, and a poison job stays one.
Own ==
  \A i \in DOMAIN msgs :
    /\ msgs[i].job \in submitted
    /\ msgs[i].inject \in {Inject[msgs[i].job], "none"}
    /\ Inject[msgs[i].job] = "poison" => msgs[i].inject = "poison"

\* Completion is announced exactly when every job has its outcome.
DoneOK == /\ Terminal \subseteq submitted
          /\ done <=> closed /\ submitted \subseteq Terminal

\* A poison job stalls whoever starts it, until it is dead.
Busy(w) == pc[w] \in {"run", "triage", "release", "resend"} \/ triage[w] # "none"
Poison == \A w \in Workers : Busy(w) => Msg(w).inject # "poison"
PoisonDies == \A j \in Jobs : Inject[j] = "poison" => outcome[j] \in {"none", "dead_lettered"}

OInv == SInv /\ Own /\ DoneOK /\ Poison /\ PoisonDies

\* The jobs a peek into the dead-letter queue may find.
DeadJobs == {msgs[i].job : i \in {m \in DOMAIN msgs : msgs[m].st = "dlq"}}
Healthy == {j \in submitted : Inject[j] # "poison"}

\* What the coordinator's critical sections do to the jobs of this run.
OwnCoord ==
  \/ UNCHANGED coordVars
  \/ \E j \in Jobs : Register(j)
  \/ CloseSubmissions
  \/ \E j \in Jobs, rc \in Nat : Started(j, rc)
  \/ \E j \in Jobs : \E a : ReportRetry(j, a)
  \/ \E S \in SUBSET Healthy : \/ Finish(S, "completed", "Succeeded")
                               \/ Finish(S, "escalated", "Escalated")
  \/ \E S \in SUBSET DeadJobs : Finish(S, "dead_lettered", "DeadLettered")

\* A job that is reported on is one of this run, and not poison.
LEMMA BusyIsHealthy ==
  ASSUME OInv, NEW w \in Workers, Busy(w)
  PROVE  Job(w) \in Healthy /\ Job(w) \in Jobs
<1>1. SInv /\ (Holding(w) \/ triage[w] # "none")
  BY DEF OInv, Busy, Holding
<1>2. d[w].m \in DOMAIN msgs /\ Job(w) \in Jobs /\ Job(w) = msgs[d[w].m].job /\ Msg(w) = msgs[d[w].m]
  BY <1>1, HeldMessage DEF Job
<1>3. Msg(w).inject # "poison"
  BY DEF OInv, Poison
<1> QED BY <1>2, <1>3 DEF OInv, Own, Healthy

LEMMA NextOwnCoord ==
  ASSUME OInv, [SQSNext]_vars
  PROVE  OwnCoord
<1>0. SInv
  BY DEF OInv
<1>1. ASSUME NEW j \in Jobs, CoSubmit(j) PROVE OwnCoord
  BY <1>1 DEF CoSubmit, OwnCoord
<1>2. ASSUME CoClose PROVE OwnCoord
  BY <1>2 DEF CoClose, OwnCoord
<1>3. ASSUME NEW w \in Workers, StartJob(w) PROVE OwnCoord
  <2>1. Holding(w)
    BY <1>3 DEF StartJob, Holding
  <2>2. Job(w) \in Jobs /\ d[w].rc \in Nat
    BY <1>0, <2>1, HeldMessage
  <2> QED BY <1>3, <2>2 DEF StartJob, OwnCoord
<1>4. ASSUME NEW w \in Workers, Report(w) PROVE OwnCoord
  <2>1. Busy(w)
    BY <1>4 DEF Report, Busy
  <2>2. {Job(w)} \in SUBSET Healthy
    BY <2>1, BusyIsHealthy
  <2> QED BY <1>4, <2>2 DEF Report, ReportSuccess, OwnCoord
<1>5. ASSUME NEW w \in Workers, FinishTriage(w) PROVE OwnCoord
  <2>1. Busy(w)
    BY <1>5 DEF FinishTriage, Busy
  <2>2. {Job(w)} \in SUBSET Healthy /\ Job(w) \in Jobs
    BY <2>1, BusyIsHealthy
  <2>3. ASSUME ReportEscalate(Job(w)) PROVE OwnCoord
    BY <2>2, <2>3 DEF ReportEscalate, OwnCoord
  <2> QED BY <1>5, <2>2, <2>3 DEF FinishTriage, OwnCoord
<1>6. ASSUME WatchDeadLetters PROVE OwnCoord
  <2>1. PICK S \in SUBSET DeadJobs : DeadLettered(S)
    BY <1>6 DEF WatchDeadLetters, DeadJobs
  <2>2. S \ Terminal \in SUBSET DeadJobs
    OBVIOUS
  <2> QED BY <2>1, <2>2 DEF DeadLettered, OwnCoord
<1>7. ASSUME \/ CoSpawn \/ CoDone \/ CoLook \/ CoDrainKill \/ CoFinish \/ UNCHANGED vars
             \/ \E w \in Workers : CoExit(w) \/ Receive(w) \/ PollRedrives(w) \/ PollEmpty(w)
             \/ \E w \in Workers : AskStatus(w) \/ ReleaseMessage(w) \/ Resend(w) \/ AckMessage(w)
             \/ \E w \in Workers : Crash(w) \/ ChaosKill(w) \/ ChaosSpawn(w)
             \/ \E i \in DOMAIN msgs : Timeout(i)
      PROVE  OwnCoord
  <2>1. UNCHANGED coordVars
    BY <1>7 DEF CoSpawn, CoDone, CoLook, CoDrainKill, CoFinish, vars, CoExit, Receive, PollRedrives,
         PollEmpty, AskStatus, ReleaseMessage, Resend, AckMessage, Crash, ChaosKill, ChaosSpawn, Timeout
  <2> QED BY <2>1 DEF OwnCoord
<1> QED BY <1>1, <1>2, <1>3, <1>4, <1>5, <1>6, <1>7 DEF SQSNext, CoStep, WorkerStep, Returned

\* Comparing two numbers tells maybeDoneLocked whether all jobs have an outcome.
LEMMA CountsDecide ==
  ASSUME NEW S \in SUBSET Jobs, NEW T \in SUBSET S
  PROVE  Cardinality(T) >= Cardinality(S) <=> S \subseteq T
<1>1. /\ IsFiniteSet(S) /\ IsFiniteSet(T) /\ Cardinality(S) \in Nat /\ Cardinality(T) \in Nat
  BY FiniteJobs
<1>2. Cardinality(T) <= Cardinality(S) /\ (Cardinality(S) = Cardinality(T) => S = T)
  BY <1>1, FS_Subset
<1> QED BY <1>1, <1>2

\* Every critical section is a step of the board, or is invisible to it.
LEMMA OwnCoordKeeps ==
  ASSUME CInv, CInv', Own, DoneOK, PoisonDies, OwnCoord
  PROVE  /\ DoneOK' /\ PoisonDies'
         /\ [Board!BoardNext]_Board!boardVars
<1>0. /\ submitted \subseteq Jobs /\ outcome \in [Jobs -> Outcomes \cup {"none"}]
      /\ closed \in BOOLEAN /\ done \in BOOLEAN
      /\ Terminal \subseteq submitted /\ (done <=> closed /\ submitted \subseteq Terminal)
      /\ stats'.Submitted = Cardinality(submitted')
      /\ submitted' \subseteq Jobs
  BY DEF CInv, CType, CountedOnce, DoneOK
<1>1. ASSUME UNCHANGED <<submitted, outcome, closed, done>>
      PROVE  DoneOK' /\ PoisonDies' /\ [Board!BoardNext]_Board!boardVars
  BY <1>1 DEF DoneOK, PoisonDies, Terminal, Board!boardVars
<1>2. ASSUME MaybeDone, Terminal' \subseteq submitted'
      PROVE  done' <=> done \/ (closed' /\ submitted' \subseteq Terminal')
  <2>1. Cardinality(Terminal') >= Cardinality(submitted') <=> submitted' \subseteq Terminal'
    BY <1>0, <1>2, CountsDecide
  <2>2. done' = (done \/ (closed' /\ Cardinality(Terminal') >= Cardinality(submitted')))
    BY <1>0, <1>2 DEF MaybeDone
  <2> QED BY <2>1, <2>2
<1>3. ASSUME NEW j \in Jobs, Register(j)
      PROVE  DoneOK' /\ PoisonDies' /\ [Board!BoardNext]_Board!boardVars
  <2>1. ~closed /\ j \notin submitted /\ submitted' = submitted \cup {j} /\ UNCHANGED <<outcome, closed, done>>
    BY <1>3 DEF Register
  <2>2. Board!Accept(j)
    BY <2>1 DEF Board!Accept
  <2>3. Terminal' = Terminal
    BY <2>1 DEF Terminal
  <2> QED BY <1>0, <2>1, <2>2, <2>3 DEF DoneOK, PoisonDies, Board!BoardNext
<1>4. ASSUME CloseSubmissions
      PROVE  DoneOK' /\ PoisonDies' /\ [Board!BoardNext]_Board!boardVars
  <2>1. closed' = TRUE /\ UNCHANGED <<submitted, outcome>> /\ MaybeDone /\ Terminal' = Terminal
    BY <1>4 DEF CloseSubmissions, Terminal
  <2>2. done' <=> submitted \subseteq Terminal
    BY <1>0, <1>2, <2>1
  <2>3. submitted \subseteq Terminal <=> Board!Settled(submitted, outcome)
    BY <1>0 DEF Terminal, Board!Settled
  <2>4. done' \in BOOLEAN
    BY DEF CInv, CType
  <2>5. Board!Close
    BY <2>1, <2>2, <2>3, <2>4 DEF Board!Close, Board!Settled
  <2> QED BY <1>0, <2>1, <2>2, <2>5 DEF DoneOK, PoisonDies, Board!BoardNext
<1>5. ASSUME NEW j \in Jobs, NEW rc \in Nat, Started(j, rc)
      PROVE  DoneOK' /\ PoisonDies' /\ [Board!BoardNext]_Board!boardVars
  BY <1>1, <1>5 DEF Started
<1>6. ASSUME NEW j \in Jobs, NEW a, ReportRetry(j, a)
      PROVE  DoneOK' /\ PoisonDies' /\ [Board!BoardNext]_Board!boardVars
  <2>1. UNCHANGED <<submitted, outcome, closed>> /\ MaybeDone /\ Terminal' = Terminal
    BY <1>6 DEF ReportRetry, Terminal
  <2>2. done' <=> done
    BY <1>0, <1>2, <2>1
  <2>3. done' \in BOOLEAN
    BY DEF CInv, CType
  <2>4. done' = done
    BY <1>0, <2>2, <2>3
  <2> QED BY <1>1, <2>1, <2>4
<1>7. ASSUME NEW S \in SUBSET submitted, NEW o \in Outcomes, NEW counter, Finish(S, o, counter),
             o = "dead_lettered" \/ \A j \in S : Inject[j] # "poison"
      PROVE  DoneOK' /\ PoisonDies' /\ [Board!BoardNext]_Board!boardVars
  <2>1. /\ S \cap Terminal = {} /\ UNCHANGED <<submitted, closed>> /\ MaybeDone
        /\ outcome' = [j \in Jobs |-> IF j \in S THEN o ELSE outcome[j]]
    BY <1>7 DEF Finish
  <2>2. o # "none"
    BY DEF Outcomes
  <2>3. Terminal' = Terminal \cup S
    BY <1>0, <2>1, <2>2 DEF Terminal
  <2>4. done' <=> closed /\ submitted \subseteq Terminal'
    BY <1>0, <1>2, <2>1, <2>3
  <2>5. submitted \subseteq Terminal' <=> Board!Settled(submitted, outcome')
    BY <1>0, <2>1, <2>2 DEF Terminal, Board!Settled
  <2>6. done' \in BOOLEAN
    BY DEF CInv, CType
  <2>7. S \in SUBSET Jobs /\ \A j \in S : outcome[j] = "none"
    BY <1>0, <2>1 DEF Terminal
  <2>8. done' = (closed /\ Board!Settled(submitted, outcome'))
    BY <1>0, <2>4, <2>5, <2>6 DEF Board!Settled
  <2>9. Board!Settle(S, o)
    BY <2>1, <2>7, <2>8 DEF Board!Settle
  <2>10. DoneOK'
    BY <1>0, <2>1, <2>3, <2>4 DEF DoneOK
  <2>11. PoisonDies'
    BY <1>7, <2>1 DEF PoisonDies
  <2> QED BY <2>7, <2>9, <2>10, <2>11 DEF Board!BoardNext
<1>8. ASSUME NEW S \in SUBSET Healthy,
             Finish(S, "completed", "Succeeded") \/ Finish(S, "escalated", "Escalated")
      PROVE  DoneOK' /\ PoisonDies' /\ [Board!BoardNext]_Board!boardVars
  <2>1. S \in SUBSET submitted /\ \A j \in S : Inject[j] # "poison"
    BY DEF Healthy
  <2> QED BY <1>7, <1>8, <2>1 DEF Outcomes
<1>9. ASSUME NEW S \in SUBSET DeadJobs, Finish(S, "dead_lettered", "DeadLettered")
      PROVE  DoneOK' /\ PoisonDies' /\ [Board!BoardNext]_Board!boardVars
  <2>1. S \in SUBSET submitted
    BY DEF Own, DeadJobs
  <2> QED BY <1>7, <1>9, <2>1 DEF Outcomes
<1> QED BY <1>1, <1>3, <1>4, <1>5, <1>6, <1>8, <1>9 DEF OwnCoord, coordVars

\* How a worker and its call move in a step.
Moves(v) ==
  \/ pc'[v] = pc[v] /\ d'[v] = d[v] /\ triage'[v] = triage[v]
  \/ /\ pc'[v] \in {"absent", "sweep", "got", "ack", "exited", "dead"}
     /\ triage'[v] # "none" => triage'[v] = triage[v] /\ d'[v] = d[v]
  \/ /\ pc[v] = "got" /\ d'[v] = d[v] /\ triage'[v] = triage[v]
     /\ pc'[v] = IF Stalls(v) THEN "stall" ELSE "run"
  \/ pc[v] = "run" /\ pc'[v] = "triage" /\ d'[v] = d[v]
  \/ /\ triage[v] # "none" /\ triage'[v] = "none" /\ d'[v] = d[v]
     /\ pc'[v] \in {"dead", "release", "resend"}
     /\ pc'[v] = "release" => Attempt(v) < Budget[Job(v)]

\* What Report lets pass is within the budget.
LEMMA GuardedInBudget ==
  ASSUME NEW a, NEW n \in Nat, NEW max \in Nat, Guarded(a, n, max).action = "retry"
  PROVE  n < max
BY DEF Guarded, Escalation

LEMMA NextMoves ==
  ASSUME SInv, [SQSNext]_vars, NEW v \in Workers
  PROVE  Moves(v)
<1>0. WType /\ PType /\ HoldsOK
  BY DEF SInv
<1>1. ASSUME NEW w \in Workers, OnlyWorker(w), w = v => Moves(v) PROVE Moves(v)
  BY <1>1 DEF OnlyWorker, Moves
<1>2. ASSUME UNCHANGED <<pc, d, triage>> PROVE Moves(v)
  BY <1>2 DEF Moves
<1>3. ASSUME NEW w \in Workers, NEW l \in {"sweep", "ack", "exited", "dead"}, Goto(w, l) PROVE Moves(v)
  <2>1. OnlyWorker(w) /\ pc'[w] = l /\ d'[w] = d[w] /\ triage'[w] = triage[w]
    BY <1>0, <1>3, Gotos DEF Labels
  <2> QED BY <1>1, <2>1 DEF Moves
<1>4. ASSUME NEW w \in Workers, Loop(w), triage[w] = "none" PROVE Moves(v)
  <2>1. OnlyWorker(w) /\ pc'[w] = "sweep" /\ triage'[w] = triage[w]
    BY <1>0, <1>4, Loops
  <2> QED BY <1>1, <1>4, <2>1 DEF Moves
<1>5. ASSUME NEW w \in Workers, Receive(w) PROVE Moves(v)
  <2>1. triage[w] = "none"
    BY <1>0, <1>5 DEF Receive, HoldsOK
  <2>2. OnlyWorker(w) /\ pc'[w] = "got" /\ triage'[w] = triage[w]
    BY <1>0, <1>5 DEF Receive, WType, OnlyWorker
  <2> QED BY <1>1, <2>1, <2>2 DEF Moves
<1>6. ASSUME NEW w \in Workers, PollRedrives(w) \/ PollEmpty(w) PROVE Moves(v)
  BY <1>2, <1>6 DEF PollRedrives, PollEmpty, workerVars
<1>7. ASSUME NEW w \in Workers, AskStatus(w) \/ ReleaseMessage(w) \/ AckMessage(w) PROVE Moves(v)
  <2>1. triage[w] = "none"
    BY <1>0, <1>7 DEF AskStatus, ReleaseMessage, AckMessage, HoldsOK
  <2> QED BY <1>3, <1>4, <1>7, <2>1 DEF AskStatus, ReleaseMessage, AckMessage
<1>8. ASSUME NEW w \in Workers, StartJob(w) PROVE Moves(v)
  <2>1. ASSUME Goto(w, "ack") PROVE Moves(v)
    BY <1>3, <2>1
  <2>2. ASSUME Goto(w, IF Stalls(w) THEN "stall" ELSE "run") PROVE Moves(v)
    <3>1. CASE Stalls(w)
      <4>1. OnlyWorker(w) /\ pc'[w] = "stall" /\ d'[w] = d[w] /\ triage'[w] = triage[w]
        BY <1>0, <2>2, <3>1, Gotos DEF Labels
      <4> QED BY <1>1, <1>8, <3>1, <4>1 DEF Moves, StartJob
    <3>2. CASE ~Stalls(w)
      <4>1. OnlyWorker(w) /\ pc'[w] = "run" /\ d'[w] = d[w] /\ triage'[w] = triage[w]
        BY <1>0, <2>2, <3>2, Gotos DEF Labels
      <4> QED BY <1>1, <1>8, <3>2, <4>1 DEF Moves, StartJob
    <3> QED BY <3>1, <3>2
  <2> QED BY <1>8, <2>1, <2>2 DEF StartJob
<1>9. ASSUME NEW w \in Workers, Report(w) PROVE Moves(v)
  <2>1. ASSUME NEW r, pc' = [pc EXCEPT ![w] = "triage"], triage' = [triage EXCEPT ![w] = r],
               UNCHANGED d
        PROVE  Moves(v)
    <3>1. OnlyWorker(w) /\ d'[w] = d[w] /\ pc'[w] = "triage" /\ pc[w] = "run"
      BY <1>0, <1>9, <2>1 DEF WType, OnlyWorker, Report
    <3> QED BY <1>1, <3>1 DEF Moves
  <2> QED BY <1>3, <1>9, <2>1 DEF Report
<1>10. ASSUME NEW w \in Workers, FinishTriage(w) PROVE Moves(v)
  <2>1. triage[w] # "none" /\ pc[w] \in {"triage", "dead"}
    BY <1>0, <1>10 DEF FinishTriage, HoldsOK
  <2>2. Attempt(w) \in Nat /\ Budget[Job(w)] \in Nat
    BY <2>1, HeldMessage
  <2>3. ASSUME NEW l \in {"ack", "release", "resend"}, Decided(w, l),
               l = "release" => Attempt(w) < Budget[Job(w)]
        PROVE  Moves(v)
    <3>1. /\ OnlyWorker(w) /\ d'[w] = d[w] /\ triage'[w] = "none"
          /\ pc'[w] = IF pc[w] = "triage" THEN l ELSE pc[w]
      BY <1>0, <2>3, Decideds DEF Labels
    <3>2. CASE l = "ack"
      BY <1>1, <2>1, <3>1, <3>2 DEF Moves
    <3>3. CASE l # "ack"
      BY <1>1, <2>1, <2>3, <3>1, <3>3 DEF Moves
    <3> QED BY <3>2, <3>3
  <2>4. ASSUME NEW a, LET g == Guarded(a, Attempt(w), Budget[Job(w)])
                      IN  Decided(w, IF g.action = "retry" THEN "release" ELSE "resend")
        PROVE  Moves(v)
    <3> DEFINE g == Guarded(a, Attempt(w), Budget[Job(w)])
    <3>1. CASE g.action = "retry"
      <4>1. Attempt(w) < Budget[Job(w)]
        BY <2>2, <3>1, GuardedInBudget
      <4> QED BY <2>3, <2>4, <3>1, <4>1
    <3>2. CASE g.action # "retry"
      BY <2>3, <2>4, <3>2
    <3> QED BY <3>1, <3>2
  <2>5. ASSUME Decided(w, "ack") PROVE Moves(v)
    BY <2>3, <2>5
  <2>6. \/ Decided(w, "ack")
        \/ \E a : LET g == Guarded(a, Attempt(w), Budget[Job(w)])
                  IN  Decided(w, IF g.action = "retry" THEN "release" ELSE "resend")
    BY <1>10 DEF FinishTriage
  <2> QED BY <2>4, <2>5, <2>6
<1>11. ASSUME NEW w \in Workers, Resend(w) \/ Crash(w) PROVE Moves(v)
  BY <1>3, <1>11 DEF Resend, Crash
<1>12. ASSUME NEW w \in Workers, ChaosKill(w) PROVE Moves(v)
  BY <1>2, <1>3, <1>12 DEF ChaosKill, workerVars
<1>13. ASSUME CoSpawn \/ \E w \in Workers : ChaosSpawn(w) PROVE Moves(v)
  <2>1. ASSUME Spawn PROVE Moves(v)
    <3>1. spawned + 1 \in Workers /\ Goto(spawned + 1, "sweep")
      BY <1>0, <2>1, Numbers DEF Spawn, Workers, PType
    <3> QED BY <1>3, <3>1
  <2>2. ASSUME UNCHANGED workerVars PROVE Moves(v)
    BY <1>2, <2>2 DEF workerVars
  <2> QED BY <1>13, <2>1, <2>2 DEF CoSpawn, ChaosSpawn
<1>14. ASSUME CoDrainKill PROVE Moves(v)
  BY <1>0, <1>14 DEF CoDrainKill, Moves
<1>15. ASSUME \/ CoClose \/ CoDone \/ CoLook \/ CoFinish \/ WatchDeadLetters \/ UNCHANGED vars
              \/ \E w \in Workers : CoExit(w)
              \/ \E j \in Jobs : CoSubmit(j)
              \/ \E i \in DOMAIN msgs : Timeout(i)
       PROVE  Moves(v)
  <2>1. UNCHANGED workerVars
    BY <1>15 DEF CoClose, CoDone, CoLook, CoFinish, WatchDeadLetters, vars, CoExit, CoSubmit, Timeout
  <2> QED BY <1>2, <2>1 DEF workerVars
<1> QED BY <1>5, <1>6, <1>7, <1>8, <1>9, <1>10, <1>11, <1>12, <1>13, <1>14, <1>15
     DEF SQSNext, CoStep, WorkerStep, Returned

\* Messages are sent by Submit and by a worker that resends; nothing else is new.
LEMMA NextMsgs ==
  ASSUME SInv, [SQSNext]_vars
  PROVE  /\ Bodies
         /\ \/ DOMAIN msgs' = DOMAIN msgs
            \/ \E j \in Jobs : CoSubmit(j) /\ Send(j, 0, Inject[j])
            \/ \E w \in Workers : Resend(w)
<1> DEFINE Same == Bodies /\ DOMAIN msgs' = DOMAIN msgs
<1>0. QType
  BY DEF SInv
<1>1. ASSUME UNCHANGED msgs PROVE Same
  BY <1>1 DEF Bodies
<1>2. ASSUME NEW i \in DOMAIN msgs, Deliver(i) PROVE Same
  BY <1>0, <1>2, Delivers
<1>3. ASSUME NEW i \in DOMAIN msgs, NEW st \in {"visible", "inflight", "deleted", "dlq"},
             msgs' = [msgs EXCEPT ![i].st = st] PROVE Same
  BY <1>0, <1>3, Restates
<1>4. ASSUME NEW i \in DOMAIN msgs, NEW b \in BOOLEAN,
             msgs' = [msgs EXCEPT ![i].st = "visible", ![i].lapsed = b] PROVE Same
  BY <1>0, <1>4, Reappears
<1>5. ASSUME NEW w \in Workers, Receive(w) \/ PollRedrives(w) PROVE Same
  <2>1. PICK i \in DOMAIN msgs : Deliver(i) \/ Redrive(i)
    BY <1>5 DEF Receive, PollRedrives, Visible
  <2> QED BY <1>2, <1>3, <2>1 DEF Redrive
<1>6. ASSUME NEW w \in Workers, ReleaseMessage(w) \/ AckMessage(w) PROVE Same
  <2>1. Holding(w)
    BY <1>6 DEF ReleaseMessage, AckMessage, Holding
  <2>2. d[w].m \in DOMAIN msgs
    BY <2>1, HeldMessage
  <2>3. \/ msgs' = msgs
        \/ msgs' = [msgs EXCEPT ![d[w].m].st = "visible", ![d[w].m].lapsed = FALSE]
        \/ msgs' = [msgs EXCEPT ![d[w].m].st = "deleted"]
    BY <1>6 DEF ReleaseMessage, AckMessage, Release, Ack
  <2> QED BY <1>1, <1>3, <1>4, <2>2, <2>3
<1>7. ASSUME NEW i \in DOMAIN msgs, Timeout(i) PROVE Same
  BY <1>4, <1>7 DEF Timeout, Expire
<1>8. ASSUME NEW j \in Jobs, CoSubmit(j)
      PROVE  Same \/ (Bodies /\ Send(j, 0, Inject[j]))
  <2>1. ASSUME Send(j, 0, Inject[j]) PROVE Bodies
    BY <1>0, <2>1, Tables, Sends
  <2> QED BY <1>1, <1>8, <2>1 DEF CoSubmit
<1>9. ASSUME NEW w \in Workers, Resend(w) PROVE Bodies
  <2>1. Holding(w) /\ Send(Job(w), Attempt(w), "none")
    BY <1>9 DEF Resend, Holding
  <2>2. Job(w) \in Jobs /\ Attempt(w) \in Nat
    BY <2>1, HeldMessage
  <2> QED BY <1>0, <2>1, <2>2, Sends DEF Injections
<1>10. ASSUME \/ CoClose \/ CoSpawn \/ CoDone \/ CoLook \/ CoDrainKill \/ CoFinish
              \/ WatchDeadLetters \/ UNCHANGED vars
              \/ \E w \in Workers : CoExit(w) \/ PollEmpty(w) \/ AskStatus(w) \/ StartJob(w) \/ Report(w)
              \/ \E w \in Workers : FinishTriage(w) \/ Crash(w) \/ ChaosKill(w) \/ ChaosSpawn(w)
       PROVE  Same
  <2>1. UNCHANGED msgs
    BY <1>10 DEF CoClose, CoSpawn, CoDone, CoLook, CoDrainKill, CoFinish, WatchDeadLetters, vars, CoExit,
         PollEmpty, AskStatus, StartJob, Report, FinishTriage, Crash, ChaosKill, ChaosSpawn
  <2> QED BY <1>1, <2>1
<1> HIDE DEF Same
<1>11. Same => Bodies /\ DOMAIN msgs' = DOMAIN msgs
  BY DEF Same
<1> QED BY <1>5, <1>6, <1>7, <1>8, <1>9, <1>10, <1>11 DEF SQSNext, CoStep, WorkerStep, Returned

LEMMA NextOInv == OInv /\ [SQSNext]_vars => OInv' /\ [Board!BoardNext]_Board!boardVars
<1> SUFFICES ASSUME OInv, [SQSNext]_vars PROVE OInv' /\ [Board!BoardNext]_Board!boardVars
  OBVIOUS
<1>0. SInv /\ SInv' /\ QType /\ CInv /\ CInv' /\ Own /\ DoneOK /\ PoisonDies
  BY NextSInv DEF OInv, SInv
<1>1. Onward
  <2>1. CoordStep
    BY <1>0, NextCoord
  <2> QED BY <1>0, <2>1, CoordKeeps
<1>2. DoneOK' /\ PoisonDies' /\ [Board!BoardNext]_Board!boardVars
  BY <1>0, NextOwnCoord, OwnCoordKeeps
<1>3. Bodies
  BY <1>0, NextMsgs
<1>4. Own'
  <2>1. ASSUME NEW i \in DOMAIN msgs
        PROVE  /\ msgs'[i].job \in submitted'
               /\ msgs'[i].inject \in {Inject[msgs'[i].job], "none"}
               /\ Inject[msgs'[i].job] = "poison" => msgs'[i].inject = "poison"
    BY <1>0, <1>1, <1>3 DEF Own, Bodies, Onward
  <2>2. ASSUME DOMAIN msgs' = DOMAIN msgs PROVE Own'
    BY <2>1, <2>2 DEF Own
  <2>3. ASSUME NEW j \in Jobs, CoSubmit(j), Send(j, 0, Inject[j]) PROVE Own'
    <3>1. /\ DOMAIN msgs' = DOMAIN msgs \cup {Len(msgs) + 1}
          /\ msgs'[Len(msgs) + 1].job = j /\ msgs'[Len(msgs) + 1].inject = Inject[j]
      <4>1. QType /\ Inject[j] \in Injections /\ 0 \in Nat /\ Send(j, 0, Inject[j])
        BY <1>0, <2>3, Tables
      <4> QED BY <4>1, Sends
    <3>2. j \in submitted'
      BY <2>3 DEF CoSubmit, Register
    <3> QED BY <2>1, <3>1, <3>2 DEF Own
  <2>4. ASSUME NEW w \in Workers, Resend(w) PROVE Own'
    <3>1. Holding(w) /\ Busy(w) /\ Send(Job(w), Attempt(w), "none")
      BY <2>4 DEF Resend, Holding, Busy
    <3>2. Job(w) \in Jobs /\ Attempt(w) \in Nat /\ Job(w) \in Healthy
      BY <1>0, <3>1, HeldMessage, BusyIsHealthy
    <3>3. /\ DOMAIN msgs' = DOMAIN msgs \cup {Len(msgs) + 1}
          /\ msgs'[Len(msgs) + 1].job = Job(w) /\ msgs'[Len(msgs) + 1].inject = "none"
      BY <1>0, <3>1, <3>2, Sends DEF Injections
    <3>4. Job(w) \in submitted' /\ Inject[Job(w)] # "poison"
      BY <1>1, <3>2 DEF Healthy, Onward
    <3> QED BY <2>1, <3>3, <3>4 DEF Own
  <2> QED BY <1>0, <2>2, <2>3, <2>4, NextMsgs
<1>5. Poison'
  <2> SUFFICES ASSUME NEW v \in Workers, Busy(v)' PROVE msgs'[d'[v].m].inject # "poison"
    BY DEF Poison, Msg
  <2>1. Moves(v)
    BY <1>0, NextMoves
  <2>2. triage[v] # "none" => pc[v] \in {"triage", "dead"}
    BY <1>0 DEF SInv, HoldsOK
  <2>3. d'[v] = d[v] /\ (Busy(v) \/ (pc[v] = "got" /\ ~Stalls(v)))
    BY <2>1, <2>2 DEF Moves, Busy
  <2>4. d[v].m \in DOMAIN msgs /\ Msg(v) = msgs[d[v].m]
    <3>1. Holding(v) \/ triage[v] # "none"
      BY <2>3 DEF Busy, Holding
    <3> QED BY <1>0, <3>1, HeldMessage
  <2>5. Msg(v).inject # "poison"
    BY <2>3 DEF OInv, Poison, Stalls
  <2> QED BY <1>3, <2>3, <2>4, <2>5 DEF Bodies
<1> QED BY <1>0, <1>2, <1>4, <1>5 DEF OInv

LEMMA InitOInv == Leftover = <<>> /\ SQSInit => OInv /\ Board!BoardInit
<1> SUFFICES ASSUME Leftover = <<>>, SQSInit PROVE OInv /\ Board!BoardInit
  OBVIOUS
<1>1. SInv
  BY InitSInv
<1>2. DOMAIN msgs = {}
  BY DEF SQSInit
<1>3. Own
  BY <1>2 DEF Own
<1>4. DoneOK /\ PoisonDies
  BY DEF SQSInit, CoordInit, DoneOK, Terminal, PoisonDies
<1>5. Poison
  BY DEF SQSInit, Poison, Busy
<1>6. Board!BoardInit
  BY DEF SQSInit, CoordInit, Board!BoardInit
<1> QED BY <1>1, <1>3, <1>4, <1>5, <1>6 DEF OInv

\* On queues that were purged first, the coordinator, its workers and the queues
\* implement JobBoard: one outcome per registered job, which it keeps, and completion
\* announced exactly when every job has one.
THEOREM SQSImplementsBoard ==
  ASSUME Leftover = <<>>
  PROVE  SQSSafety => ImplementsBoard
<1>1. SQSInit => OInv /\ Board!BoardInit
  BY InitOInv
<1> QED BY <1>1, NextOInv, PTL DEF SQSSafety, ImplementsBoard, Board!BoardSpec

-----------------------------------------------------------------------------
(* The dead-letter queue without leftovers *)

\* A worker that stalls was made to, and a planned retry is within the budget.
StallsOK == \A w \in Workers : pc[w] = "stall" => Stalls(w)
RetriesOK == \A w \in Workers : pc[w] = "release" => Attempt(w) < Budget[Job(w)]

\* A message of a job that is not poison, while nobody has died but by the chaos
\* goroutine: it is redriven by no poll, because it was received once by each worker
\* that gave it back within the budget, or by the one that was made to hang.
Receivable(i) ==
  /\ msgs[i].st = "visible" => msgs[i].rc < MaxReceive
  /\ msgs[i].st = "inflight" /\ ~Held(i) => msgs[i].rc = 1
  /\ msgs[i].st # "dlq"

DlqOK ==
  Quiet /\ ~done =>
    \A i \in DOMAIN msgs : Inject[msgs[i].job] # "poison" => Receivable(i)

BInv == FInv /\ OInv /\ StallsOK /\ RetriesOK /\ DlqOK /\ DeadLetterNeedsDeadHolder

\* The receive budget covers the attempt budget, and one delivery more than a job needs
\* whose first holder is killed.
Generous == MaxReceive >= 2 /\ \A j \in Jobs : Budget[j] <= MaxReceive

LEMMA NextStallsRetries ==
  ASSUME SInv, StallsOK, RetriesOK, [SQSNext]_vars
  PROVE  StallsOK' /\ RetriesOK'
<1>1. Bodies
  BY NextMsgs
<1>2. ASSUME NEW v \in Workers, d'[v] = d[v], Holding(v) \/ triage[v] # "none"
      PROVE  /\ msgs'[d'[v].m].inject = Msg(v).inject /\ msgs'[d'[v].m].tried = Msg(v).tried
             /\ msgs'[d'[v].m].job = Job(v) /\ d'[v].rc = d[v].rc
  <2>1. d[v].m \in DOMAIN msgs /\ Msg(v) = msgs[d[v].m]
    BY <1>2, HeldMessage
  <2> QED BY <1>1, <1>2, <2>1 DEF Bodies, Job
<1>3. ASSUME NEW v \in Workers, pc'[v] = "stall" PROVE Stalls(v)'
  <2>1. Moves(v)
    BY NextMoves
  <2>2. d'[v] = d[v] /\ Stalls(v) /\ Holding(v)
    BY <1>3, <2>1 DEF Moves, StallsOK, Holding
  <2> QED BY <1>2, <2>2 DEF Stalls, Attempt, Msg
<1>4. ASSUME NEW v \in Workers, pc'[v] = "release" PROVE (Attempt(v) < Budget[Job(v)])'
  <2>1. Moves(v)
    BY NextMoves
  <2>2. d'[v] = d[v] /\ Attempt(v) < Budget[Job(v)] /\ (Holding(v) \/ triage[v] # "none")
    BY <1>4, <2>1 DEF Moves, RetriesOK, Holding
  <2> QED BY <1>2, <2>2 DEF Attempt, Msg, Job
<1> QED BY <1>3, <1>4 DEF StallsOK, RetriesOK

\* What is to be shown of a step: a message is as it was and still held if it was, or
\* it is receivable.
LEMMA DlqStays ==
  ASSUME DlqOK, Quiet' /\ ~done' => Quiet /\ ~done,
         Quiet' /\ ~done' =>
           \A k \in DOMAIN msgs' : Inject[msgs'[k].job] # "poison" =>
              \/ Receivable(k)'
              \/ k \in DOMAIN msgs /\ msgs'[k] = msgs[k] /\ (Held(k) => Held(k)')
  PROVE  DlqOK'
<1> SUFFICES ASSUME Quiet', ~done', NEW k \in DOMAIN msgs', Inject[msgs'[k].job] # "poison"
             PROVE  Receivable(k)'
  BY DEF DlqOK
<1>1. CASE k \in DOMAIN msgs /\ msgs'[k] = msgs[k] /\ (Held(k) => Held(k)')
  <2>1. Receivable(k)
    BY <1>1 DEF DlqOK
  <2> QED BY <1>1, <2>1 DEF Receivable
<1> QED BY <1>1

LEMMA HeldStays ==
  ASSUME NEW w \in Workers, OnlyWorker(w), NEW k, msgs'[k].rc = msgs[k].rc, Held(k),
         Holding(w) /\ d[w].m = k => Holding(w)' /\ d'[w] = d[w]
  PROVE  Held(k)'
<1>1. PICK v \in Workers : Holding(v) /\ d[v].m = k /\ d[v].rc = msgs[k].rc
  BY DEF Held
<1>2. Holding(v)' /\ d'[v] = d[v]
  BY <1>1 DEF OnlyWorker, Holding
<1> QED BY <1>1, <1>2 DEF Held

\* Steps that leave the messages alone and after which a holder still holds.
LEMMA DlqLocal ==
  ASSUME DlqOK, Quiet' /\ ~done' => Quiet /\ ~done, NEW w \in Workers, OnlyWorker(w),
         UNCHANGED msgs, Quiet' /\ ~done' /\ Holding(w) => Holding(w)' /\ d'[w] = d[w]
  PROVE  DlqOK'
<1>1. ASSUME Quiet', ~done', NEW k \in DOMAIN msgs', Held(k) PROVE Held(k)'
  BY <1>1, HeldStays
<1> QED BY <1>1, DlqStays

LEMMA DlqReceive ==
  ASSUME BInv, Quiet' /\ ~done' => Quiet /\ ~done, NEW w \in Workers, Receive(w)
  PROVE  DlqOK'
<1>0. QType /\ WType /\ pc[w] = "sweep" /\ DlqOK
  BY DEF Receive, BInv, FInv, SInv
<1>1. PICK i \in DOMAIN msgs :
        /\ msgs[i].st = "visible" /\ Deliver(i)
        /\ d' = [d EXCEPT ![w] = [m |-> i, rc |-> msgs[i].rc + 1, lapsed |-> msgs[i].lapsed]]
  BY DEF Receive, Visible
<1>2. pc' = [pc EXCEPT ![w] = "got"] /\ UNCHANGED <<tier, triage>>
  BY DEF Receive
<1>3. /\ DOMAIN msgs' = DOMAIN msgs /\ msgs'[i].st = "inflight" /\ msgs'[i].rc = msgs[i].rc + 1
      /\ \A k \in DOMAIN msgs : k # i => msgs'[k] = msgs[k]
  BY <1>0, <1>1, Delivers
<1>4. OnlyWorker(w) /\ pc'[w] = "got" /\ d'[w].m = i /\ d'[w].rc = msgs[i].rc + 1
  BY <1>0, <1>1, <1>2 DEF WType, OnlyWorker
<1>5. Held(i)' /\ Receivable(i)'
  <2>1. Held(i)'
    BY <1>3, <1>4 DEF Held, Holding
  <2> QED BY <1>3, <2>1 DEF Receivable
<1>6. ~Holding(w)
  BY <1>0 DEF Holding
<1>7. \A k \in DOMAIN msgs : k # i /\ Held(k) => Held(k)'
  BY <1>3, <1>4, <1>6, HeldStays
<1> QED BY <1>0, <1>3, <1>5, <1>7, DlqStays

\* No poll redrives a message of a job that is not poison.
LEMMA DlqRedrive ==
  ASSUME BInv, Quiet' /\ ~done' => Quiet /\ ~done, NEW w \in Workers, PollRedrives(w)
  PROVE  DlqOK'
<1>0. QType /\ DlqOK /\ UNCHANGED workerVars
  BY DEF PollRedrives, BInv, FInv, SInv
<1>1. PICK i \in DOMAIN msgs : Redrive(i)
  BY DEF PollRedrives, Visible
<1>2. msgs[i].st = "visible" /\ msgs[i].rc >= MaxReceive /\ msgs' = [msgs EXCEPT ![i].st = "dlq"]
  BY <1>1 DEF Redrive
<1>3. /\ DOMAIN msgs' = DOMAIN msgs /\ \A k \in DOMAIN msgs : k # i => msgs'[k] = msgs[k]
      /\ msgs'[i].job = msgs[i].job
  BY <1>0, <1>2, Restates DEF Bodies
<1>4. Quiet' /\ ~done' => Inject[msgs[i].job] = "poison"
  <2>1. msgs[i].rc \in Nat
    BY <1>0, MessageFields
  <2> QED BY <1>0, <1>2, <2>1, Numbers DEF DlqOK, Receivable
<1>5. \A k \in DOMAIN msgs : k # i /\ Held(k) => Held(k)'
  BY <1>0, <1>3 DEF Held, Holding, workerVars
<1> QED BY <1>0, <1>3, <1>4, <1>5, DlqStays

LEMMA DlqReturn ==
  ASSUME Generous, BInv, Quiet' /\ ~done' => Quiet /\ ~done, NEW w \in Workers,
         ReleaseMessage(w) \/ AckMessage(w)
  PROVE  DlqOK'
<1>0. SInv /\ QType /\ WType /\ Holding(w) /\ DlqOK
  BY DEF ReleaseMessage, AckMessage, BInv, FInv, SInv, Holding
<1>1. /\ d[w].m \in DOMAIN msgs /\ Job(w) \in Jobs /\ Msg(w) = msgs[d[w].m] /\ d[w].rc \in Nat
      /\ Attempt(w) \in Nat /\ Budget[Job(w)] \in Nat
  BY <1>0, HeldMessage
<1>7. PICK i \in DOMAIN msgs : i = d[w].m
  BY <1>1
<1>2. Quiet => msgs[d[w].m].st = "inflight" /\ msgs[d[w].m].rc = d[w].rc
  BY <1>0 DEF BInv, FInv, ReceiptsOK
<1>3. OnlyWorker(w)
  <2>1. Loop(w) \/ Goto(w, "dead")
    BY DEF ReleaseMessage, AckMessage
  <2> QED BY <1>0, <2>1, Gotos, Loops DEF Labels
<1>4. ASSUME Quiet', ~done'
      PROVE  /\ DOMAIN msgs' = DOMAIN msgs /\ \A k \in DOMAIN msgs : k # d[w].m => msgs'[k] = msgs[k]
             /\ Receivable(i)'
  <2>0. msgs[d[w].m].st = "inflight" /\ msgs[d[w].m].rc = d[w].rc
    BY <1>2, <1>4
  <2>1. CASE ReleaseMessage(w)
    <3>1. msgs' = [msgs EXCEPT ![d[w].m].st = "visible", ![d[w].m].lapsed = FALSE]
      BY <2>0, <2>1 DEF ReleaseMessage, Release, StaleReceipt
    <3>2. /\ DOMAIN msgs' = DOMAIN msgs /\ \A k \in DOMAIN msgs : k # d[w].m => msgs'[k] = msgs[k]
          /\ msgs'[d[w].m].st = "visible" /\ msgs'[d[w].m].rc = d[w].rc
      BY <1>0, <1>1, <2>0, <3>1, Reappears
    <3>3. Attempt(w) < Budget[Job(w)]
      BY <2>1 DEF ReleaseMessage, BInv, RetriesOK
    <3>4. d[w].rc < MaxReceive
      <4>1. Msg(w).tried \in Nat
        BY <1>0, <1>1, MessageFields
      <4>2. d[w].rc <= Attempt(w)
        BY <1>1, <4>1 DEF Attempt
      <4>3. Budget[Job(w)] <= MaxReceive
        BY <1>1 DEF Generous
      <4> QED BY <1>1, <3>3, <4>2, <4>3, Numbers
    <3> QED BY <1>7, <3>2, <3>4 DEF Receivable
  <2>2. CASE AckMessage(w)
    <3>1. msgs' = [msgs EXCEPT ![d[w].m].st = "deleted"]
      BY <2>0, <2>2 DEF AckMessage, Ack
    <3>2. /\ DOMAIN msgs' = DOMAIN msgs /\ \A k \in DOMAIN msgs : k # d[w].m => msgs'[k] = msgs[k]
          /\ msgs'[d[w].m].st = "deleted"
      BY <1>0, <1>1, <3>1, Restates
    <3> QED BY <1>7, <3>2 DEF Receivable
  <2> QED BY <2>1, <2>2
<1>5. ASSUME Quiet', ~done', NEW k \in DOMAIN msgs, k # d[w].m, Held(k) PROVE Held(k)'
  BY <1>3, <1>4, <1>5, HeldStays
<1>6. ASSUME Quiet', ~done', NEW k \in DOMAIN msgs'
      PROVE  Receivable(k)' \/ (k \in DOMAIN msgs /\ msgs'[k] = msgs[k] /\ (Held(k) => Held(k)'))
  <2>1. CASE k = d[w].m
    BY <1>4, <1>6, <1>7, <2>1
  <2>2. CASE k # d[w].m
    BY <1>4, <1>5, <1>6, <2>2
  <2> QED BY <2>1, <2>2
<1> QED BY <1>0, <1>6, DlqStays

\* A message that is sent has not been received.
LEMMA DlqSend ==
  ASSUME DlqOK, QType, Quiet' /\ ~done' => Quiet /\ ~done, NEW w \in Workers, OnlyWorker(w),
         Holding(w) => Holding(w)' /\ d'[w] = d[w],
         NEW j \in Jobs, NEW tried \in Nat, NEW inject \in Injections, Send(j, tried, inject)
  PROVE  DlqOK'
<1> DEFINE n == Len(msgs) + 1
<1>1. /\ DOMAIN msgs' = DOMAIN msgs \cup {n} /\ \A k \in DOMAIN msgs : msgs'[k] = msgs[k]
      /\ msgs'[n].st = "visible" /\ msgs'[n].rc = 0
  BY Sends
<1>2. msgs'[Len(msgs) + 1].rc < MaxReceive
  BY <1>1, Numbers
<1> HIDE DEF n
<1>3. ASSUME NEW k \in DOMAIN msgs, Held(k) PROVE Held(k)'
  BY <1>1, <1>3, HeldStays
<1>4. ASSUME NEW k, k = n PROVE Receivable(k)'
  BY <1>1, <1>2, <1>4 DEF Receivable, n
<1> QED BY <1>1, <1>3, <1>4, DlqStays

\* The only delivery that is abandoned without a fault is that of a hanging job's first
\* holder.
LEMMA DlqChaosKill ==
  ASSUME BInv, Quiet' /\ ~done' => Quiet /\ ~done, NEW w \in Workers, ChaosKill(w)
  PROVE  DlqOK'
<1>0. SInv /\ QType /\ WType /\ DlqOK /\ chaos[w] = "kill" /\ UNCHANGED msgs
  BY DEF ChaosKill, BInv, FInv, SInv
<1>1. CASE w \notin Alive
  <2>1. UNCHANGED workerVars
    BY <1>1 DEF ChaosKill
  <2>2. OnlyWorker(w) /\ (Holding(w) => Holding(w)' /\ d'[w] = d[w])
    BY <2>1 DEF workerVars, OnlyWorker, Holding
  <2> QED BY <1>0, <2>2, DlqLocal
<1>2. CASE w \in Alive
  <2>1. OnlyWorker(w)
    <3>1. Goto(w, "dead")
      BY <1>2 DEF ChaosKill
    <3> QED BY <1>0, <3>1, Gotos DEF Labels
  <2>2. ASSUME Quiet', ~done', NEW k \in DOMAIN msgs', Inject[msgs'[k].job] # "poison"
        PROVE  Receivable(k)' \/ (k \in DOMAIN msgs /\ msgs'[k] = msgs[k] /\ (Held(k) => Held(k)'))
    <3>0. Quiet /\ ~done
      BY <2>2
    <3>1. pc[w] = "stall"
      BY <1>0, <3>0 DEF BInv, FInv, ExitsOK, Excused
    <3>2. Holding(w) /\ Stalls(w)
      BY <3>1 DEF Holding, BInv, StallsOK
    <3>3. CASE k = d[w].m
      <4>1. msgs[k].st = "inflight" /\ msgs[k].rc = d[w].rc
        BY <3>0, <3>2, <3>3 DEF BInv, FInv, ReceiptsOK
      <4>2. msgs[k].inject # "poison"
        BY <1>0, <2>2 DEF BInv, OInv, Own
      <4>3. Attempt(w) = 1
        BY <3>2, <3>3, <4>2 DEF Stalls, Msg
      <4>4. d[w].rc = 1
        <5>1. Msg(w) = msgs[k] /\ d[w].rc \in Nat /\ d[w].rc >= 1
          BY <1>0, <3>2, <3>3, HeldMessage
        <5>2. Msg(w).tried \in Nat
          BY <1>0, <2>2, <5>1, MessageFields
        <5> QED BY <4>3, <5>1, <5>2 DEF Attempt
      <4> QED BY <1>0, <4>1, <4>4 DEF Receivable
    <3>4. CASE k # d[w].m
      <4>1. ASSUME Held(k) PROVE Held(k)'
        BY <1>0, <2>1, <3>4, <4>1, HeldStays
      <4> QED BY <1>0, <2>2, <4>1
    <3> QED BY <3>3, <3>4
  <2> QED BY <1>0, <2>2, DlqStays
<1> QED BY <1>1, <1>2

LEMMA DlqTimeout ==
  ASSUME Generous, BInv, Quiet' /\ ~done' => Quiet /\ ~done, NEW i \in DOMAIN msgs, Timeout(i)
  PROVE  DlqOK'
<1>0. /\ QType /\ DlqOK /\ Counts /\ UNCHANGED workerVars /\ msgs[i].st = "inflight"
      /\ msgs' = [msgs EXCEPT ![i].st = "visible", ![i].lapsed = TRUE]
  BY DEF Timeout, Expire, BInv, FInv, SInv
<1>1. /\ DOMAIN msgs' = DOMAIN msgs /\ \A k \in DOMAIN msgs : k # i => msgs'[k] = msgs[k]
      /\ msgs'[i].st = "visible" /\ msgs'[i].rc = msgs[i].rc /\ msgs'[i].job = msgs[i].job
  BY <1>0, Reappears DEF Bodies
<1>2. Quiet' => ~Held(i)
  <2>1. ASSUME Held(i) PROVE stalls' = stalls + 1
    BY <2>1 DEF Timeout
  <2>2. stalls \in Nat
    BY <1>0, Numbers DEF Counts
  <2> QED BY <2>1, <2>2 DEF Quiet
<1>3. ASSUME Quiet', ~done', Inject[msgs'[i].job] # "poison" PROVE Receivable(i)'
  <2>1. msgs[i].rc = 1
    BY <1>0, <1>1, <1>2, <1>3 DEF DlqOK, Receivable
  <2>2. 1 < MaxReceive
    BY Numbers DEF Generous
  <2> QED BY <1>1, <2>1, <2>2 DEF Receivable
<1>4. \A k \in DOMAIN msgs : k # i /\ Held(k) => Held(k)'
  BY <1>0, <1>1 DEF Held, Holding, workerVars
<1> QED BY <1>0, <1>1, <1>3, <1>4, DlqStays

\* Faults are counted up, and completion is not taken back.
LEMMA NextFaults ==
  ASSUME FInv, [SQSNext]_vars
  PROVE  /\ Quiet' /\ ~done' => Quiet /\ ~done
         /\ faults > 0 \/ stalls > 0 => faults' > 0 \/ stalls' > 0
<1>0. SInv /\ CInv /\ Counts
  BY DEF FInv, SInv
<1>1. done => done'
  <2>1. CoordStep
    BY <1>0, NextCoord
  <2> QED BY <1>0, <2>1, CoordKeeps DEF Onward
<1>2. faults \in Nat /\ stalls \in Nat
  BY <1>0, Numbers DEF Counts
<1>3. \/ UNCHANGED <<faults, stalls>>
      \/ faults' = faults + 1 /\ stalls' = stalls
      \/ faults' = faults /\ stalls' = stalls + 1
  <2>1. ASSUME NEW j \in Jobs, CoSubmit(j)
        PROVE  UNCHANGED stalls /\ (UNCHANGED faults \/ faults' = faults + 1)
    BY <2>1 DEF CoSubmit
  <2>2. ASSUME NEW i \in DOMAIN msgs, Timeout(i)
        PROVE  UNCHANGED faults /\ (UNCHANGED stalls \/ stalls' = stalls + 1)
    BY <2>2 DEF Timeout
  <2>3. ASSUME NEW w \in Workers, Crash(w) PROVE UNCHANGED stalls /\ faults' = faults + 1
    BY <2>3 DEF Crash
  <2>4. ASSUME \/ CoClose \/ CoSpawn \/ CoDone \/ CoLook \/ CoDrainKill \/ CoFinish
               \/ WatchDeadLetters \/ UNCHANGED vars
               \/ \E w \in Workers : CoExit(w) \/ WorkerStep(w) \/ FinishTriage(w)
               \/ \E w \in Workers : ChaosKill(w) \/ ChaosSpawn(w)
        PROVE  UNCHANGED <<faults, stalls>>
    BY <2>4 DEF CoClose, CoSpawn, CoDone, CoLook, CoDrainKill, CoFinish, WatchDeadLetters, vars, CoExit,
         WorkerStep, Receive, PollRedrives, PollEmpty, AskStatus, StartJob, Report, ReleaseMessage, Resend,
         AckMessage, FinishTriage, ChaosKill, ChaosSpawn, procVars
  <2> QED BY <2>1, <2>2, <2>3, <2>4 DEF SQSNext, CoStep, Returned
<1> QED BY <1>1, <1>2, <1>3 DEF Quiet

LEMMA NextDlqOK ==
  ASSUME Generous, BInv, [SQSNext]_vars
  PROVE  DlqOK'
<1>0. /\ FInv /\ SInv /\ QType /\ WType /\ PType /\ HoldsOK /\ DlqOK
  BY DEF BInv, FInv, SInv
<1>1. Quiet' /\ ~done' => Quiet /\ ~done
  BY <1>0, NextFaults
<1>2. ASSUME UNCHANGED <<msgs, workerVars>> PROVE DlqOK'
  <2>1. UNCHANGED <<pc, d>>
    BY <1>2 DEF workerVars
  <2>2. \A k \in DOMAIN msgs : Held(k) => Held(k)'
    BY <1>2, <2>1 DEF Held, Holding
  <2> QED BY <1>0, <1>1, <1>2, <2>2, DlqStays
<1>3. ASSUME NEW w \in Workers, StartJob(w) \/ Report(w) \/ FinishTriage(w) PROVE DlqOK'
  <2>1. ASSUME NEW l \in {"ack", "stall", "run"}, Goto(w, l) PROVE OnlyWorker(w) /\ Holding(w)' /\ d'[w] = d[w]
    BY <1>0, <2>1, Gotos DEF Labels, Holding
  <2>2. ASSUME pc' = [pc EXCEPT ![w] = "triage"], NEW r, triage' = [triage EXCEPT ![w] = r], UNCHANGED d
        PROVE  OnlyWorker(w) /\ Holding(w)' /\ d'[w] = d[w]
    BY <1>0, <2>2 DEF WType, OnlyWorker, Holding
  <2>3. ASSUME NEW l \in {"ack", "release", "resend"}, Decided(w, l)
        PROVE  OnlyWorker(w) /\ (Holding(w) => Holding(w)') /\ d'[w] = d[w]
    BY <1>0, <2>3, Decideds DEF Labels, Holding
  <2>4. ASSUME StartJob(w) PROVE OnlyWorker(w) /\ Holding(w)' /\ d'[w] = d[w]
    BY <2>1, <2>4 DEF StartJob
  <2>5. ASSUME Report(w) PROVE OnlyWorker(w) /\ Holding(w)' /\ d'[w] = d[w]
    BY <2>1, <2>2, <2>5 DEF Report
  <2>6. ASSUME FinishTriage(w) PROVE OnlyWorker(w) /\ (Holding(w) => Holding(w)') /\ d'[w] = d[w]
    <3>1. \E l \in {"ack", "release", "resend"} : Decided(w, l)
      BY <2>6 DEF FinishTriage
    <3> QED BY <2>3, <3>1
  <2>7. UNCHANGED msgs
    BY <1>3 DEF StartJob, Report, FinishTriage
  <2> QED BY <1>0, <1>1, <1>3, <2>4, <2>5, <2>6, <2>7, DlqLocal
<1>4. ASSUME NEW w \in Workers, NEW l \in Labels, Goto(w, l), ~Holding(w), UNCHANGED msgs PROVE DlqOK'
  <2>1. OnlyWorker(w)
    BY <1>0, <1>4, Gotos
  <2> QED BY <1>0, <1>1, <1>4, <2>1, DlqLocal
<1>5. ASSUME NEW w \in Workers, PollEmpty(w) \/ AskStatus(w) PROVE DlqOK'
  <2>1. pc[w] = "sweep" /\ ~Holding(w) /\ UNCHANGED msgs
    BY <1>5 DEF PollEmpty, AskStatus, Holding
  <2>2. OnlyWorker(w)
    <3>1. ASSUME PollEmpty(w) PROVE OnlyWorker(w)
      BY <3>1 DEF PollEmpty, OnlyWorker
    <3>2. ASSUME AskStatus(w) PROVE OnlyWorker(w)
      BY <1>0, <3>2, Gotos, Loops DEF AskStatus, Labels
    <3> QED BY <1>5, <3>1, <3>2
  <2> QED BY <1>0, <1>1, <2>1, <2>2, DlqLocal
<1>6. ASSUME NEW w \in Workers, Resend(w) PROVE DlqOK'
  <2>1. Holding(w) /\ Send(Job(w), Attempt(w), "none") /\ Goto(w, "ack")
    BY <1>6 DEF Resend, Holding
  <2>2. Job(w) \in Jobs /\ Attempt(w) \in Nat /\ "none" \in Injections
    BY <1>0, <2>1, HeldMessage DEF Injections
  <2>3. OnlyWorker(w) /\ Holding(w)' /\ d'[w] = d[w]
    BY <1>0, <2>1, Gotos DEF Labels, Holding
  <2> QED BY <1>0, <1>1, <2>1, <2>2, <2>3, DlqSend
<1>7. ASSUME NEW w \in Workers, Crash(w) PROVE DlqOK'
  <2>1. faults \in Nat /\ faults' = faults + 1
    BY <1>0, <1>7, Numbers DEF FInv, Counts, Crash
  <2> QED BY <2>1 DEF DlqOK, Quiet
<1>8. ASSUME NEW j \in Jobs, CoSubmit(j) PROVE DlqOK'
  <2>1. ASSUME Send(j, 0, Inject[j]) PROVE DlqOK'
    <3>1. Inject[j] \in Injections /\ 0 \in Nat /\ 1 \in Workers
      BY Tables, Numbers DEF Workers
    <3>2. UNCHANGED <<pc, d, triage>>
      BY <1>8 DEF CoSubmit, workerVars
    <3>3. PICK w \in Workers : TRUE
      BY <3>1
    <3>4. OnlyWorker(w) /\ (Holding(w) => Holding(w)' /\ d'[w] = d[w])
      BY <3>2 DEF OnlyWorker, Holding
    <3> QED BY <1>0, <1>1, <2>1, <3>1, <3>4, DlqSend
  <2> QED BY <1>2, <1>8, <2>1 DEF CoSubmit
<1>9. ASSUME CoSpawn \/ \E w \in Workers : ChaosSpawn(w) PROVE DlqOK'
  <2>1. ASSUME Spawn PROVE DlqOK'
    <3>0. UNCHANGED msgs
      BY <1>9 DEF CoSpawn, ChaosSpawn
    <3>1. spawned + 1 \in Workers
      BY <1>0, <2>1, Numbers DEF Spawn, Workers, PType
    <3>2. PICK w \in Workers : w = spawned + 1
      BY <3>1
    <3>3. w > spawned /\ Goto(w, "sweep")
      BY <1>0, <2>1, <3>2 DEF Spawn, PType
    <3>4. ~Holding(w)
      BY <1>0, <3>3 DEF HoldsOK, Holding
    <3> QED BY <1>4, <3>0, <3>3, <3>4 DEF Labels
  <2> QED BY <1>2, <1>9, <2>1 DEF CoSpawn, ChaosSpawn
<1>10. ASSUME CoDrainKill PROVE DlqOK'
  <2>1. co = "draining" /\ UNCHANGED procVars /\ UNCHANGED coordVars
    BY <1>10 DEF CoDrainKill
  <2>2. Quiet => done
    BY <1>0, <2>1 DEF FInv, ReturnsOK, ExitsOK
  <2>3. (Quiet' <=> Quiet) /\ (done' <=> done)
    BY <2>1 DEF procVars, coordVars, Quiet
  <2> QED BY <2>2, <2>3 DEF DlqOK
<1>11. ASSUME \/ CoClose \/ CoDone \/ CoLook \/ CoFinish \/ WatchDeadLetters \/ UNCHANGED vars
              \/ \E w \in Workers : CoExit(w)
       PROVE  DlqOK'
  <2>1. UNCHANGED <<msgs, workerVars>>
    BY <1>11 DEF CoClose, CoDone, CoLook, CoFinish, WatchDeadLetters, vars, CoExit
  <2> QED BY <1>2, <2>1
<1>12. ASSUME NEW w \in Workers, WorkerStep(w) PROVE DlqOK'
  BY <1>1, <1>3, <1>5, <1>6, <1>12, DlqReceive, DlqRedrive, DlqReturn DEF WorkerStep
<1>13. ASSUME NEW w \in Workers, FinishTriage(w) \/ Crash(w) \/ ChaosKill(w) \/ ChaosSpawn(w) PROVE DlqOK'
  BY <1>1, <1>3, <1>7, <1>9, <1>13, DlqChaosKill
<1>14. ASSUME NEW i \in DOMAIN msgs, Timeout(i) PROVE DlqOK'
  BY <1>1, <1>14, DlqTimeout
<1> QED BY <1>8, <1>9, <1>10, <1>11, <1>12, <1>13, <1>14 DEF SQSNext, CoStep, Returned

\* A job that is found in the dead-letter queue still had no outcome, so the run was
\* not over, and was poison unless somebody had died or stalled.
LEMMA NextDeadLetters ==
  ASSUME BInv, [SQSNext]_vars
  PROVE  DeadLetterNeedsDeadHolder'
<1>0. /\ FInv /\ OInv /\ SInv /\ CInv /\ Counts /\ Own /\ DoneOK /\ DlqOK /\ DeadLetterNeedsDeadHolder
  BY DEF BInv, FInv, OInv, SInv
<1>1. faults > 0 \/ stalls > 0 => faults' > 0 \/ stalls' > 0
  BY <1>0, NextFaults
<1>2. OwnCoord
  BY <1>0, NextOwnCoord
<1>3. ASSUME UNCHANGED outcome PROVE DeadLetterNeedsDeadHolder'
  BY <1>0, <1>1, <1>3 DEF DeadLetterNeedsDeadHolder
<1>4. ASSUME NEW S, NEW o, NEW counter, Finish(S, o, counter),
             o = "dead_lettered" => S \in SUBSET DeadJobs
      PROVE  DeadLetterNeedsDeadHolder'
  <2> SUFFICES ASSUME NEW j \in Jobs, outcome'[j] = "dead_lettered"
               PROVE  Inject[j] = "poison" \/ faults' > 0 \/ stalls' > 0
    BY DEF DeadLetterNeedsDeadHolder
  <2>1. outcome' = [k \in Jobs |-> IF k \in S THEN o ELSE outcome[k]] /\ S \cap Terminal = {}
    BY <1>4 DEF Finish
  <2>2. CASE outcome[j] = "dead_lettered"
    BY <1>0, <1>1, <2>2 DEF DeadLetterNeedsDeadHolder
  <2>3. CASE outcome[j] # "dead_lettered"
    <3>1. j \in DeadJobs /\ j \notin Terminal
      BY <1>4, <2>1, <2>3
    <3>2. PICK i \in DOMAIN msgs : msgs[i].st = "dlq" /\ msgs[i].job = j
      BY <3>1 DEF DeadJobs
    <3>3. ~done
      BY <1>0, <3>1, <3>2 DEF Own, DoneOK
    <3>4. Quiet => Inject[j] = "poison"
      BY <1>0, <3>2, <3>3 DEF DlqOK, Receivable
    <3>5. ~Quiet => faults > 0 \/ stalls > 0
      BY <1>0, Numbers DEF Counts, Quiet
    <3> QED BY <1>1, <3>4, <3>5
  <2> QED BY <2>2, <2>3
<1>5. ASSUME \/ \E j \in Jobs : Register(j)
             \/ CloseSubmissions
             \/ \E j \in Jobs, rc \in Nat : Started(j, rc)
             \/ \E j \in Jobs : \E a : ReportRetry(j, a)
      PROVE  UNCHANGED outcome
  BY <1>5 DEF Register, CloseSubmissions, Started, ReportRetry
<1> QED BY <1>2, <1>3, <1>4, <1>5 DEF OwnCoord, coordVars

LEMMA InitBInv == Leftover = <<>> /\ SQSInit => BInv
<1> SUFFICES ASSUME Leftover = <<>>, SQSInit PROVE BInv
  OBVIOUS
<1>1. FInv /\ OInv
  BY InitFInv, InitOInv
<1>2. StallsOK /\ RetriesOK
  BY DEF SQSInit, StallsOK, RetriesOK
<1>3. DOMAIN msgs = {}
  BY DEF SQSInit
<1>4. DlqOK
  BY <1>3 DEF DlqOK
<1>5. DeadLetterNeedsDeadHolder
  BY DEF SQSInit, CoordInit, DeadLetterNeedsDeadHolder
<1> QED BY <1>1, <1>2, <1>4, <1>5 DEF BInv

LEMMA NextBInv == Generous /\ BInv /\ [SQSNext]_vars => BInv'
<1> SUFFICES ASSUME Generous, BInv, [SQSNext]_vars PROVE BInv'
  OBVIOUS
<1>1. FInv' /\ OInv'
  BY NextFInv, NextOInv DEF BInv
<1>2. StallsOK' /\ RetriesOK'
  BY NextStallsRetries DEF BInv, FInv
<1>3. DlqOK' /\ DeadLetterNeedsDeadHolder'
  BY NextDlqOK, NextDeadLetters
<1> QED BY <1>1, <1>2, <1>3 DEF BInv

\* On purged queues, with a receive budget that covers the attempt budget, a job whose
\* workers all answer never ends in the dead-letter queue: triaged retries and the one
\* delivery that a hanging first holder loses do not use the receives up.
THEOREM DeadLettersNeedDeadHolders ==
  ASSUME Leftover = <<>>, MaxReceive >= 2, \A j \in Jobs : Budget[j] <= MaxReceive
  PROVE  SQSSafety => []DeadLetterNeedsDeadHolder
<1>1. SQSInit => BInv
  BY InitBInv
<1>2. BInv /\ [SQSNext]_vars => BInv'
  BY NextBInv DEF Generous
<1>3. BInv => DeadLetterNeedsDeadHolder
  BY DEF BInv
<1> QED BY <1>1, <1>2, <1>3, PTL DEF SQSSafety

\* If in addition nobody dies or stalls on its own, a run that completes leaves the
\* poison jobs, and only them, in the dead-letter queue.
THEOREM PoisonIsIsolated ==
  ASSUME Leftover = <<>>, MaxReceive >= 2, \A j \in Jobs : Budget[j] <= MaxReceive,
         MaxFaults = 0, MaxStalls = 0
  PROVE  SQSSafety => []OnlyPoisonDies
<1>1. SQSInit => BInv
  BY InitBInv
<1>2. BInv /\ [SQSNext]_vars => BInv'
  BY NextBInv DEF Generous
<1>3. ASSUME BInv PROVE OnlyPoisonDies
  <2> SUFFICES ASSUME co = "ok", NEW j \in Workload
               PROVE  (outcome[j] = "dead_lettered") = (Inject[j] = "poison")
    BY DEF OnlyPoisonDies
  <2>0. FInv /\ OInv /\ DoneOK /\ CoOK /\ Counts /\ ReturnsOK /\ PoisonDies /\ DeadLetterNeedsDeadHolder
    BY <1>3 DEF BInv, FInv, OInv, SInv
  <2>1. j \in Jobs /\ j \in submitted /\ done
    BY <2>0, Tables DEF CoOK, ReturnsOK
  <2>2. outcome[j] # "none"
    BY <2>0, <2>1 DEF DoneOK, Terminal
  <2>3. ~(faults > 0) /\ ~(stalls > 0)
    BY <2>0 DEF Counts
  <2>4. outcome[j] = "dead_lettered" => Inject[j] = "poison"
    BY <2>0, <2>1, <2>3 DEF DeadLetterNeedsDeadHolder
  <2>5. Inject[j] = "poison" => outcome[j] = "dead_lettered"
    BY <2>0, <2>1, <2>2 DEF PoisonDies
  <2> QED BY <2>4, <2>5
<1> QED BY <1>1, <1>2, <1>3, PTL DEF SQSSafety

-----------------------------------------------------------------------------
(* What counts as a redelivery *)

\* A message whose job was sent again, or has ended: deleted, or about to be.
Spent(i) == \/ msgs[i].st = "deleted"
            \/ \E w \in Workers : pc[w] = "ack" /\ d[w].m = i
Open(i) == outcome[msgs[i].job] = "none"

\* The receive count and the set of released jobs tell how a message came back.
Told(j, before, lapsed) == lapsed <=> before >= 1 /\ j \notin released

\* A job that has not ended has one message that matters, the newest.
LastOnly ==
  \A i, k \in DOMAIN msgs : i < k /\ msgs[i].job = msgs[k].job /\ Open(i) => Spent(i)

\* A message that can be received is marked as Started will find it; one whose holder
\* was killed was not released, and will be marked when it times out.
Marked(i) ==
  Open(i) /\ ~Spent(i) =>
    /\ msgs[i].st = "visible" => Told(msgs[i].job, msgs[i].rc, msgs[i].lapsed)
    /\ msgs[i].st = "inflight" /\ ~Held(i) => msgs[i].rc >= 1 /\ msgs[i].job \notin released

\* A job is in released from its triage to its next start, and no longer.
Planned(w) ==
  /\ triage[w] # "none" => pc[w] = "triage"
  /\ Holding(w) /\ outcome[Job(w)] = "none" =>
       /\ pc[w] = "got" => Told(Job(w), d[w].rc - 1, d[w].lapsed)
       /\ pc[w] \in {"run", "stall", "triage", "resend"} => Job(w) \notin released
       /\ pc[w] = "release" => Job(w) \in released

ReleasesOK == /\ LastOnly
              /\ \A i \in DOMAIN msgs : Marked(i)
              /\ \A w \in Workers : Planned(w)

RInv == FInv /\ OInv /\ (Quiet /\ ~done => ReleasesOK)

\* A job without an outcome had none before.
LEMMA OpenBefore ==
  ASSUME QType, Bodies, Onward, NEW k \in DOMAIN msgs, Open(k)'
  PROVE  Open(k)
BY MessageFields DEF Open, Bodies, Onward

\* The message of a holder that is not about to delete it matters.
LEMMA HolderMatters ==
  ASSUME FInv, Quiet, NEW v \in Workers, Holding(v), pc[v] # "ack"
  PROVE  ~Spent(d[v].m)
BY DEF FInv, ReceiptsOK, Spent, Holding

\* At most worker w and message m, which nobody else holds, change, and at most m's job
\* is released or not: what is to be shown is about w and m.
LEMMA ReleasesStay ==
  ASSUME FInv, Quiet, ReleasesOK, Bodies, Onward, NEW w, NEW m, OnlyWorker(w),
         DOMAIN msgs' = DOMAIN msgs, \A k \in DOMAIN msgs : k # m => msgs'[k] = msgs[k],
         w \in Workers /\ Holding(w) => d[w].m = m,
         \A v \in Workers : Holding(v) /\ d[v].m = m => v = w,
         \/ released' = released
         \/ /\ m \in DOMAIN msgs /\ ~Spent(m)
            /\ \A j \in Jobs : j # msgs[m].job => (j \in released' <=> j \in released),
         m \in DOMAIN msgs => Marked(m)' /\ (Spent(m) => Spent(m)'),
         w \in Workers => Planned(w)'
  PROVE  ReleasesOK'
<1>0. SInv /\ QType /\ LastOnly /\ (\A i \in DOMAIN msgs : Marked(i)) /\ \A v \in Workers : Planned(v)
  BY DEF FInv, SInv, ReleasesOK
<1>1. ASSUME NEW v \in Workers, v # w
      PROVE  pc'[v] = pc[v] /\ d'[v] = d[v] /\ triage'[v] = triage[v] /\ (Holding(v)' <=> Holding(v))
  BY <1>1 DEF OnlyWorker, Holding
<1>2. ASSUME NEW k \in DOMAIN msgs, Spent(k) PROVE Spent(k)'
  <2>1. ASSUME k # m, NEW v \in Workers, pc[v] = "ack", d[v].m = k PROVE pc'[v] = "ack" /\ d'[v].m = k
    <3>1. v # w
      BY <2>1 DEF Holding
    <3> QED BY <1>1, <2>1, <3>1
  <2> QED BY <1>2, <2>1 DEF Spent
<1>3. ASSUME NEW k \in DOMAIN msgs, k # m, Open(k), ~Spent(k)
      PROVE  msgs[k].job \in Jobs /\ (msgs[k].job \in released' <=> msgs[k].job \in released)
  <2>1. msgs[k].job \in Jobs /\ k \in Nat
    BY <1>0, MessageFields
  <2>2. ASSUME m \in DOMAIN msgs, ~Spent(m) PROVE msgs[k].job # msgs[m].job
    <3>1. m \in Nat
      BY <1>0, <2>2, MessageFields
    <3>2. k < m \/ m < k
      BY <1>3, <2>1, <3>1
    <3>3. msgs[m].job = msgs[k].job => Open(m)
      BY <1>3 DEF Open
    <3> QED BY <1>0, <1>3, <2>2, <3>2, <3>3 DEF LastOnly
  <2> QED BY <2>1, <2>2
<1>4. LastOnly'
  <2> SUFFICES ASSUME NEW i \in DOMAIN msgs, NEW k \in DOMAIN msgs, i < k,
                      msgs'[i].job = msgs'[k].job, Open(i)'
               PROVE  Spent(i)'
    BY DEF LastOnly
  <2>1. Open(i) /\ msgs[i].job = msgs[k].job
    BY <1>0, OpenBefore DEF Bodies
  <2> QED BY <1>0, <1>2, <2>1 DEF LastOnly
<1>5. ASSUME NEW k \in DOMAIN msgs PROVE Marked(k)'
  <2>1. CASE k # m
    <3> SUFFICES ASSUME Open(k)', ~Spent(k)'
                 PROVE  /\ msgs[k].st = "visible" => Told(msgs[k].job, msgs[k].rc, msgs[k].lapsed)'
                        /\ msgs[k].st = "inflight" /\ ~Held(k)' => msgs[k].rc >= 1 /\ msgs[k].job \notin released'
      <4>1. msgs'[k] = msgs[k]
        BY <2>1
      <4> QED BY <4>1 DEF Marked, Told
    <3>1. Open(k) /\ ~Spent(k) /\ Marked(k)
      BY <1>0, <1>2, OpenBefore
    <3>2. msgs[k].job \in released' <=> msgs[k].job \in released
      BY <1>3, <2>1, <3>1
    <3>3. Held(k) => Held(k)'
      <4> SUFFICES ASSUME NEW v \in Workers, Holding(v), d[v].m = k, d[v].rc = msgs[k].rc
                   PROVE  Holding(v)' /\ d'[v].m = k /\ d'[v].rc = msgs'[k].rc
        BY DEF Held
      <4>1. v # w
        BY <2>1
      <4> QED BY <1>1, <2>1, <4>1
    <3>4. msgs'[k] = msgs[k]
      BY <2>1
    <3> QED BY <3>1, <3>2, <3>3, <3>4 DEF Marked, Told
  <2> QED BY <2>1
<1>6. ASSUME NEW v \in Workers PROVE Planned(v)'
  <2>1. CASE v # w
    <3>0. pc'[v] = pc[v] /\ d'[v] = d[v] /\ triage'[v] = triage[v] /\ (Holding(v)' <=> Holding(v))
      BY <1>1, <2>1
    <3>1. Planned(v)
      BY <1>0
    <3>2. ASSUME Holding(v)', outcome'[Job(v)'] = "none", pc[v] # "ack"
          PROVE  /\ outcome[Job(v)] = "none" /\ Holding(v) /\ Job(v)' = Job(v)
                 /\ (Job(v) \in released' <=> Job(v) \in released)
      <4>1. d[v].m \in DOMAIN msgs /\ Job(v) = msgs[d[v].m].job /\ Holding(v)
        BY <1>0, <3>0, <3>2, HeldMessage DEF Job
      <4>2. Job(v)' = Job(v)
        BY <3>0, <4>1 DEF Job, Msg, Bodies
      <4>3. Open(d[v].m)
        <5>1. Job(v) \in Jobs /\ outcome'[Job(v)] = "none"
          BY <1>0, <3>2, <4>1, <4>2, HeldMessage
        <5> QED BY <4>1, <5>1 DEF Open, Onward
      <4>4. d[v].m # m /\ ~Spent(d[v].m)
        BY <2>1, <3>2, <4>1, HolderMatters
      <4> QED BY <1>3, <4>1, <4>2, <4>3, <4>4 DEF Open
    <3>3. CASE pc[v] = "ack"
      BY <3>0, <3>1, <3>3 DEF Planned
    <3>4. CASE pc[v] # "ack"
      BY <3>0, <3>1, <3>2, <3>4 DEF Planned, Told
    <3> QED BY <3>3, <3>4
  <2> QED BY <2>1
<1> QED BY <1>4, <1>5, <1>6 DEF ReleasesOK

\* A job is sent again by the holder of its newest message, or for the first time.
LEMMA ReleasesSend ==
  ASSUME FInv, Quiet, ReleasesOK, Onward, NEW w, OnlyWorker(w), released' = released,
         NEW j \in Jobs, NEW tried \in Nat, NEW inject \in Injections, Send(j, tried, inject),
         w \in Workers => pc[w] = "resend" /\ pc'[w] = "ack" /\ d'[w] = d[w] /\ triage'[w] = "none",
         \A k \in DOMAIN msgs : msgs[k].job = j /\ Open(k) => Spent(k)'
  PROVE  ReleasesOK'
<1> DEFINE n == Len(msgs) + 1
<1>0. SInv /\ QType /\ LastOnly /\ (\A i \in DOMAIN msgs : Marked(i)) /\ \A v \in Workers : Planned(v)
  BY DEF FInv, SInv, ReleasesOK
<1>1. /\ DOMAIN msgs' = DOMAIN msgs \cup {n} /\ Bodies /\ n \in Nat
      /\ \A k \in DOMAIN msgs : k < n /\ msgs'[k] = msgs[k] /\ k \in Nat
      /\ msgs'[n].job = j /\ msgs'[n].st = "visible" /\ msgs'[n].rc = 0 /\ ~msgs'[n].lapsed
  <2>1. /\ DOMAIN msgs' = DOMAIN msgs \cup {n} /\ Bodies /\ Len(msgs) \in Nat
        /\ \A k \in DOMAIN msgs : k < n /\ msgs'[k] = msgs[k]
        /\ msgs'[n].job = j /\ msgs'[n].st = "visible" /\ msgs'[n].rc = 0 /\ ~msgs'[n].lapsed
    BY <1>0, Sends
  <2>2. \A k \in DOMAIN msgs : k \in Nat
    BY <1>0, MessageFields
  <2> QED BY <2>1, <2>2
<1> HIDE DEF n
<1>2. ASSUME NEW v \in Workers
      PROVE  /\ d'[v] = d[v] /\ (Holding(v)' <=> Holding(v)) /\ (pc[v] = "ack" => pc'[v] = "ack")
             /\ v # w => pc'[v] = pc[v] /\ triage'[v] = triage[v]
  BY DEF OnlyWorker, Holding
<1>3. ASSUME NEW k \in DOMAIN msgs, Spent(k) PROVE Spent(k)'
  BY <1>1, <1>2, <1>3 DEF Spent
<1>4. LastOnly'
  <2> SUFFICES ASSUME NEW i \in DOMAIN msgs', NEW k \in DOMAIN msgs', i < k,
                      msgs'[i].job = msgs'[k].job, Open(i)'
               PROVE  Spent(i)'
    BY DEF LastOnly
  <2>1. i \in DOMAIN msgs
    BY <1>1
  <2>2. Open(i) /\ msgs'[i].job = msgs[i].job
    BY <1>0, <1>1, <2>1, OpenBefore
  <2>3. CASE k = n
    BY <1>1, <2>1, <2>2, <2>3
  <2>4. CASE k \in DOMAIN msgs
    BY <1>0, <1>1, <1>3, <2>1, <2>2, <2>4 DEF LastOnly
  <2> QED BY <1>1, <2>3, <2>4
<1>5. ASSUME NEW k \in DOMAIN msgs' PROVE Marked(k)'
  <2>1. CASE k = n
    BY <1>1, <2>1 DEF Marked, Told
  <2>2. CASE k \in DOMAIN msgs
    <3>1. Open(k)' => Open(k)
      BY <1>0, <1>1, <2>2, OpenBefore
    <3>2. Held(k) => Held(k)'
      BY <1>1, <1>2, <2>2 DEF Held
    <3>3. Marked(k) /\ (Spent(k) => Spent(k)') /\ msgs'[k] = msgs[k]
      BY <1>0, <1>1, <1>3, <2>2
    <3> QED BY <3>1, <3>2, <3>3 DEF Marked, Told
  <2> QED BY <1>1, <2>1, <2>2
<1>6. ASSUME NEW v \in Workers PROVE Planned(v)'
  <2>1. CASE v = w
    BY <2>1 DEF Planned
  <2>2. CASE v # w
    <3>1. ASSUME Holding(v)', outcome'[Job(v)'] = "none"
          PROVE  Job(v)' = Job(v) /\ outcome[Job(v)] = "none" /\ Holding(v)
      <4>1. d[v].m \in DOMAIN msgs /\ Job(v) = msgs[d[v].m].job /\ Holding(v) /\ Job(v) \in Jobs
        BY <1>0, <1>2, <3>1, HeldMessage DEF Job
      <4>2. Job(v)' = Job(v)
        BY <1>1, <1>2, <4>1 DEF Job, Msg
      <4> QED BY <3>1, <4>1, <4>2 DEF Onward
    <3>2. Planned(v) /\ d'[v] = d[v] /\ pc'[v] = pc[v] /\ triage'[v] = triage[v]
      BY <1>0, <1>2, <2>2
    <3> QED BY <3>1, <3>2 DEF Planned, Told
  <2> QED BY <2>1, <2>2
<1> QED BY <1>4, <1>5, <1>6 DEF ReleasesOK

\* Steps that leave the messages, the released jobs and the holders alone.
LEMMA ReleasesCalm ==
  ASSUME FInv, Quiet, ReleasesOK, Onward, NEW w, OnlyWorker(w), UNCHANGED <<msgs, released>>,
         w \in Workers => ~Holding(w) /\ ~Holding(w)' /\ triage'[w] = "none"
  PROVE  ReleasesOK'
<1>1. Bodies /\ QType
  BY DEF Bodies, FInv, SInv
<1>2. PICK m \in {0} : TRUE
  OBVIOUS
<1>3. m \notin DOMAIN msgs /\ \A v \in Workers : Holding(v) => d[v].m # m
  <2>1. 0 \notin DOMAIN msgs
    BY <1>1 DEF QType
  <2> QED BY <2>1, HeldMessage DEF FInv
<1>4. w \in Workers => Planned(w)'
  BY DEF Planned
<1> QED BY <1>1, <1>3, <1>4, ReleasesStay

LEMMA ReleasesReceive ==
  ASSUME FInv, Quiet, ReleasesOK, Onward, NEW w \in Workers, Receive(w)
  PROVE  ReleasesOK'
<1>0. SInv /\ QType /\ WType /\ HoldsOK /\ pc[w] = "sweep" /\ ~Holding(w) /\ UNCHANGED <<outcome, released>>
  BY DEF Receive, FInv, SInv, Holding, coordVars
<1>1. PICK i \in DOMAIN msgs :
        /\ msgs[i].st = "visible" /\ Deliver(i)
        /\ d' = [d EXCEPT ![w] = [m |-> i, rc |-> msgs[i].rc + 1, lapsed |-> msgs[i].lapsed]]
  BY DEF Receive, Visible
<1>2. pc' = [pc EXCEPT ![w] = "got"] /\ UNCHANGED <<tier, triage>>
  BY DEF Receive
<1>3. /\ DOMAIN msgs' = DOMAIN msgs /\ msgs'[i].st = "inflight" /\ msgs'[i].rc = msgs[i].rc + 1
      /\ Bodies /\ \A k \in DOMAIN msgs : k # i => msgs'[k] = msgs[k]
  BY <1>0, <1>1, Delivers
<1>4. /\ OnlyWorker(w) /\ pc'[w] = "got" /\ d'[w].m = i /\ d'[w].rc = msgs[i].rc + 1
      /\ d'[w].lapsed = msgs[i].lapsed /\ triage'[w] = "none"
  BY <1>0, <1>1, <1>2 DEF WType, OnlyWorker, HoldsOK
<1>5. \A v \in Workers : Holding(v) => d[v].m # i
  BY <1>0, <1>1, VisibleIsFree, HeldMessage
<1>6. ~Spent(i)
  BY <1>1, <1>5 DEF Spent, Holding
<1>7. Marked(i)'
  <2>1. Held(i)'
    BY <1>3, <1>4 DEF Held, Holding
  <2> QED BY <1>3, <2>1 DEF Marked
<1>8. Planned(w)'
  <2>1. Job(w)' = msgs[i].job
    BY <1>1, <1>3, <1>4 DEF Job, Msg, Bodies
  <2>2. outcome'[Job(w)'] = "none" => Told(msgs[i].job, msgs[i].rc, msgs[i].lapsed)
    BY <1>0, <1>1, <1>6, <2>1 DEF ReleasesOK, Marked, Open
  <2>3. d'[w].rc - 1 = msgs[i].rc
    BY <1>0, <1>4, MessageFields
  <2> QED BY <1>0, <1>4, <2>1, <2>2, <2>3 DEF Planned, Told
<1> QED BY <1>0, <1>3, <1>4, <1>5, <1>6, <1>7, <1>8, ReleasesStay

LEMMA ReleasesRedrive ==
  ASSUME FInv, Quiet, ReleasesOK, Onward, NEW w \in Workers, PollRedrives(w)
  PROVE  ReleasesOK'
<1>0. /\ SInv /\ QType /\ HoldsOK /\ pc[w] = "sweep" /\ ~Holding(w) /\ UNCHANGED <<pc, d, triage, released>>
  BY DEF PollRedrives, FInv, SInv, Holding, coordVars, workerVars
<1>1. PICK i \in DOMAIN msgs : Redrive(i)
  BY DEF PollRedrives, Visible
<1>2. msgs[i].st = "visible" /\ msgs' = [msgs EXCEPT ![i].st = "dlq"]
  BY <1>1 DEF Redrive
<1>3. /\ DOMAIN msgs' = DOMAIN msgs /\ \A k \in DOMAIN msgs : k # i => msgs'[k] = msgs[k]
      /\ msgs'[i].st = "dlq" /\ Bodies
  BY <1>0, <1>2, Restates
<1>4. \A v \in Workers : Holding(v) => d[v].m # i
  BY <1>2, VisibleIsFree
<1>5. ~Spent(i)
  BY <1>2, <1>4 DEF Spent, Holding
<1>6. Marked(i)' /\ Planned(w)' /\ OnlyWorker(w)
  BY <1>0, <1>3 DEF Marked, Planned, OnlyWorker, HoldsOK, Holding
<1> QED BY <1>0, <1>3, <1>4, <1>5, <1>6, ReleasesStay

\* A holder that keeps its message: what is to be shown is what it is now doing.
LEMMA ReleasesHolder ==
  ASSUME FInv, Quiet, ReleasesOK, Onward, NEW w \in Workers, Holding(w), Holding(w)', OnlyWorker(w),
         d'[w] = d[w], UNCHANGED msgs, pc[w] # "ack",
         \A j \in Jobs : j # Job(w) => (j \in released' <=> j \in released),
         pc'[w] = "ack" => outcome'[Job(w)] # "none",
         triage'[w] # "none" => pc'[w] = "triage",
         outcome'[Job(w)] = "none" =>
           /\ pc'[w] \in {"run", "stall", "triage", "resend"} => Job(w) \notin released'
           /\ pc'[w] = "release" => Job(w) \in released',
         pc'[w] # "got"
  PROVE  ReleasesOK'
<1>1. /\ SInv /\ d[w].m \in DOMAIN msgs /\ Job(w) = msgs[d[w].m].job
      /\ msgs[d[w].m].st = "inflight" /\ msgs[d[w].m].rc = d[w].rc
      /\ \A v \in Workers : Holding(v) /\ d[v].m = d[w].m => v = w
  BY HeldMessage DEF FInv, ReceiptsOK, Job
<1>2. PICK m \in DOMAIN msgs : m = d[w].m
  BY <1>1
<1>3. Bodies /\ ~Spent(m)
  BY <1>2, HolderMatters DEF Bodies
<1>4. Marked(m)'
  <2>1. Held(m)'
    BY <1>1, <1>2 DEF Held
  <2> QED BY <1>1, <1>2, <2>1 DEF Marked
<1>5. Planned(w)'
  <2>1. Job(w)' = Job(w)
    BY DEF Job, Msg
  <2> QED BY <2>1 DEF Planned
<1> QED BY <1>1, <1>2, <1>3, <1>4, <1>5, ReleasesStay

LEMMA ReleasesStart ==
  ASSUME FInv, Quiet, ReleasesOK, Onward, NEW w \in Workers, StartJob(w)
  PROVE  ReleasesOK'
<1>0. SInv /\ WType /\ HoldsOK /\ pc[w] = "got" /\ Holding(w) /\ triage[w] = "none" /\ UNCHANGED msgs
  BY DEF StartJob, FInv, SInv, Holding, HoldsOK
<1>1. ASSUME outcome[Job(w)] # "none", Goto(w, "ack"), UNCHANGED coordVars PROVE ReleasesOK'
  <2>1. OnlyWorker(w) /\ pc'[w] = "ack" /\ d'[w] = d[w] /\ triage'[w] = "none"
    BY <1>0, <1>1, Gotos DEF Labels
  <2>2. Holding(w)' /\ UNCHANGED <<outcome, released>>
    BY <1>1, <2>1 DEF Holding, coordVars
  <2> QED BY <1>0, <1>1, <2>1, <2>2, ReleasesHolder
<1>2. ASSUME Started(Job(w), d[w].rc), NEW l \in {"stall", "run"}, Goto(w, l) PROVE ReleasesOK'
  <2>1. OnlyWorker(w) /\ pc'[w] = l /\ d'[w] = d[w] /\ triage'[w] = "none"
    BY <1>0, <1>2, Gotos DEF Labels
  <2>2. Holding(w)' /\ released' = released \ {Job(w)}
    BY <1>2, <2>1 DEF Holding, Started
  <2> QED BY <1>0, <2>1, <2>2, ReleasesHolder
<1> QED BY <1>1, <1>2 DEF StartJob

LEMMA ReleasesReport ==
  ASSUME FInv, Quiet, ReleasesOK, Onward, NEW w \in Workers, Report(w)
  PROVE  ReleasesOK'
<1>0. SInv /\ WType /\ HoldsOK /\ pc[w] = "run" /\ Holding(w) /\ triage[w] = "none" /\ UNCHANGED msgs
  BY DEF Report, FInv, SInv, Holding, HoldsOK
<1>1. ASSUME Goto(w, "ack"), outcome'[Job(w)] # "none", UNCHANGED released PROVE ReleasesOK'
  <2>1. OnlyWorker(w) /\ pc'[w] = "ack" /\ d'[w] = d[w] /\ triage'[w] = "none"
    BY <1>0, <1>1, Gotos DEF Labels
  <2>2. Holding(w)'
    BY <2>1 DEF Holding
  <2> QED BY <1>0, <1>1, <2>1, <2>2, ReleasesHolder
<1>2. ASSUME NEW r, pc' = [pc EXCEPT ![w] = "triage"], triage' = [triage EXCEPT ![w] = r],
             UNCHANGED <<coordVars, d>>, outcome[Job(w)] = "none"
      PROVE ReleasesOK'
  <2>1. OnlyWorker(w) /\ pc'[w] = "triage" /\ d'[w] = d[w]
    BY <1>0, <1>2 DEF WType, OnlyWorker
  <2>2. Holding(w)' /\ UNCHANGED <<outcome, released>>
    BY <1>2, <2>1 DEF Holding, coordVars
  <2>3. Job(w) \notin released
    BY <1>0, <1>2 DEF ReleasesOK, Planned
  <2> QED BY <1>0, <2>1, <2>2, <2>3, ReleasesHolder
<1>3. Job(w) \in Jobs
  BY <1>0, HeldMessage
<1>4. ASSUME ReportSuccess(Job(w)) PROVE outcome'[Job(w)] # "none" /\ UNCHANGED released
  BY <1>3, <1>4 DEF ReportSuccess, Finish
<1>5. ASSUME UNCHANGED coordVars PROVE UNCHANGED <<outcome, released>>
  BY <1>5 DEF coordVars
<1> QED BY <1>1, <1>2, <1>4, <1>5 DEF Report

\* A triaged retry is noted before the message is released.
LEMMA ReleasesTriage ==
  ASSUME FInv, Quiet, ReleasesOK, Onward, NEW w \in Workers, FinishTriage(w)
  PROVE  ReleasesOK'
<1>0. SInv /\ WType /\ pc[w] = "triage" /\ Holding(w) /\ UNCHANGED msgs
  BY DEF FinishTriage, FInv, SInv, Holding, ReleasesOK, Planned
<1>1. ASSUME NEW l \in {"ack", "release", "resend"}, Decided(w, l),
             \A j \in Jobs : j # Job(w) => (j \in released' <=> j \in released),
             l = "ack" => outcome'[Job(w)] # "none",
             outcome'[Job(w)] = "none" => /\ l = "resend" => Job(w) \notin released'
                                          /\ l = "release" => Job(w) \in released'
      PROVE  ReleasesOK'
  <2>1. OnlyWorker(w) /\ pc'[w] = l /\ d'[w] = d[w] /\ triage'[w] = "none"
    BY <1>0, <1>1, Decideds DEF Labels
  <2>2. Holding(w)'
    BY <2>1 DEF Holding
  <2> QED BY <1>0, <1>1, <2>1, <2>2, ReleasesHolder
<1>2. Job(w) \in Jobs
  BY <1>0, HeldMessage
<1>3. ASSUME outcome[Job(w)] # "none", Decided(w, "ack"), UNCHANGED coordVars PROVE ReleasesOK'
  BY <1>1, <1>3 DEF coordVars
<1>4. ASSUME NEW g, ReportRetry(Job(w), g), Decided(w, IF g.action = "retry" THEN "release" ELSE "resend")
      PROVE ReleasesOK'
  <2>1. Job(w) \notin released
    BY <1>0, <1>4 DEF ReportRetry, ReleasesOK, Planned
  <2>2. released' = IF g.action = "retry" THEN released \cup {Job(w)} ELSE released
    BY <1>4 DEF ReportRetry
  <2>3. CASE g.action = "retry"
    BY <1>1, <1>4, <2>2, <2>3
  <2>4. CASE g.action # "retry"
    BY <1>1, <1>4, <2>1, <2>2, <2>4
  <2> QED BY <2>3, <2>4
<1>5. ASSUME ReportEscalate(Job(w)), Decided(w, "ack") PROVE ReleasesOK'
  <2>1. outcome'[Job(w)] # "none" /\ UNCHANGED released
    BY <1>2, <1>5 DEF ReportEscalate, Finish
  <2> QED BY <1>1, <1>5, <2>1
<1> QED BY <1>3, <1>4, <1>5 DEF FinishTriage

\* The message of a planned retry is visible again, unmarked; an acked one is deleted.
LEMMA ReleasesReturn ==
  ASSUME FInv, Quiet, ReleasesOK, Onward, NEW w \in Workers, ReleaseMessage(w) \/ AckMessage(w)
  PROVE  ReleasesOK'
<1>0. /\ SInv /\ QType /\ WType /\ HoldsOK /\ Holding(w) /\ triage[w] = "none"
      /\ UNCHANGED <<outcome, released>>
  BY DEF ReleaseMessage, AckMessage, FInv, SInv, Holding, HoldsOK, coordVars
<1>1. /\ d[w].m \in DOMAIN msgs /\ Job(w) = msgs[d[w].m].job
      /\ msgs[d[w].m].st = "inflight" /\ msgs[d[w].m].rc = d[w].rc
      /\ \A v \in Workers : Holding(v) /\ d[v].m = d[w].m => v = w
  BY <1>0, HeldMessage DEF FInv, ReceiptsOK, Job
<1>2. PICK m \in DOMAIN msgs : m = d[w].m
  BY <1>1
<1>3. OnlyWorker(w) /\ pc'[w] = "sweep" /\ triage'[w] = "none" /\ ~Holding(w)'
  <2>1. Loop(w)
    BY <1>1 DEF ReleaseMessage, AckMessage, StaleReceipt
  <2> QED BY <1>0, <2>1, Loops DEF Holding
<1>4. Planned(w)'
  BY <1>3 DEF Planned
<1>5. ASSUME ReleaseMessage(w) PROVE ReleasesOK'
  <2>1. /\ pc[w] = "release"
        /\ msgs' = [msgs EXCEPT ![d[w].m].st = "visible", ![d[w].m].lapsed = FALSE]
    BY <1>1, <1>5 DEF ReleaseMessage, Release, StaleReceipt
  <2>2. /\ DOMAIN msgs' = DOMAIN msgs /\ Bodies /\ \A k \in DOMAIN msgs : k # d[w].m => msgs'[k] = msgs[k]
        /\ msgs'[d[w].m].st = "visible"
    <3>1. QType /\ d[w].m \in DOMAIN msgs
      BY <1>0, <1>1
    <3>2. FALSE \in BOOLEAN
      OBVIOUS
    <3> QED BY <2>1, <3>1, <3>2, Reappears, Zenon
  <2>5. ~msgs'[d[w].m].lapsed
    <3>1. QType /\ d[w].m \in DOMAIN msgs
      BY <1>0, <1>1
    <3> QED BY <2>1, <3>1, MarkedByTimeout, Zenon
  <2>3. ~Spent(m)
    BY <1>0, <1>2, <2>1, HolderMatters
  <2>4. Marked(m)'
    <3>1. msgs'[m].job = Job(w) /\ (outcome[Job(w)] = "none" => Job(w) \in released)
      BY <1>0, <1>1, <1>2, <2>1, <2>2 DEF ReleasesOK, Planned, Bodies
    <3> QED BY <1>0, <1>2, <2>2, <2>5, <3>1 DEF Marked, Told, Open
  <2> QED BY <1>0, <1>1, <1>2, <1>3, <1>4, <2>2, <2>3, <2>4, ReleasesStay
<1>6. ASSUME AckMessage(w) PROVE ReleasesOK'
  <2>1. msgs' = [msgs EXCEPT ![m].st = "deleted"]
    BY <1>1, <1>2, <1>6 DEF AckMessage, Ack
  <2>2. /\ DOMAIN msgs' = DOMAIN msgs /\ Bodies /\ \A k \in DOMAIN msgs : k # m => msgs'[k] = msgs[k]
        /\ msgs'[m].st = "deleted"
    BY <1>0, <2>1, Restates
  <2>3. Marked(m)' /\ Spent(m)'
    BY <2>2 DEF Marked, Spent
  <2> QED BY <1>0, <1>1, <1>2, <1>3, <1>4, <2>2, <2>3, ReleasesStay
<1> QED BY <1>5, <1>6

LEMMA ReleasesResend ==
  ASSUME FInv, Quiet, ReleasesOK, Onward, NEW w \in Workers, Resend(w)
  PROVE  ReleasesOK'
<1>0. /\ SInv /\ QType /\ WType /\ HoldsOK /\ pc[w] = "resend" /\ Holding(w) /\ triage[w] = "none"
      /\ Send(Job(w), Attempt(w), "none") /\ Goto(w, "ack") /\ UNCHANGED released
  BY DEF Resend, FInv, SInv, Holding, HoldsOK, coordVars
<1>1. OnlyWorker(w) /\ pc'[w] = "ack" /\ d'[w] = d[w] /\ triage'[w] = "none"
  BY <1>0, Gotos DEF Labels
<1>2. /\ Job(w) \in Jobs /\ Attempt(w) \in Nat /\ d[w].m \in DOMAIN msgs /\ Job(w) = msgs[d[w].m].job
      /\ d[w].m \in Nat
  BY <1>0, HeldMessage DEF Job
<1>3. ASSUME NEW k \in DOMAIN msgs, msgs[k].job = Job(w), Open(k) PROVE Spent(k)'
  <2>1. CASE k = d[w].m
    BY <1>1, <2>1 DEF Spent
  <2>2. CASE k # d[w].m
    <3>1. ~Spent(d[w].m) /\ Open(d[w].m)
      BY <1>0, <1>2, <1>3, HolderMatters DEF Open
    <3>2. k \in Nat
      BY <1>0, MessageFields
    <3>3. k < d[w].m \/ d[w].m < k
      BY <1>2, <2>2, <3>2
    <3>4. Spent(k)
      BY <1>2, <1>3, <3>1, <3>3 DEF ReleasesOK, LastOnly
    <3>5. msgs'[k] = msgs[k]
      BY <1>0, <1>2, Sends DEF Injections
    <3>6. \A v \in Workers : pc[v] = "ack" => pc'[v] = "ack" /\ d'[v] = d[v]
      BY <1>1 DEF OnlyWorker
    <3> QED BY <3>4, <3>5, <3>6 DEF Spent
  <2> QED BY <2>1, <2>2
<1>4. "none" \in Injections
  BY DEF Injections
<1> QED BY <1>0, <1>1, <1>2, <1>3, <1>4, ReleasesSend

\* A job is submitted once.
LEMMA ReleasesSubmit ==
  ASSUME FInv, Own, Quiet, Quiet', ReleasesOK, Onward, NEW j \in Jobs, CoSubmit(j)
  PROVE  ReleasesOK'
<1>0. /\ j \notin submitted /\ UNCHANGED released /\ UNCHANGED <<pc, d, triage>>
  BY DEF CoSubmit, Register, workerVars
<1>1. Send(j, 0, Inject[j])
  <2>1. faults \in Nat /\ ~(faults' = faults + 1)
    BY Numbers DEF FInv, Counts, Quiet
  <2> QED BY <2>1 DEF CoSubmit
<1>2. PICK w \in {0} : w \notin Workers
  BY DEF Workers
<1>3. OnlyWorker(w)
  BY <1>0 DEF OnlyWorker
<1>4. Inject[j] \in Injections /\ 0 \in Nat
  BY Tables
<1>5. \A k \in DOMAIN msgs : msgs[k].job # j
  BY <1>0 DEF Own
<1> QED BY <1>0, <1>1, <1>2, <1>3, <1>4, <1>5, ReleasesSend

\* The chaos goroutine kills a worker that stalls; its job was started, and not released.
LEMMA ReleasesKill ==
  ASSUME FInv, Quiet, ~done, ReleasesOK, Onward, NEW w \in Workers, ChaosKill(w)
  PROVE  ReleasesOK'
<1>0. /\ SInv /\ WType /\ HoldsOK /\ pc[w] = "stall" /\ UNCHANGED msgs /\ UNCHANGED <<outcome, released>>
  BY DEF ChaosKill, FInv, SInv, ExitsOK, Excused, coordVars
<1>1. Holding(w) /\ triage[w] = "none" /\ w \in Alive
  BY <1>0 DEF Holding, HoldsOK, Alive
<1>2. OnlyWorker(w) /\ pc'[w] = "dead" /\ triage'[w] = "none"
  <2>1. Goto(w, "dead")
    BY <1>1 DEF ChaosKill
  <2> QED BY <1>0, <1>1, <2>1, Gotos DEF Labels
<1>3. /\ d[w].m \in DOMAIN msgs /\ Job(w) = msgs[d[w].m].job
      /\ msgs[d[w].m].st = "inflight" /\ msgs[d[w].m].rc >= 1
      /\ \A v \in Workers : Holding(v) /\ d[v].m = d[w].m => v = w
  BY <1>0, <1>1, HeldMessage DEF FInv, ReceiptsOK, Job
<1>4. PICK m \in DOMAIN msgs : m = d[w].m
  BY <1>3
<1>5. ~Spent(m) /\ Bodies
  BY <1>0, <1>1, <1>4, HolderMatters DEF Bodies
<1>6. Marked(m)'
  <2>1. outcome[Job(w)] = "none" => Job(w) \notin released
    BY <1>0, <1>1 DEF ReleasesOK, Planned
  <2> QED BY <1>0, <1>3, <1>4, <2>1 DEF Marked, Open
<1>7. Planned(w)'
  BY <1>2 DEF Planned, Holding
<1> QED BY <1>0, <1>2, <1>3, <1>4, <1>5, <1>6, <1>7, ReleasesStay

\* What times out was abandoned by a holder that was killed.
LEMMA ReleasesTimeout ==
  ASSUME FInv, Quiet, Quiet', ReleasesOK, Onward, NEW i \in DOMAIN msgs, Timeout(i)
  PROVE  ReleasesOK'
<1>0. /\ QType /\ Counts /\ UNCHANGED <<pc, d, triage>> /\ UNCHANGED <<outcome, released>>
      /\ msgs[i].st = "inflight" /\ Expire(i)
      /\ msgs' = [msgs EXCEPT ![i].st = "visible", ![i].lapsed = TRUE]
  BY DEF Timeout, Expire, FInv, SInv, coordVars, workerVars
<1>1. /\ DOMAIN msgs' = DOMAIN msgs /\ \A k \in DOMAIN msgs : k # i => msgs'[k] = msgs[k]
      /\ msgs'[i].st = "visible" /\ msgs'[i].rc = msgs[i].rc /\ Bodies
  <2>1. QType /\ TRUE \in BOOLEAN
    BY <1>0
  <2> QED BY <1>0, <2>1, Reappears, Zenon
<1>2. msgs'[i].lapsed
  <2>1. QType /\ Expire(i)
    BY <1>0
  <2> QED BY <2>1, MarkedByTimeout, Zenon
<1>3. ~Held(i)
  <2>1. ASSUME Held(i) PROVE stalls' = stalls + 1
    BY <2>1 DEF Timeout
  <2>2. stalls \in Nat
    BY <1>0, Numbers DEF Counts
  <2> QED BY <2>1, <2>2 DEF Quiet
<1>4. \A v \in Workers : Holding(v) => d[v].m # i
  BY <1>3 DEF FInv, ReceiptsOK, Held
<1>5. ~Spent(i)
  BY <1>0, <1>4 DEF Spent, Holding
<1>6. Marked(i)'
  <2>1. msgs'[i].job = msgs[i].job /\ (outcome[msgs[i].job] = "none" => msgs[i].job \notin released)
    BY <1>0, <1>1, <1>3, <1>5 DEF ReleasesOK, Marked, Open, Bodies
  <2>2. outcome[msgs[i].job] = "none" => msgs[i].rc >= 1
    BY <1>0, <1>3, <1>5 DEF ReleasesOK, Marked, Open
  <2> QED BY <1>0, <1>1, <1>2, <2>1, <2>2 DEF Marked, Told, Open
<1>7. PICK w \in {0} : w \notin Workers
  BY DEF Workers
<1>8. OnlyWorker(w)
  BY <1>0 DEF OnlyWorker
<1> QED BY <1>0, <1>1, <1>4, <1>5, <1>6, <1>7, <1>8, ReleasesStay

LEMMA NextReleases ==
  ASSUME RInv, [SQSNext]_vars, Quiet, Quiet', ~done, ReleasesOK
  PROVE  ReleasesOK'
<1>0. /\ FInv /\ OInv /\ SInv /\ Own /\ QType /\ WType /\ PType /\ HoldsOK /\ CInv
  BY DEF RInv, FInv, OInv, SInv
<1>1. Onward
  <2>1. CoordStep
    BY <1>0, NextCoord
  <2> QED BY <1>0, <2>1, CoordKeeps
<1>2. ASSUME UNCHANGED <<msgs, released>>, UNCHANGED workerVars PROVE ReleasesOK'
  <2>1. PICK w \in {0} : w \notin Workers
    BY DEF Workers
  <2>2. OnlyWorker(w)
    BY <1>2 DEF OnlyWorker, workerVars
  <2> QED BY <1>0, <1>1, <1>2, <2>1, <2>2, ReleasesCalm
<1>3. ASSUME NEW w \in Workers, NEW l \in {"sweep", "exited"}, Goto(w, l), ~Holding(w), pc[w] # "dead",
             UNCHANGED <<msgs, released>>
      PROVE  ReleasesOK'
  <2>1. OnlyWorker(w) /\ pc'[w] = l /\ triage'[w] = triage[w]
    BY <1>0, <1>3, Gotos DEF Labels
  <2>2. triage[w] = "none" /\ ~Holding(w)'
    BY <1>0, <1>3, <2>1 DEF HoldsOK, Holding
  <2> QED BY <1>0, <1>1, <1>3, <2>1, <2>2, ReleasesCalm
<1>4. ASSUME NEW w \in Workers, PollEmpty(w) \/ AskStatus(w) PROVE ReleasesOK'
  <2>1. pc[w] = "sweep" /\ ~Holding(w) /\ triage[w] = "none" /\ UNCHANGED <<msgs, released>>
    BY <1>0, <1>4 DEF PollEmpty, AskStatus, Holding, HoldsOK, coordVars
  <2>2. ASSUME PollEmpty(w) PROVE ReleasesOK'
    <3>1. OnlyWorker(w) /\ ~Holding(w)' /\ triage'[w] = "none"
      BY <2>1, <2>2 DEF PollEmpty, OnlyWorker, Holding
    <3> QED BY <1>0, <1>1, <2>1, <3>1, ReleasesCalm
  <2>3. ASSUME Loop(w) PROVE ReleasesOK'
    <3>1. OnlyWorker(w) /\ ~Holding(w)' /\ triage'[w] = "none"
      BY <1>0, <2>1, <2>3, Loops DEF Holding
    <3> QED BY <1>0, <1>1, <2>1, <3>1, ReleasesCalm
  <2> QED BY <1>3, <1>4, <2>1, <2>2, <2>3 DEF AskStatus
<1>5. ASSUME CoSpawn \/ \E w \in Workers : ChaosSpawn(w) PROVE ReleasesOK'
  <2>0. UNCHANGED <<msgs, released>>
    BY <1>5 DEF CoSpawn, ChaosSpawn, coordVars
  <2>1. ASSUME Spawn PROVE ReleasesOK'
    <3>1. spawned + 1 \in Workers
      BY <1>0, <2>1, Numbers DEF Spawn, Workers, PType
    <3>2. PICK w \in Workers : w = spawned + 1
      BY <3>1
    <3>3. w > spawned /\ Goto(w, "sweep")
      BY <1>0, <2>1, <3>2 DEF Spawn, PType
    <3>4. ~Holding(w) /\ pc[w] # "dead"
      BY <1>0, <3>3 DEF HoldsOK, Holding
    <3> QED BY <1>3, <2>0, <3>3, <3>4
  <2> QED BY <1>2, <1>5, <2>0, <2>1 DEF CoSpawn, ChaosSpawn
<1>6. ASSUME NEW w \in Workers, Crash(w) PROVE ReleasesOK'
  <2>1. faults \in Nat /\ faults' = faults + 1
    BY <1>0, <1>6, Numbers DEF FInv, Counts, Crash
  <2> QED BY <2>1 DEF Quiet
<1>7. ASSUME CoDrainKill PROVE ReleasesOK'
  BY <1>0, <1>7 DEF CoDrainKill, FInv, ReturnsOK, ExitsOK
<1>8. ASSUME \/ CoClose \/ CoDone \/ CoLook \/ CoFinish \/ WatchDeadLetters \/ UNCHANGED vars
             \/ \E w \in Workers : CoExit(w)
      PROVE  ReleasesOK'
  <2>1. UNCHANGED <<msgs, workerVars>>
    BY <1>8 DEF CoClose, CoDone, CoLook, CoFinish, WatchDeadLetters, vars, CoExit
  <2>2. UNCHANGED released
    <3>1. ASSUME WatchDeadLetters PROVE UNCHANGED released
      BY <3>1 DEF WatchDeadLetters, DeadLettered, Finish
    <3>2. ASSUME CoClose PROVE UNCHANGED released
      BY <3>2 DEF CoClose, CloseSubmissions
    <3> QED BY <1>8, <3>1, <3>2 DEF CoDone, CoLook, CoFinish, vars, CoExit, coordVars
  <2> QED BY <1>2, <2>1, <2>2
<1>9. ASSUME NEW w \in Workers, WorkerStep(w) PROVE ReleasesOK'
  BY <1>0, <1>1, <1>4, <1>9, ReleasesReceive, ReleasesRedrive, ReleasesStart, ReleasesReport,
     ReleasesReturn, ReleasesResend DEF WorkerStep
<1>10. ASSUME NEW w \in Workers, FinishTriage(w) \/ ChaosKill(w) PROVE ReleasesOK'
  BY <1>0, <1>1, <1>10, ReleasesTriage, ReleasesKill
<1>11. ASSUME NEW i \in DOMAIN msgs, Timeout(i) PROVE ReleasesOK'
  BY <1>0, <1>1, <1>11, ReleasesTimeout
<1>12. ASSUME NEW j \in Jobs, CoSubmit(j) PROVE ReleasesOK'
  BY <1>0, <1>1, <1>12, ReleasesSubmit
<1> QED BY <1>5, <1>6, <1>7, <1>8, <1>9, <1>10, <1>11, <1>12 DEF SQSNext, CoStep, Returned

LEMMA NextRInv == RInv /\ [SQSNext]_vars => RInv'
<1> SUFFICES ASSUME RInv, [SQSNext]_vars PROVE RInv'
  OBVIOUS
<1>1. FInv' /\ OInv'
  BY NextFInv, NextOInv DEF RInv
<1>2. Quiet' /\ ~done' => Quiet /\ ~done
  BY NextFaults DEF RInv
<1>3. Quiet' /\ ~done' => ReleasesOK'
  BY <1>2, NextReleases DEF RInv
<1> QED BY <1>1, <1>3 DEF RInv

LEMMA InitRInv == Leftover = <<>> /\ SQSInit => RInv
<1> SUFFICES ASSUME Leftover = <<>>, SQSInit PROVE RInv
  OBVIOUS
<1>1. FInv /\ OInv
  BY InitFInv, InitOInv
<1>2. DOMAIN msgs = {}
  BY DEF SQSInit
<1>3. \A w \in Workers : Planned(w)
  BY DEF SQSInit, Planned, Holding
<1> QED BY <1>1, <1>2, <1>3 DEF RInv, ReleasesOK, LastOnly

\* Only Started lets a worker that got a delivery go on with it.
LEMMA OnlyStartStarts ==
  ASSUME SInv, [SQSNext]_vars, NEW w \in Workers, pc[w] = "got", pc'[w] \in {"run", "stall"}
  PROVE  StartJob(w) /\ Started(Job(w), d[w].rc)
<1>0. WType /\ PType /\ HoldsOK
  BY DEF SInv
<1>1. ASSUME NEW v \in Workers, v # w, OnlyWorker(v) PROVE FALSE
  BY <1>1 DEF OnlyWorker
<1>2. ASSUME NEW v \in Workers, NEW l \in Labels \ {"run", "stall"}, Goto(v, l) PROVE FALSE
  <2>1. OnlyWorker(v) /\ pc'[v] = l
    BY <1>0, <1>2, Gotos
  <2> QED BY <1>1, <1>2, <2>1
<1>3. ASSUME NEW v \in Workers, Loop(v) PROVE FALSE
  <2>1. OnlyWorker(v) /\ pc'[v] = "sweep"
    BY <1>0, <1>3, Loops
  <2> QED BY <1>1, <2>1
<1>4. ASSUME NEW v \in Workers, FinishTriage(v) PROVE FALSE
  <2>1. PICK l \in {"ack", "release", "resend"} : Decided(v, l)
    BY <1>4 DEF FinishTriage
  <2>2. OnlyWorker(v) /\ (pc'[v] = l \/ pc'[v] = pc[v])
    BY <1>0, <2>1, Decideds DEF Labels
  <2> QED BY <1>1, <2>2
<1>5. ASSUME NEW v \in Workers, Report(v) PROVE FALSE
  <2>1. ASSUME pc' = [pc EXCEPT ![v] = "triage"] PROVE FALSE
    BY <1>0, <2>1 DEF WType
  <2> QED BY <1>2, <1>5, <2>1 DEF Report, Labels
<1>6. ASSUME NEW v \in Workers, Receive(v) PROVE FALSE
  BY <1>0, <1>6 DEF Receive, WType
<1>7. ASSUME NEW v \in Workers,
             AskStatus(v) \/ ReleaseMessage(v) \/ Resend(v) \/ AckMessage(v) \/ Crash(v)
      PROVE FALSE
  BY <1>2, <1>3, <1>7 DEF AskStatus, ReleaseMessage, Resend, AckMessage, Crash, Labels
<1>8. ASSUME pc' = pc PROVE FALSE
  BY <1>8
<1>9. ASSUME NEW v \in Workers, ChaosKill(v) PROVE FALSE
  BY <1>2, <1>8, <1>9 DEF ChaosKill, workerVars, Labels
<1>10. ASSUME CoSpawn \/ \E v \in Workers : ChaosSpawn(v) PROVE FALSE
  <2>1. ASSUME Spawn PROVE FALSE
    <3>1. spawned + 1 \in Workers /\ Goto(spawned + 1, "sweep")
      BY <1>0, <2>1, Numbers DEF Spawn, Workers, PType
    <3> QED BY <1>2, <3>1 DEF Labels
  <2> QED BY <1>8, <1>10, <2>1 DEF CoSpawn, ChaosSpawn, workerVars
<1>11. ASSUME CoDrainKill PROVE FALSE
  BY <1>0, <1>11 DEF CoDrainKill
<1>12. ASSUME \/ CoClose \/ CoDone \/ CoLook \/ CoFinish \/ WatchDeadLetters \/ UNCHANGED vars
              \/ \E v \in Workers : CoExit(v) \/ PollRedrives(v) \/ PollEmpty(v)
              \/ \E j \in Jobs : CoSubmit(j)
              \/ \E i \in DOMAIN msgs : Timeout(i)
       PROVE  FALSE
  <2>1. pc' = pc
    BY <1>12 DEF CoClose, CoDone, CoLook, CoFinish, WatchDeadLetters, vars, CoExit, CoSubmit, Timeout,
         PollRedrives, PollEmpty, workerVars
  <2> QED BY <1>8, <2>1
<1>13. ASSUME NEW v \in Workers, StartJob(v) PROVE StartJob(w) /\ Started(Job(w), d[w].rc)
  <2>1. ASSUME NEW l \in {"stall", "run"}, Goto(v, l) PROVE v = w
    BY <1>0, <1>1, <2>1, Gotos DEF Labels
  <2>2. ASSUME Goto(v, "ack") PROVE FALSE
    BY <1>2, <2>2 DEF Labels
  <2>3. v = w /\ Started(Job(v), d[v].rc)
    BY <1>13, <2>1, <2>2 DEF StartJob
  <2> QED BY <1>13, <2>3
<1> QED BY <1>4, <1>5, <1>6, <1>7, <1>9, <1>10, <1>11, <1>12, <1>13
     DEF SQSNext, CoStep, WorkerStep, Returned

\* On purged queues, while nobody dies but by the chaos goroutine and no delivery outlives
\* its visibility timeout, Started counts a redelivery exactly when the holder before was
\* killed: receive counts and the released set tell a triaged retry from a lost holder,
\* whatever the number of workers, retries and adjusted copies of the job.
THEOREM RedeliveriesCountKills ==
  ASSUME Leftover = <<>>, MaxFaults = 0, MaxStalls = 0
  PROVE  SQSSafety => RedeliveredExact
<1> DEFINE Step == \A w \in Workers : pc[w] = "got" /\ pc'[w] \in {"run", "stall"} =>
                     (stats'.Redelivered # stats.Redelivered) = d[w].lapsed
<1>1. SQSInit => RInv
  BY InitRInv
<1>2. ASSUME RInv, [SQSNext]_vars PROVE Step
  <2> SUFFICES ASSUME NEW w \in Workers, pc[w] = "got", pc'[w] \in {"run", "stall"}
               PROVE  (stats'.Redelivered # stats.Redelivered) = d[w].lapsed
    OBVIOUS
  <2>0. SInv /\ FInv /\ OInv /\ Counts /\ DoneOK /\ Own /\ WType /\ CType /\ Holding(w)
    BY <1>2 DEF RInv, FInv, OInv, SInv, CInv, Holding
  <2>1. Started(Job(w), d[w].rc)
    BY <1>2, <2>0, OnlyStartStarts
  <2>2. outcome[Job(w)] = "none"
    BY <2>1 DEF Started
  <2>3. Quiet /\ ~done
    <3>1. Quiet
      BY <2>0 DEF Counts, Quiet
    <3>2. d[w].m \in DOMAIN msgs /\ Job(w) = msgs[d[w].m].job
      BY <2>0, HeldMessage DEF Job
    <3> QED BY <2>0, <2>2, <3>1, <3>2 DEF Own, DoneOK, Terminal
  <2>4. Told(Job(w), d[w].rc - 1, d[w].lapsed)
    BY <1>2, <2>0, <2>2, <2>3 DEF RInv, ReleasesOK, Planned
  <2>5. stats'.Redelivered # stats.Redelivered <=> d[w].rc > 1 /\ Job(w) \notin released
    <3>1. /\ stats.Redelivered \in Nat
          /\ stats \in [Submitted : Nat, Succeeded : Nat, Escalated : Nat,
                        DeadLettered : Nat, Redelivered : Nat]
      BY <2>0 DEF CType
    <3> QED BY <2>1, <3>1 DEF Started
  <2>6. d[w].rc - 1 >= 1 <=> d[w].rc > 1
    BY <2>0, HeldMessage
  <2>7. d[w].lapsed \in BOOLEAN
    BY <2>0 DEF WType, Deliveries
  <2>8. d[w].lapsed <=> stats'.Redelivered # stats.Redelivered
    BY <2>4, <2>5, <2>6 DEF Told
  <2> QED BY <2>7, <2>8
<1>3. RInv /\ [SQSNext]_vars => [Step]_vars
  BY <1>2
<1> HIDE DEF Step
<1>4. SQSSafety => [][Step]_vars
  BY <1>1, <1>3, NextRInv, PTL DEF SQSSafety
<1> QED BY <1>4 DEF Step, RedeliveredExact

=============================================================================
