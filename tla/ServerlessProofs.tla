-------------------------- MODULE ServerlessProofs --------------------------
(***************************************************************************)
(* Proofs about the serverless path, for any number of POSTs, any choice   *)
(* of job ids and injected failures, and any retry limits and bounds.      *)
(***************************************************************************)
EXTENDS Serverless, FiniteSetTheorems, TLAPS

\* The errors RunJob ends with; "ok" is its success.
Errors == {"none", "ok", "PermanentJobError", "TransientJobError", "States.TaskFailed"}

Execution ==
  [name : {"sqs"} \X Nat, msg : Nat, state : {"RunJob", "DeadLetter"} \cup Closed,
   retries : 0..TaskRetries, error : Errors, sends : 0..DLQRetries]

\* An execution bears the name of its message, and every resend of its dead
\* letter was a fault.
ExecsOK ==
  /\ execs \subseteq Execution
  /\ \A e \in execs : e.name = ExecutionName(e.msg) /\ e.sends <= faults

OneEach == \A e, f \in execs : e.msg = f.msg => e = f

\* A message that is or may be deleted has been handed over.
HandedOver ==
  \A m \in DOMAIN msgs :
    msgs[m].place \in {"acking", "gone"} => \E e \in execs : e.msg = m

\* Nothing malformed gets past submit.
Accepted ==
  /\ \A p \in Posts : reply[p] = "sending" => kind[p] # "malformed"
  /\ \A m \in DOMAIN msgs : kind[msgs[m].post] # "malformed"

\* No deployment can have made a function refuse message m.
Unaffected(m) == redeploys = 0 \/ kind[msgs[m].post] = "none"

\* Without a deployment the functions agree, and every delivery of an unaffected
\* message but the one under way was paid for with a fault.
Paid ==
  /\ redeploys = 0 => \A f \in Functions : allow[f]
  /\ \A m \in DOMAIN msgs : Unaffected(m) =>
       msgs[m].receives <= faults + IF msgs[m].place \in {"queue", "dlq"} THEN 0 ELSE 1

Exhausted ==
  \A m \in DOMAIN msgs : msgs[m].place = "dlq" => msgs[m].receives = MaxReceive

MsgsOK == Accepted /\ Paid /\ Exhausted

\* The inductive invariant.
IInv == SLTypeOK /\ ExecsOK /\ OneEach /\ HandedOver /\ MsgsOK /\ FailedIsDeadLettered

-----------------------------------------------------------------------------
LEMMA Bounds ==
  /\ SendTries \in Nat \ {0} /\ MaxReceive \in Nat \ {0} /\ TaskRetries \in Nat
  /\ DLQRetries \in Nat /\ MaxFaults \in Nat /\ MaxRedeploys \in Nat
BY ServerlessAssumption

LEMMA KindType == \A k \in KindChoices : k \in [Posts -> Kinds]
BY ServerlessAssumption

LEMMA Received ==
  ASSUME msgs \in Seq(Message)
  PROVE  \A n \in DOMAIN msgs : msgs[n] \in Message /\ msgs[n].receives \in Nat
<1>1. \A n \in DOMAIN msgs : msgs[n] \in Message
  OBVIOUS
<1>2. \A e \in Message : e.receives \in Nat
  BY Bounds DEF Message
<1> QED BY <1>1, <1>2

\* A message that moves keeps its place in the sequence, its POST and its count.
LEMMA Moved ==
  ASSUME msgs \in Seq(Message), NEW m \in DOMAIN msgs,
         NEW place \in {"queue", "worker", "acking", "gone", "dlq"}, Move(m, place)
  PROVE  /\ msgs' \in Seq(Message) /\ DOMAIN msgs' = DOMAIN msgs
         /\ msgs'[m].place = place
         /\ \A n \in DOMAIN msgs : /\ msgs'[n].post = msgs[n].post
                                   /\ msgs'[n].receives = msgs[n].receives
                                   /\ n # m => msgs'[n] = msgs[n]
<1> DEFINE e == [msgs[m] EXCEPT !.place = place]
<1>1. msgs[m] \in Message
  OBVIOUS
<1>2. e \in Message /\ e.place = place /\ e.post = msgs[m].post /\ e.receives = msgs[m].receives
  BY <1>1 DEF Message
<1>3. msgs' = [msgs EXCEPT ![m] = e]
  BY DEF Move
<1> HIDE DEF e
<1> QED BY <1>2, <1>3

\* A message that SQS accepts goes behind the others.
LEMMA Accepting ==
  ASSUME msgs \in Seq(Message), NEW p \in Posts, msgs' = Enqueued(p)
  PROVE  /\ msgs' \in Seq(Message) /\ DOMAIN msgs' = DOMAIN msgs \cup {Len(msgs) + 1}
         /\ Len(msgs) + 1 \notin DOMAIN msgs
         /\ \A n \in DOMAIN msgs : msgs'[n] = msgs[n]
         /\ msgs'[Len(msgs) + 1].post = p /\ msgs'[Len(msgs) + 1].place = "queue"
         /\ msgs'[Len(msgs) + 1].receives = 0
<1> DEFINE e == [post |-> p, place |-> "queue", receives |-> 0]
<1>1. e \in Message
  BY Bounds DEF Message
<1>2. msgs' = Append(msgs, e)
  BY DEF Enqueued
<1> HIDE DEF e
<1>3. msgs' \in Seq(Message) /\ Len(msgs') = Len(msgs) + 1 /\ Len(msgs) \in Nat
  BY <1>1, <1>2
<1>4. \A n \in 1..Len(msgs) : msgs'[n] = msgs[n]
  BY <1>1, <1>2
<1>5. msgs'[Len(msgs) + 1] = e
  BY <1>1, <1>2
<1> QED BY <1>3, <1>4, <1>5 DEF e

-----------------------------------------------------------------------------
\* Steps that leave executions and dead letters alone: what is said of them stays.
LEMMA ExecsStay ==
  ASSUME IInv, UNCHANGED <<execs, dlq>>, faults' \in Nat, faults <= faults',
         DOMAIN msgs \subseteq DOMAIN msgs'
  PROVE  /\ ExecsOK' /\ OneEach' /\ FailedIsDeadLettered'
         /\ \A e \in execs' : e.msg \in DOMAIN msgs'
         /\ \A d \in dlq' : d.msg \in DOMAIN msgs'
<1>1. ExecsOK'
  <2>1. \A e \in execs : e.sends \in Nat /\ e.sends <= faults /\ faults \in Nat
    BY Bounds DEF IInv, ExecsOK, Execution, SLTypeOK
  <2> QED BY <2>1 DEF IInv, ExecsOK, ExecutionName
<1>2. OneEach'
  BY DEF IInv, OneEach
<1>3. FailedIsDeadLettered'
  <2>1. faults \in Nat
    BY Bounds DEF IInv, SLTypeOK
  <2>2. \A e \in execs : DeadLetterOf(e)' = DeadLetterOf(e)
    BY DEF DeadLetterOf
  <2> QED BY <2>1, <2>2, Bounds DEF IInv, FailedIsDeadLettered
<1> QED BY <1>1, <1>2, <1>3 DEF IInv, SLTypeOK

\* submit accepts a request, and SQS the message of one: faults at most go up.
LEMMA SendKeeps ==
  ASSUME IInv, NEW p \in Posts, reply[p] = "sending", msgs' = Enqueued(p),
         UNCHANGED <<kind, execs, dlq, allow, redeploys>>,
         faults' \in Nat, faults <= faults', 
         \A q \in Posts : reply'[q] = "sending" => reply[q] = "sending"
  PROVE  MsgsOK' /\ HandedOver'
<1>1. msgs \in Seq(Message) /\ faults \in Nat
  BY Bounds DEF IInv, SLTypeOK
<1>2. /\ msgs' \in Seq(Message) /\ DOMAIN msgs' = DOMAIN msgs \cup {Len(msgs) + 1}
      /\ \A n \in DOMAIN msgs : msgs'[n] = msgs[n]
      /\ msgs'[Len(msgs) + 1].post = p /\ msgs'[Len(msgs) + 1].place = "queue"
      /\ msgs'[Len(msgs) + 1].receives = 0
  BY <1>1, Accepting
<1>3. \A n \in DOMAIN msgs : msgs[n].receives \in Nat
  BY <1>1, Received
<1>4. Accepted'
  BY <1>2 DEF IInv, MsgsOK, Accepted
<1>5. Paid'
  BY <1>1, <1>2, <1>3 DEF IInv, MsgsOK, Paid, Unaffected
<1>6. Exhausted'
  BY <1>2 DEF IInv, MsgsOK, Exhausted
<1>7. HandedOver'
  BY <1>2 DEF IInv, HandedOver
<1> QED BY <1>4, <1>5, <1>6, <1>7 DEF MsgsOK

\* Steps of the request, the functions and the executions leave the messages alone.
LEMMA MsgsStay ==
  ASSUME IInv, UNCHANGED <<kind, msgs, allow, redeploys>>,
         faults' \in Nat, faults <= faults', 
         \A q \in Posts : reply'[q] = "sending" => reply[q] = "sending" \/ kind[q] # "malformed",
         \A e \in execs : \E f \in execs' : f.msg = e.msg
  PROVE  MsgsOK' /\ HandedOver'
<1>1. msgs \in Seq(Message) /\ faults \in Nat
  BY Bounds DEF IInv, SLTypeOK
<1>3. \A n \in DOMAIN msgs : msgs[n].receives \in Nat
  BY <1>1, Received
<1>4. Accepted'
  BY DEF IInv, MsgsOK, Accepted
<1>5. Paid'
  BY <1>1, <1>3 DEF IInv, MsgsOK, Paid, Unaffected
<1>6. Exhausted'
  BY DEF IInv, MsgsOK, Exhausted
<1>7. HandedOver'
  BY DEF IInv, HandedOver
<1> QED BY <1>4, <1>5, <1>6, <1>7 DEF MsgsOK

\* A message moves: what must be shown of the step is about that message alone.
LEMMA MoveKeeps ==
  ASSUME IInv, NEW m \in DOMAIN msgs,
         NEW place \in {"queue", "worker", "acking", "gone", "dlq"}, Move(m, place),
         UNCHANGED <<kind, reply, allow, redeploys>>, execs \subseteq execs',
         faults' \in Nat, faults <= faults',
         place \in {"acking", "gone"} => \E e \in execs' : e.msg = m,
         Unaffected(m) =>
           msgs[m].receives <= faults' + IF place \in {"queue", "dlq"} THEN 0 ELSE 1,
         place = "dlq" => msgs[m].receives = MaxReceive
  PROVE  MsgsOK' /\ HandedOver'
<1>1. msgs \in Seq(Message) /\ faults \in Nat
  BY Bounds DEF IInv, SLTypeOK
<1>2. /\ DOMAIN msgs' = DOMAIN msgs
      /\ msgs'[m].place = place
      /\ \A n \in DOMAIN msgs : /\ msgs'[n].post = msgs[n].post
                                /\ msgs'[n].receives = msgs[n].receives
                                /\ n # m => msgs'[n] = msgs[n]
  BY <1>1, Moved
<1>3. \A n \in DOMAIN msgs : msgs[n].receives \in Nat
  BY <1>1, Received
<1>4. Accepted'
  BY <1>2 DEF IInv, MsgsOK, Accepted
<1>5. Paid'
  BY <1>1, <1>2, <1>3 DEF IInv, MsgsOK, Paid, Unaffected
<1>6. Exhausted'
  BY <1>2 DEF IInv, MsgsOK, Exhausted
<1>7. HandedOver'
  BY <1>2 DEF IInv, HandedOver
<1> QED BY <1>4, <1>5, <1>6, <1>7 DEF MsgsOK

\* Execution e becomes f, of the same message.
LEMMA BecomesKeeps ==
  ASSUME IInv, NEW e \in execs, NEW f \in Execution, Becomes(e, f),
         f.name = e.name, f.msg = e.msg, faults' \in Nat, faults <= faults', f.sends <= faults',
         f.state = "Failed" => DeadLetterOf(f) \in dlq',
         f.state = "Aborted" => faults' > DLQRetries,
         dlq' \subseteq dlq \cup {DeadLetterOf(e)}, dlq \subseteq dlq'
  PROVE  /\ ExecsOK' /\ OneEach' /\ FailedIsDeadLettered' /\ HandedOver' /\ MsgsOK'
         /\ \A g \in execs' : g \in Execution /\ g.msg \in DOMAIN msgs'
         /\ \A d \in dlq' : d.msg \in DOMAIN msgs'
<1>1. execs' = (execs \ {e}) \cup {f} /\ UNCHANGED <<kind, reply, tries, msgs, allow, redeploys>>
  BY DEF Becomes, submitVars
<1>2. faults \in Nat /\ \A g \in execs : g.sends \in Nat /\ g.sends <= faults
  BY Bounds DEF IInv, ExecsOK, Execution, SLTypeOK
<1>3. ExecsOK'
  BY <1>1, <1>2 DEF IInv, ExecsOK, ExecutionName
<1>4. OneEach'
  BY <1>1 DEF IInv, OneEach
<1>5. FailedIsDeadLettered'
  <2> SUFFICES ASSUME NEW g \in execs'
               PROVE  /\ g.state = "Failed" => DeadLetterOf(g) \in dlq'
                      /\ g.state = "Aborted" => faults' > DLQRetries
    BY DEF FailedIsDeadLettered, DeadLetterOf
  <2>1. CASE g = f
    BY <2>1
  <2>2. CASE g \in execs
    BY <1>2, <2>2, Bounds DEF IInv, FailedIsDeadLettered
  <2> QED BY <1>1, <2>1, <2>2
<1>6. HandedOver' /\ MsgsOK'
  BY <1>1, MsgsStay
<1>7. \A d \in dlq' : d.msg \in DOMAIN msgs'
  BY <1>1 DEF IInv, SLTypeOK, DeadLetterOf
<1>8. \A g \in execs' : g \in Execution /\ g.msg \in DOMAIN msgs'
  BY <1>1, <1>3 DEF IInv, SLTypeOK, ExecsOK
<1> QED BY <1>3, <1>4, <1>5, <1>6, <1>7, <1>8

-----------------------------------------------------------------------------
LEMMA InitIInv == SLInit => IInv
<1> SUFFICES ASSUME SLInit PROVE IInv
  OBVIOUS
<1>1. SLTypeOK
  BY Bounds DEF SLInit, SLTypeOK, Functions
<1>2. ExecsOK /\ OneEach /\ HandedOver /\ FailedIsDeadLettered
  BY DEF SLInit, ExecsOK, OneEach, HandedOver, FailedIsDeadLettered
<1>3. MsgsOK
  BY DEF SLInit, MsgsOK, Accepted, Paid, Exhausted
<1> QED BY <1>1, <1>2, <1>3 DEF IInv

\* The fault counter.
LEMMA Faulted == 
  ASSUME IInv, Fault PROVE faults' \in 0..MaxFaults /\ faults' \in Nat /\ faults' = faults + 1 /\ faults <= faults'
BY Bounds DEF IInv, SLTypeOK, Fault

LEMMA NotFaulted == 
  ASSUME IInv, UNCHANGED faults PROVE faults' \in 0..MaxFaults /\ faults' \in Nat /\ faults <= faults'
BY Bounds DEF IInv, SLTypeOK

\* A bad send leaves the request with a retry or with a 503.
LEMMA BadSend ==
  ASSUME IInv, NEW p \in Posts, reply[p] = "sending", AfterBadSend(p)
  PROVE  /\ reply' \in [Posts -> {"new", "sending", "202", "400", "503"}]
         /\ tries' \in [Posts -> 0..SendTries]
         /\ \A q \in Posts : reply'[q] = "sending" => reply[q] = "sending"
<1>1. CASE tries[p] < SendTries
  BY <1>1, Bounds DEF IInv, SLTypeOK, AfterBadSend
<1>2. CASE ~(tries[p] < SendTries)
  BY <1>2, Bounds DEF IInv, SLTypeOK, AfterBadSend
<1> QED BY <1>1, <1>2

\* The steps of submit.
LEMMA SubmitKeeps ==
  ASSUME IInv, NEW p \in Posts,
         Submission(p) \/ SendFails(p) \/ SendAnswerLost(p) \/ Resubmit(p)
  PROVE  IInv'
<1>0. msgs \in Seq(Message) /\ kind \in [Posts -> Kinds]
  BY KindType DEF IInv, SLTypeOK
<1>1. ASSUME Post(p) PROVE IInv'
  <2>1. UNCHANGED <<kind, msgs, execs, dlq, allow, faults, redeploys>>
    BY <1>1 DEF Post
  <2>2. reply' \in [Posts -> {"new", "sending", "202", "400", "503"}] /\ tries' \in [Posts -> 0..SendTries]
    BY <1>1, Bounds DEF Post, IInv, SLTypeOK
  <2>3. \A q \in Posts : reply'[q] = "sending" => reply[q] = "sending" \/ kind[q] # "malformed"
    BY <1>1 DEF Post, Valid, IInv, SLTypeOK
  <2>4. ExecsOK' /\ OneEach' /\ FailedIsDeadLettered'
    BY <2>1, NotFaulted, ExecsStay
  <2>5. MsgsOK' /\ HandedOver'
    BY <2>1, <2>3, NotFaulted, MsgsStay
  <2>6. SLTypeOK'
    BY <2>1, <2>2 DEF IInv, SLTypeOK
  <2> QED BY <2>4, <2>5, <2>6 DEF IInv
<1>2. ASSUME Resubmit(p) PROVE IInv'
  <2>1. UNCHANGED <<kind, tries, msgs, execs, dlq, allow, faults, redeploys>>
    BY <1>2 DEF Resubmit
  <2>2. reply' \in [Posts -> {"new", "sending", "202", "400", "503"}]
    BY <1>2 DEF Resubmit, IInv, SLTypeOK
  <2>3. \A q \in Posts : reply'[q] = "sending" => reply[q] = "sending" \/ kind[q] # "malformed"
    BY <1>2 DEF Resubmit, IInv, SLTypeOK
  <2>4. ExecsOK' /\ OneEach' /\ FailedIsDeadLettered'
    BY <2>1, NotFaulted, ExecsStay
  <2>5. MsgsOK' /\ HandedOver'
    BY <2>1, <2>3, NotFaulted, MsgsStay
  <2>6. SLTypeOK'
    BY <2>1, <2>2 DEF IInv, SLTypeOK
  <2> QED BY <2>4, <2>5, <2>6 DEF IInv
<1>3. ASSUME SendFails(p) PROVE IInv'
  <2>1. UNCHANGED <<kind, msgs, execs, dlq, allow, redeploys>> /\ Fault /\ reply[p] = "sending" /\ AfterBadSend(p)
    BY <1>3 DEF SendFails
  <2>2. faults' \in 0..MaxFaults /\ faults' \in Nat /\ faults <= faults'
    BY <2>1, Faulted
  <2>3. /\ reply' \in [Posts -> {"new", "sending", "202", "400", "503"}] /\ tries' \in [Posts -> 0..SendTries]
        /\ \A q \in Posts : reply'[q] = "sending" => reply[q] = "sending"
    BY <2>1, BadSend
  <2>4. ExecsOK' /\ OneEach' /\ FailedIsDeadLettered'
    BY <2>1, <2>2, ExecsStay
  <2>5. MsgsOK' /\ HandedOver'
    BY <2>1, <2>2, <2>3, MsgsStay
  <2>6. SLTypeOK'
    BY <2>1, <2>2, <2>3 DEF IInv, SLTypeOK
  <2> QED BY <2>4, <2>5, <2>6 DEF IInv
<1>4. ASSUME UNCHANGED <<kind, execs, dlq, allow, redeploys>>, msgs' = Enqueued(p), reply[p] = "sending",
             faults' \in 0..MaxFaults, faults <= faults',
             reply' \in [Posts -> {"new", "sending", "202", "400", "503"}], tries' \in [Posts -> 0..SendTries],
             \A q \in Posts : reply'[q] = "sending" => reply[q] = "sending"
      PROVE  IInv'
  <2>1. msgs' \in Seq(Message) /\ DOMAIN msgs \subseteq DOMAIN msgs' /\ faults' \in Nat
    <3>1. msgs' = Enqueued(p)
      BY <1>4
    <3>2. msgs' \in Seq(Message) /\ DOMAIN msgs' = DOMAIN msgs \cup {Len(msgs) + 1}
      BY <1>0, <3>1, Accepting
    <3> QED BY <1>4, <3>2, Bounds
  <2>4. /\ ExecsOK' /\ OneEach' /\ FailedIsDeadLettered'
        /\ \A e \in execs' : e.msg \in DOMAIN msgs'
        /\ \A d \in dlq' : d.msg \in DOMAIN msgs'
    BY <1>4, <2>1, ExecsStay
  <2>5. MsgsOK' /\ HandedOver'
    BY <1>4, <2>1, SendKeeps
  <2>6. SLTypeOK'
    BY <1>4, <2>1, <2>4 DEF IInv, SLTypeOK
  <2> QED BY <2>4, <2>5, <2>6 DEF IInv
<1>5. ASSUME SendAnswered(p) PROVE IInv'
  <2>1. /\ reply' \in [Posts -> {"new", "sending", "202", "400", "503"}] /\ tries' \in [Posts -> 0..SendTries]
        /\ \A q \in Posts : reply'[q] = "sending" => reply[q] = "sending"
    BY <1>5 DEF SendAnswered, IInv, SLTypeOK
  <2> QED BY <1>4, <1>5, <2>1, NotFaulted DEF SendAnswered
<1>6. ASSUME SendAnswerLost(p) PROVE IInv'
  <2>1. /\ reply' \in [Posts -> {"new", "sending", "202", "400", "503"}] /\ tries' \in [Posts -> 0..SendTries]
        /\ \A q \in Posts : reply'[q] = "sending" => reply[q] = "sending"
    BY <1>6, BadSend DEF SendAnswerLost
  <2> QED BY <1>4, <1>6, <2>1, Faulted DEF SendAnswerLost
<1> QED BY <1>1, <1>2, <1>3, <1>5, <1>6 DEF Submission

\* A step that moves message m, and may add an execution of it.
LEMMA MoveStep ==
  ASSUME IInv, NEW m \in DOMAIN msgs,
         NEW place \in {"queue", "worker", "acking", "gone", "dlq"}, Move(m, place),
         UNCHANGED <<kind, reply, tries, execs, dlq, allow, redeploys>>,
         faults' \in 0..MaxFaults, faults' \in Nat, faults <= faults',
         place \in {"acking", "gone"} => \E e \in execs' : e.msg = m,
         Unaffected(m) =>
           msgs[m].receives <= faults' + IF place \in {"queue", "dlq"} THEN 0 ELSE 1,
         place = "dlq" => msgs[m].receives = MaxReceive
  PROVE  IInv'
<1>1. msgs \in Seq(Message)
  BY DEF IInv, SLTypeOK
<1>2. msgs' \in Seq(Message) /\ DOMAIN msgs' = DOMAIN msgs
  BY <1>1, Moved
<1>3. MsgsOK' /\ HandedOver'
  BY MoveKeeps
<1>4. /\ ExecsOK' /\ OneEach' /\ FailedIsDeadLettered'
      /\ \A e \in execs' : e.msg \in DOMAIN msgs'
      /\ \A d \in dlq' : d.msg \in DOMAIN msgs'
  BY <1>2, ExecsStay
<1>5. SLTypeOK'
  BY <1>2, <1>4 DEF IInv, SLTypeOK
<1> QED BY <1>3, <1>4, <1>5 DEF IInv

\* An execution starts once: another of the same message has the same name.
LEMMA HandoffKeeps ==
  ASSUME IInv, NEW m \in DOMAIN msgs, Handoff(m)
  PROVE  IInv'
<1>0. msgs \in Seq(Message) /\ DOMAIN msgs \subseteq Nat /\ faults \in Nat
  BY Bounds DEF IInv, SLTypeOK
<1>1. /\ msgs[m].place = "worker" /\ Move(m, "acking")
      /\ execs' = execs \cup IF Named(m) = {} THEN {NewExecution(m)} ELSE {}
      /\ UNCHANGED <<kind, reply, tries, dlq, allow, faults, redeploys>>
  BY DEF Handoff, Start, submitVars
<1>2. msgs' \in Seq(Message) /\ DOMAIN msgs' = DOMAIN msgs
  BY <1>0, <1>1, Moved
<1> DEFINE x == NewExecution(m)
<1>3. /\ x \in Execution /\ x.name = ExecutionName(m) /\ x.msg = m
      /\ x.state = "RunJob" /\ x.sends = 0 /\ x.retries = 0
  <2>1. ExecutionName(m) \in {"sqs"} \X Nat /\ m \in Nat
    BY <1>0 DEF ExecutionName
  <2>2. 0 \in 0..TaskRetries /\ 0 \in 0..DLQRetries
    BY Bounds
  <2> QED BY <2>1, <2>2 DEF NewExecution, Execution, Errors
<1>4. \A e \in execs : e.name = ExecutionName(m) <=> e.msg = m
  <2>1. \A n \in Nat : ExecutionName(n) = ExecutionName(m) => n = m
    BY DEF ExecutionName
  <2>2. \A e \in execs : e.msg \in Nat /\ e.name = ExecutionName(e.msg)
    BY DEF IInv, ExecsOK, Execution
  <2> QED BY <2>1, <2>2
<1>5. execs \subseteq execs' /\ \E e \in execs' : e.msg = m
  <2>1. CASE Named(m) = {}
    BY <1>1, <1>3, <2>1
  <2>2. CASE Named(m) # {}
    BY <1>1, <1>4, <2>2 DEF Named
  <2> QED BY <2>1, <2>2
<1>6. MsgsOK' /\ HandedOver'
  <2>1. Unaffected(m) => msgs[m].receives <= faults + 1
    BY <1>1 DEF IInv, MsgsOK, Paid
  <2>2. faults' \in Nat /\ faults <= faults' /\ UNCHANGED <<kind, reply, allow, redeploys>>
    BY <1>0, <1>1
  <2>3. Unaffected(m) =>
          msgs[m].receives <= faults' + IF "acking" \in {"queue", "dlq"} THEN 0 ELSE 1
    BY <1>1, <2>1
  <2> QED BY <1>1, <1>5, <2>2, <2>3, MoveKeeps
<1> HIDE DEF x
<1>7. \A e \in execs' : e \in execs \/ (e = x /\ \A f \in execs : f.msg # m)
  BY <1>1, <1>4 DEF Named, x
<1>8. ExecsOK'
  BY <1>0, <1>1, <1>3, <1>7 DEF IInv, ExecsOK, ExecutionName
<1>9. OneEach'
  BY <1>3, <1>7 DEF IInv, OneEach
<1>10. FailedIsDeadLettered'
  <2>1. \A e \in execs : e.state = "Failed" => DeadLetterOf(e) \in dlq'
    BY <1>1 DEF IInv, FailedIsDeadLettered
  <2>2. \A e \in execs : e.state = "Aborted" => faults' > DLQRetries
    BY <1>1 DEF IInv, FailedIsDeadLettered
  <2> QED BY <1>3, <1>7, <2>1, <2>2 DEF FailedIsDeadLettered, DeadLetterOf
<1>11. SLTypeOK'
  <2>1. \A e \in execs' :
          /\ e.msg \in DOMAIN msgs'
          /\ e.state \in {"RunJob", "DeadLetter"} \cup Closed
          /\ e.retries \in 0..TaskRetries /\ e.sends \in 0..DLQRetries
    BY <1>2, <1>3, <1>7, Bounds DEF IInv, SLTypeOK
  <2> QED BY <1>1, <1>2, <2>1 DEF IInv, SLTypeOK
<1> QED BY <1>6, <1>8, <1>9, <1>10, <1>11 DEF IInv

\* A delivery counts.
LEMMA DeliverKeeps ==
  ASSUME IInv, NEW m \in DOMAIN msgs, Deliver(m)
  PROVE  IInv'
<1>0. msgs \in Seq(Message) /\ faults \in Nat
  BY Bounds DEF IInv, SLTypeOK
<1>1. /\ msgs[m].place = "queue" /\ msgs[m].receives < MaxReceive
      /\ UNCHANGED <<kind, reply, tries, execs, dlq, allow, faults, redeploys>>
  BY DEF Deliver, submitVars
<1> DEFINE e == [msgs[m] EXCEPT !.place = "worker", !.receives = @ + 1]
<1>2. msgs' = [msgs EXCEPT ![m] = e]
  BY DEF Deliver
<1>3. \A n \in DOMAIN msgs : msgs[n] \in Message /\ msgs[n].receives \in Nat
  BY <1>0, Received
<1>4. e \in Message /\ e.place = "worker" /\ e.post = msgs[m].post /\ e.receives = msgs[m].receives + 1
  <2>1. msgs[m].receives + 1 \in 0..MaxReceive
    BY <1>1, <1>3, Bounds
  <2> QED BY <1>3, <2>1 DEF Message
<1> HIDE DEF e
<1>5. /\ msgs' \in Seq(Message) /\ DOMAIN msgs' = DOMAIN msgs
      /\ \A n \in DOMAIN msgs : msgs'[n] = IF n = m THEN e ELSE msgs[n]
  BY <1>0, <1>2, <1>4
<1>6. /\ ExecsOK' /\ OneEach' /\ FailedIsDeadLettered'
      /\ \A f \in execs' : f.msg \in DOMAIN msgs'
      /\ \A d \in dlq' : d.msg \in DOMAIN msgs'
  BY <1>0, <1>1, <1>5, ExecsStay
<1>7. Accepted'
  BY <1>1, <1>4, <1>5 DEF IInv, MsgsOK, Accepted
<1>8. Paid'
  <2> SUFFICES ASSUME NEW n \in DOMAIN msgs, Unaffected(n)
               PROVE  msgs'[n].receives <= faults
                        + IF msgs'[n].place \in {"queue", "dlq"} THEN 0 ELSE 1
    BY <1>1, <1>4, <1>5 DEF Paid, IInv, MsgsOK, Unaffected
  <2>1. msgs[n].receives <= faults + IF msgs[n].place \in {"queue", "dlq"} THEN 0 ELSE 1
    BY DEF IInv, MsgsOK, Paid
  <2>2. CASE n = m
    BY <1>0, <1>1, <1>3, <1>4, <1>5, <2>1, <2>2
  <2>3. CASE n # m
    BY <1>5, <2>1, <2>3
  <2> QED BY <2>2, <2>3
<1>9. Exhausted'
  BY <1>4, <1>5 DEF IInv, MsgsOK, Exhausted
<1>10. HandedOver'
  BY <1>1, <1>4, <1>5 DEF IInv, HandedOver
<1>11. SLTypeOK'
  BY <1>1, <1>5, <1>6 DEF IInv, SLTypeOK
<1> QED BY <1>6, <1>7, <1>8, <1>9, <1>10, <1>11 DEF IInv, MsgsOK

\* A message at its limit becomes a dead letter.
LEMMA RedriveKeeps ==
  ASSUME IInv, NEW m \in DOMAIN msgs, Redrive(m)
  PROVE  IInv'
<1>0. msgs \in Seq(Message) /\ faults \in Nat
  BY Bounds DEF IInv, SLTypeOK
<1> DEFINE x == [msg |-> m, via |-> "redrive", error |-> "none"]
<1>1. /\ msgs[m].place = "queue" /\ msgs[m].receives = MaxReceive /\ Move(m, "dlq")
      /\ dlq' = dlq \cup {x}
      /\ UNCHANGED <<kind, reply, tries, execs, allow, faults, redeploys>>
  BY DEF Redrive, submitVars
<1>2. msgs' \in Seq(Message) /\ DOMAIN msgs' = DOMAIN msgs
  BY <1>0, <1>1, Moved
<1>3. MsgsOK' /\ HandedOver'
  <2>1. Unaffected(m) =>
          msgs[m].receives <= faults' + IF "dlq" \in {"queue", "dlq"} THEN 0 ELSE 1
    BY <1>0, <1>1 DEF IInv, MsgsOK, Paid
  <2> QED BY <1>0, <1>1, <2>1, MoveKeeps
<1>4. x.msg = m
  OBVIOUS
<1> HIDE DEF x
<1>5. ExecsOK' /\ OneEach'
  BY <1>1 DEF IInv, ExecsOK, OneEach, ExecutionName
<1>6. FailedIsDeadLettered'
  BY <1>1 DEF IInv, FailedIsDeadLettered, DeadLetterOf
<1>7. SLTypeOK'
  BY <1>1, <1>2, <1>4 DEF IInv, SLTypeOK
<1> QED BY <1>3, <1>5, <1>6, <1>7 DEF IInv

\* The queue and start_jobs.
LEMMA QueueKeeps ==
  ASSUME IInv, NEW m \in DOMAIN msgs, Delivery(m) \/ HandoffFails(m) \/ AckLost(m)
  PROVE  IInv'
<1>0. faults \in Nat /\ \A n \in DOMAIN msgs : msgs[n] \in Message /\ msgs[n].receives \in Nat
  BY Bounds, Received DEF IInv, SLTypeOK
<1>1. Unaffected(m) =>
        msgs[m].receives <= faults + IF msgs[m].place \in {"queue", "dlq"} THEN 0 ELSE 1
  BY DEF IInv, MsgsOK, Paid
<1>2. ASSUME HandoffRefused(m) PROVE IInv'
  <2>1. /\ msgs[m].place = "worker" /\ ~Valid(msgs[m].post, "worker") /\ Move(m, "queue")
        /\ UNCHANGED <<kind, reply, tries, execs, dlq, allow, faults, redeploys>>
    BY <1>2 DEF HandoffRefused, FailItem, submitVars
  <2>2. ~Unaffected(m)
    BY <2>1 DEF IInv, MsgsOK, Paid, Accepted, Valid, Functions, Unaffected
  <2>3. faults' \in 0..MaxFaults /\ faults' \in Nat /\ faults <= faults'
    BY <2>1, NotFaulted
  <2> QED BY <2>1, <2>2, <2>3, MoveStep
<1>3. ASSUME HandoffFails(m) PROVE IInv'
  <2>1. /\ msgs[m].place = "worker" /\ Move(m, "queue") /\ Fault
        /\ UNCHANGED <<kind, reply, tries, execs, dlq, allow, redeploys>>
    BY <1>3 DEF HandoffFails, FailItem, submitVars
  <2>2. faults' \in 0..MaxFaults /\ faults' \in Nat /\ faults' = faults + 1 /\ faults <= faults'
    BY <2>1, Faulted
  <2>3. Unaffected(m) =>
          msgs[m].receives <= faults' + IF "queue" \in {"queue", "dlq"} THEN 0 ELSE 1
    BY <1>0, <1>1, <2>1, <2>2
  <2> QED BY <2>1, <2>2, <2>3, MoveStep
<1>4. ASSUME Ack(m) PROVE IInv'
  <2>1. /\ msgs[m].place = "acking" /\ Move(m, "gone")
        /\ UNCHANGED <<kind, reply, tries, execs, dlq, allow, faults, redeploys>>
    BY <1>4 DEF Ack, submitVars
  <2>2. faults' \in 0..MaxFaults /\ faults' \in Nat /\ faults <= faults'
    BY <2>1, NotFaulted
  <2>3. Unaffected(m) =>
          msgs[m].receives <= faults' + IF "gone" \in {"queue", "dlq"} THEN 0 ELSE 1
    BY <1>0, <1>1, <2>1
  <2>4. \E e \in execs' : e.msg = m
    BY <2>1 DEF IInv, HandedOver
  <2> QED BY <2>1, <2>2, <2>3, <2>4, MoveStep
<1>5. ASSUME AckLost(m) PROVE IInv'
  <2>1. /\ msgs[m].place = "acking" /\ Move(m, "queue") /\ Fault
        /\ UNCHANGED <<kind, reply, tries, execs, dlq, allow, redeploys>>
    BY <1>5 DEF AckLost, submitVars
  <2>2. faults' \in 0..MaxFaults /\ faults' \in Nat /\ faults' = faults + 1 /\ faults <= faults'
    BY <2>1, Faulted
  <2>3. Unaffected(m) =>
          msgs[m].receives <= faults' + IF "queue" \in {"queue", "dlq"} THEN 0 ELSE 1
    BY <1>0, <1>1, <2>1, <2>2
  <2> QED BY <2>1, <2>2, <2>3, MoveStep
<1> QED BY <1>2, <1>3, <1>4, <1>5, HandoffKeeps, DeliverKeeps, RedriveKeeps DEF Delivery

-----------------------------------------------------------------------------
\* What the retriers and the catcher make of an execution.
LEMMA Retried ==
  ASSUME NEW e \in Execution, NEW error \in Errors
  PROVE  LET f == RetryOrCatch(e, error)
         IN  /\ f \in Execution /\ f.name = e.name /\ f.msg = e.msg /\ f.sends = e.sends
             /\ f.state \in {e.state, "DeadLetter"}
<1>1. CASE error # "PermanentJobError" /\ e.retries < TaskRetries
  BY <1>1, Bounds DEF RetryOrCatch, Execution
<1>2. CASE ~(error # "PermanentJobError" /\ e.retries < TaskRetries)
  BY <1>2, Bounds DEF RetryOrCatch, Execution
<1> QED BY <1>1, <1>2

LEMMA Resent ==
  ASSUME NEW e \in Execution
  PROVE  LET f == ResendOrAbort(e)
         IN  /\ f \in Execution /\ f.name = e.name /\ f.msg = e.msg /\ f.sends <= e.sends + 1
             /\ f.state = e.state \/ (f.state = "Aborted" /\ e.sends = DLQRetries)
<1>0. e.sends \in 0..DLQRetries
  BY DEF Execution
<1>1. CASE e.sends < DLQRetries
  BY <1>0, <1>1, Bounds DEF ResendOrAbort, Execution
<1>2. CASE ~(e.sends < DLQRetries)
  BY <1>0, <1>2, Bounds DEF ResendOrAbort, Execution, Closed
<1> QED BY <1>1, <1>2

\* A step of the workflow, from what it makes of the execution.
LEMMA BecomesStep ==
  ASSUME IInv, NEW e \in execs, NEW f \in Execution, Becomes(e, f),
         f.name = e.name, f.msg = e.msg, faults' \in 0..MaxFaults, faults' \in Nat,
         faults <= faults', f.sends <= faults',
         f.state = "Failed" => DeadLetterOf(f) \in dlq',
         f.state = "Aborted" => faults' > DLQRetries,
         dlq' \subseteq dlq \cup {DeadLetterOf(e)}, dlq \subseteq dlq'
  PROVE  IInv'
<1>1. /\ ExecsOK' /\ OneEach' /\ FailedIsDeadLettered' /\ HandedOver' /\ MsgsOK'
      /\ \A g \in execs' : g \in Execution /\ g.msg \in DOMAIN msgs'
      /\ \A d \in dlq' : d.msg \in DOMAIN msgs'
  BY BecomesKeeps
<1>2. UNCHANGED <<kind, reply, tries, msgs, allow, redeploys>>
  BY DEF Becomes, submitVars
<1>3. \A g \in execs' : /\ g.state \in {"RunJob", "DeadLetter"} \cup Closed
                        /\ g.retries \in 0..TaskRetries /\ g.sends \in 0..DLQRetries
  BY <1>1 DEF Execution
<1>4. SLTypeOK'
  BY <1>1, <1>2, <1>3 DEF IInv, SLTypeOK
<1> QED BY <1>1, <1>4 DEF IInv

LEMMA WorkflowKeeps ==
  ASSUME IInv, NEW e \in execs,
         Workflow(e) \/ TaskFaults(e) \/ DeadLetterFails(e) \/ TimesOut(e)
  PROVE  IInv'
<1>0. e \in Execution /\ e.sends \in Nat /\ e.sends <= faults /\ faults \in Nat
  BY Bounds DEF IInv, ExecsOK, Execution, SLTypeOK
<1>1. \A st \in Closed : LET f == [e EXCEPT !.state = st]
        IN  /\ f \in Execution /\ f.name = e.name /\ f.msg = e.msg /\ f.sends = e.sends
            /\ f.state = st /\ DeadLetterOf(f) = DeadLetterOf(e)
  BY <1>0 DEF Execution, DeadLetterOf, Closed
<1>2. ASSUME TaskSucceeds(e) PROVE IInv'
  <2> DEFINE f == [e EXCEPT !.state = "Completed"]
  <2>1. Becomes(e, f) /\ UNCHANGED <<dlq, faults>>
    BY <1>2 DEF TaskSucceeds
  <2>2. /\ f \in Execution /\ f.name = e.name /\ f.msg = e.msg /\ f.sends = e.sends
        /\ f.state = "Completed"
    BY <1>1 DEF Closed
  <2> HIDE DEF f
  <2>3. faults' \in 0..MaxFaults /\ faults' \in Nat /\ faults <= faults' /\ f.sends <= faults'
    BY <1>0, <2>1, <2>2, NotFaulted
  <2> QED BY <2>1, <2>2, <2>3, BecomesStep
<1>3. ASSUME NEW error \in Errors, Becomes(e, RetryOrCatch(e, error)), UNCHANGED dlq,
             faults' \in 0..MaxFaults, faults' \in Nat, faults <= faults', e.state = "RunJob"
      PROVE  IInv'
  <2> DEFINE f == RetryOrCatch(e, error)
  <2>1. /\ f \in Execution /\ f.name = e.name /\ f.msg = e.msg /\ f.sends = e.sends
        /\ f.state \in {e.state, "DeadLetter"}
    BY <1>0, Retried
  <2>2. Becomes(e, f)
    BY <1>3
  <2> HIDE DEF f
  <2>3. f.sends <= faults'
    BY <1>0, <1>3, <2>1
  <2> QED BY <1>3, <2>1, <2>2, <2>3, BecomesStep
<1>4. ASSUME TaskErrs(e) PROVE IInv'
  <2>1. e.state = "RunJob" /\ Becomes(e, RetryOrCatch(e, RunJob(e))) /\ UNCHANGED <<dlq, faults>>
    BY <1>4 DEF TaskErrs
  <2>2. RunJob(e) \in Errors
    <3> DEFINE p == msgs[e.msg].post
               a == ~Valid(p, "task") \/ kind[p] = "corrupt_input"
               b == kind[p] = "poison" \/ (kind[p] = "transient" /\ e.retries = 0)
    <3>1. RunJob(e) = CASE a -> "PermanentJobError" [] b -> "TransientJobError" [] OTHER -> "ok"
      BY DEF RunJob
    <3> HIDE DEF a, b
    <3> QED BY <3>1 DEF Errors
  <2> QED BY <1>3, <2>1, <2>2, NotFaulted
<1>5. ASSUME TaskFaults(e) PROVE IInv'
  <2>1. e.state = "RunJob" /\ Becomes(e, RetryOrCatch(e, "States.TaskFailed")) /\ UNCHANGED dlq /\ Fault
    BY <1>5 DEF TaskFaults
  <2>2. faults' \in 0..MaxFaults /\ faults' \in Nat /\ faults <= faults'
    BY <2>1, Faulted
  <2>3. "States.TaskFailed" \in Errors
    BY DEF Errors
  <2> QED BY <1>3, <2>1, <2>2, <2>3
<1>6. ASSUME DeadLetterSent(e) PROVE IInv'
  <2> DEFINE f == [e EXCEPT !.state = "Failed"]
  <2>1. Becomes(e, f) /\ dlq' = dlq \cup {DeadLetterOf(e)} /\ UNCHANGED faults
    BY <1>6 DEF DeadLetterSent
  <2>2. /\ f \in Execution /\ f.name = e.name /\ f.msg = e.msg /\ f.sends = e.sends
        /\ f.state = "Failed" /\ DeadLetterOf(f) = DeadLetterOf(e)
    BY <1>1 DEF Closed
  <2> HIDE DEF f
  <2>3. faults' \in 0..MaxFaults /\ faults' \in Nat /\ faults <= faults' /\ f.sends <= faults'
    BY <1>0, <2>1, <2>2, NotFaulted
  <2> QED BY <2>1, <2>2, <2>3, BecomesStep
<1>7. ASSUME DeadLetterFails(e) PROVE IInv'
  <2> DEFINE f == ResendOrAbort(e)
  <2>1. Becomes(e, f) /\ dlq' \in {dlq, dlq \cup {DeadLetterOf(e)}} /\ Fault /\ e.state = "DeadLetter"
    BY <1>7 DEF DeadLetterFails
  <2>2. /\ f \in Execution /\ f.name = e.name /\ f.msg = e.msg /\ f.sends <= e.sends + 1
        /\ f.state = e.state \/ (f.state = "Aborted" /\ e.sends = DLQRetries)
    BY <1>0, Resent
  <2> HIDE DEF f
  <2>3. faults' \in 0..MaxFaults /\ faults' \in Nat /\ faults <= faults' /\ faults' = faults + 1
    BY <2>1, Faulted
  <2>4. f.sends \in Nat
    BY <2>2, Bounds DEF Execution
  <2>5. f.sends <= faults' /\ (f.state = "Aborted" => faults' > DLQRetries) /\ f.state # "Failed"
    BY <1>0, <2>1, <2>2, <2>3, <2>4, Bounds
  <2> QED BY <2>1, <2>2, <2>3, <2>5, BecomesStep
<1>8. ASSUME TimesOut(e) PROVE IInv'
  <2> DEFINE f == [e EXCEPT !.state = "TimedOut"]
  <2>1. Becomes(e, f) /\ dlq' \in {dlq, dlq \cup {DeadLetterOf(e)}} /\ Fault
    BY <1>8 DEF TimesOut
  <2>2. /\ f \in Execution /\ f.name = e.name /\ f.msg = e.msg /\ f.sends = e.sends
        /\ f.state = "TimedOut"
    BY <1>1 DEF Closed
  <2> HIDE DEF f
  <2>3. faults' \in 0..MaxFaults /\ faults' \in Nat /\ faults <= faults' /\ f.sends <= faults'
    BY <1>0, <2>1, <2>2, Faulted
  <2> QED BY <2>1, <2>2, <2>3, BecomesStep
<1> QED BY <1>2, <1>4, <1>5, <1>6, <1>7, <1>8 DEF Workflow

LEMMA RedeployKeeps ==
  ASSUME IInv, NEW f \in Functions, Redeploy(f)
  PROVE  IInv'
<1>1. /\ UNCHANGED <<kind, reply, tries, msgs, execs, dlq, faults>>
      /\ redeploys' = redeploys + 1 /\ redeploys < MaxRedeploys
      /\ allow' \in [Functions -> BOOLEAN]
  BY DEF Redeploy, submitVars, IInv, SLTypeOK
<1>2. redeploys' \in 0..MaxRedeploys /\ redeploys' # 0
  BY <1>1, Bounds DEF IInv, SLTypeOK
<1>3. ExecsOK' /\ OneEach' /\ FailedIsDeadLettered'
  BY <1>1, NotFaulted, ExecsStay
<1>4. MsgsOK' /\ HandedOver'
  BY <1>1, <1>2 DEF IInv, MsgsOK, HandedOver, Accepted, Paid, Unaffected, Exhausted
<1>5. SLTypeOK'
  BY <1>1, <1>2 DEF IInv, SLTypeOK
<1> QED BY <1>3, <1>4, <1>5 DEF IInv

LEMMA NextIInv == IInv /\ [SLNext]_vars => IInv'
<1> SUFFICES ASSUME IInv, [SLNext]_vars PROVE IInv'
  OBVIOUS
<1>1. CASE UNCHANGED vars
  <2>1. UNCHANGED <<kind, reply, tries, msgs, execs, dlq, allow, faults, redeploys>>
    BY <1>1 DEF vars
  <2>2. ExecsOK' /\ OneEach' /\ FailedIsDeadLettered'
    BY <2>1, NotFaulted, ExecsStay
  <2>3. MsgsOK' /\ HandedOver'
    BY <2>1, NotFaulted, MsgsStay
  <2>4. SLTypeOK'
    BY <2>1 DEF IInv, SLTypeOK
  <2> QED BY <2>2, <2>3, <2>4 DEF IInv
<1> QED BY <1>1, SubmitKeeps, QueueKeeps, WorkflowKeeps, RedeployKeeps DEF SLNext

\* The inductive invariant holds of every reachable state.
THEOREM ServerlessInductive == SLSpec => []IInv
BY InitIInv, NextIInv, PTL DEF SLSpec

\* Type correctness: sends, retries and resends keep to the limits of the boto3
\* client and of template.yaml.
THEOREM ServerlessTypeCorrect == SLSpec => []SLTypeOK
<1>1. IInv => SLTypeOK
  BY DEF IInv
<1> QED BY <1>1, ServerlessInductive, PTL

\* start_jobs hands every message over once, however often it is delivered and
\* whichever other messages carry its job id.
THEOREM OneExecutionPerMessage == SLSpec => []HandedOverOnce
<1>1. IInv => HandedOverOnce
  <2> SUFFICES ASSUME IInv, NEW m \in DOMAIN msgs
               PROVE  /\ Cardinality({e \in execs : e.msg = m}) <= 1
                      /\ msgs[m].place \in {"acking", "gone"} => {e \in execs : e.msg = m} # {}
    BY DEF HandedOverOnce
  <2> DEFINE own == {e \in execs : e.msg = m}
  <2>1. CASE own = {}
    <3>1. Cardinality(own) = 0
      BY <2>1, FS_EmptySet
    <3> QED BY <2>1, <3>1 DEF IInv, HandedOver
  <2>2. CASE own # {}
    <3>1. PICK e \in own : TRUE
      BY <2>2
    <3>2. own = {e}
      BY <3>1 DEF IInv, OneEach
    <3>3. Cardinality(own) = 1
      BY <3>2, FS_Singleton
    <3> QED BY <2>2, <3>3
  <2> QED BY <2>1, <2>2
<1> QED BY <1>1, ServerlessInductive, PTL

\* A message is redriven only after as many faults as it may have deliveries, or
\* after a deployment and with a job whose injected failure that may have forbidden.
THEOREM RedriveIsPaidFor == SLSpec => []RedriveNeedsFaults
<1>1. IInv => RedriveNeedsFaults
  <2> SUFFICES ASSUME IInv, NEW m \in DOMAIN msgs, msgs[m].place = "dlq", Unaffected(m)
               PROVE  faults >= MaxReceive
    BY Bounds DEF RedriveNeedsFaults, IInv, SLTypeOK, Unaffected
  <2>1. faults \in Nat
    BY Bounds DEF IInv, SLTypeOK
  <2>2. msgs[m].receives <= faults + 0 /\ msgs[m].receives = MaxReceive
    BY DEF IInv, MsgsOK, Paid, Exhausted
  <2> QED BY <2>1, <2>2, Bounds
<1> QED BY <1>1, ServerlessInductive, PTL

\* An execution that ends in Failed has its dead letter in the queue, and one that
\* is aborted had all its sends fail.
THEOREM DeadLettersAreKept == SLSpec => []FailedIsDeadLettered
<1>1. IInv => FailedIsDeadLettered
  BY DEF IInv
<1> QED BY <1>1, ServerlessInductive, PTL

-----------------------------------------------------------------------------
(* What an execution decides *)

KindOf(m) == kind[msgs[m].post]

\* A running execution owes each retry to a fault or to what its job injects; one that
\* gave up did so for a reason, and only such a one has sent a dead letter.
Verdict(e) ==
  /\ e.state = "RunJob" => e.retries <= faults + Injected(KindOf(e.msg))
  /\ e.state \notin {"RunJob", "Completed"} => Earned(KindOf(e.msg), e.error)
  /\ e.state = "Completed" =>
       KindOf(e.msg) = "none" \/ (KindOf(e.msg) = "transient" /\ e.retries > 0)
  /\ e.state \in {"RunJob", "Completed"} => \A d \in dlq : d.msg = e.msg => d.via = "redrive"

\* A dead letter of the workflow is one of an execution that gave up.
Letter(d) ==
  /\ d.via \in {"redrive", "workflow"}
  /\ d.via = "workflow" => /\ Earned(KindOf(d.msg), d.error)
                           /\ \E e \in execs : e.msg = d.msg

VInv == IInv /\ (\A e \in execs : Verdict(e)) /\ (\A d \in dlq : Letter(d))

\* Counters only grow, and a message keeps its job.
Later ==
  /\ faults <= faults' /\ redeploys <= redeploys'
  /\ \A m \in DOMAIN msgs : m \in DOMAIN msgs' /\ kind'[msgs'[m].post] = kind[msgs[m].post]

LEMMA InjectedNat == \A k : Injected(k) \in Nat
BY Bounds DEF Injected

LEMMA EarnedStays ==
  ASSUME SLTypeOK, SLTypeOK', Later, NEW m \in DOMAIN msgs, NEW error, Earned(KindOf(m), error)
  PROVE  Earned(KindOf(m), error)'
<1>1. faults \in Nat /\ redeploys \in Nat /\ faults' \in Nat /\ redeploys' \in Nat
  BY Bounds DEF SLTypeOK
<1> DEFINE k == kind[msgs[m].post]
<1>2. kind'[msgs'[m].post] = k /\ faults <= faults' /\ redeploys <= redeploys'
  BY DEF Later
<1>3. Injected(k) \in Nat /\ TaskRetries \in Nat
  BY InjectedNat, Bounds
<1>4. CASE error = "PermanentJobError" /\ (k = "corrupt_input" \/ (k # "none" /\ redeploys > 0))
  BY <1>1, <1>2, <1>4 DEF Earned, KindOf
<1>5. CASE error = "TransientJobError" /\ (k = "poison" \/ (k = "transient" /\ TaskRetries = 0))
  BY <1>2, <1>5 DEF Earned, KindOf
<1>6. CASE error = "States.TaskFailed" /\ faults + Injected(k) > TaskRetries
  <2>1. faults' + Injected(k) > TaskRetries
    BY <1>1, <1>2, <1>3, <1>6
  <2> QED BY <1>2, <1>6, <2>1 DEF Earned, KindOf, Injected
<1> QED BY <1>4, <1>5, <1>6 DEF Earned, KindOf

\* What was said of an execution stays true while no dead letter of it is sent.
LEMMA VerdictStays ==
  ASSUME VInv, SLTypeOK', Later, NEW e \in execs,
         \A d \in dlq' : d \in dlq \/ d.via = "redrive" \/ d.msg # e.msg
  PROVE  Verdict(e)'
<1>0. Verdict(e) /\ e.msg \in DOMAIN msgs /\ e.retries \in Nat /\ SLTypeOK
  BY Bounds DEF VInv, IInv, SLTypeOK
<1>1. kind'[msgs'[e.msg].post] = kind[msgs[e.msg].post] /\ faults <= faults'
  BY <1>0 DEF Later
<1>2. faults \in Nat /\ faults' \in Nat
  BY <1>0, Bounds DEF SLTypeOK
<1>3. e.state \notin {"RunJob", "Completed"} => Earned(KindOf(e.msg), e.error)'
  BY <1>0, EarnedStays DEF Verdict
<1>4. e.state = "RunJob" => e.retries <= faults' + Injected(kind[msgs[e.msg].post])
  <2> DEFINE n == Injected(kind[msgs[e.msg].post])
  <2>1. n \in Nat /\ (e.state = "RunJob" => e.retries <= faults + n)
    BY <1>0, InjectedNat DEF Verdict, KindOf
  <2> HIDE DEF n
  <2>2. e.state = "RunJob" => e.retries <= faults' + n
    BY <1>0, <1>1, <1>2, <2>1
  <2> QED BY <2>2 DEF n
<1>5. e.state = "RunJob" => (e.retries <= faults + Injected(KindOf(e.msg)))'
  BY <1>1, <1>4 DEF KindOf, Injected
<1>6. e.state = "Completed" =>
        (KindOf(e.msg) = "none" \/ (KindOf(e.msg) = "transient" /\ e.retries > 0))'
  BY <1>0, <1>1 DEF Verdict, KindOf
<1>7. e.state \in {"RunJob", "Completed"} => \A d \in dlq' : d.msg = e.msg => d.via = "redrive"
  BY <1>0 DEF Verdict
<1> QED BY <1>3, <1>5, <1>6, <1>7 DEF Verdict

LEMMA LetterStays ==
  ASSUME VInv, SLTypeOK', Later, \A e \in execs : \E f \in execs' : f.msg = e.msg, NEW d \in dlq
  PROVE  Letter(d)'
<1>0. Letter(d) /\ d.msg \in DOMAIN msgs /\ SLTypeOK
  BY DEF VInv, IInv, SLTypeOK
<1>1. d.via = "workflow" => Earned(KindOf(d.msg), d.error)'
  BY <1>0, EarnedStays DEF Letter
<1>2. d.via = "workflow" => \E e \in execs' : e.msg = d.msg
  BY <1>0 DEF Letter
<1> QED BY <1>0, <1>1, <1>2 DEF Letter

-----------------------------------------------------------------------------
\* Every step is later than the state before.
LEMMA StepIsLater == ASSUME IInv, [SLNext]_vars PROVE Later
<1>0. msgs \in Seq(Message) /\ faults \in Nat /\ redeploys \in Nat
  BY Bounds DEF IInv, SLTypeOK
<1>1. ASSUME UNCHANGED <<kind, msgs, redeploys>>, faults' = faults \/ faults' = faults + 1 PROVE Later
  BY <1>0, <1>1 DEF Later
<1>2. ASSUME NEW p \in Posts, msgs' = Enqueued(p), UNCHANGED <<kind, redeploys>>,
             faults' = faults \/ faults' = faults + 1
      PROVE  Later
  <2>1. DOMAIN msgs \subseteq DOMAIN msgs' /\ \A n \in DOMAIN msgs : msgs'[n] = msgs[n]
    <3>1. msgs' = Enqueued(p)
      BY <1>2
    <3> QED BY <1>0, <3>1, Accepting
  <2> QED BY <1>0, <1>2, <2>1 DEF Later
<1>3. ASSUME NEW m \in DOMAIN msgs, NEW place \in {"queue", "worker", "acking", "gone", "dlq"},
             Move(m, place), UNCHANGED <<kind, redeploys>>, faults' = faults \/ faults' = faults + 1
      PROVE  Later
  <2>1. DOMAIN msgs' = DOMAIN msgs /\ \A n \in DOMAIN msgs : msgs'[n].post = msgs[n].post
    <3>1. Move(m, place)
      BY <1>3
    <3> QED BY <1>0, <3>1, Moved
  <2> QED BY <1>0, <1>3, <2>1 DEF Later
<1>4. ASSUME NEW m \in DOMAIN msgs, Deliver(m) PROVE Later
  <2>1. UNCHANGED <<kind, faults, redeploys>>
    BY <1>4 DEF Deliver, submitVars
  <2> DEFINE e == [msgs[m] EXCEPT !.place = "worker", !.receives = @ + 1]
  <2>2. msgs' = [msgs EXCEPT ![m] = e]
    BY <1>4 DEF Deliver
  <2>3. e.post = msgs[m].post
    <3>1. msgs[m] \in Message
      BY <1>0
    <3> QED BY <3>1 DEF Message
  <2> HIDE DEF e
  <2>4. DOMAIN msgs' = DOMAIN msgs /\ \A n \in DOMAIN msgs : msgs'[n].post = msgs[n].post
    BY <1>0, <2>2, <2>3
  <2> QED BY <1>0, <2>1, <2>4 DEF Later
<1>5. ASSUME NEW p \in Posts, Submission(p) \/ SendFails(p) \/ SendAnswerLost(p) \/ Resubmit(p)
      PROVE  Later
  BY <1>1, <1>2, <1>5 DEF Submission, Post, SendAnswered, SendFails, SendAnswerLost, Resubmit, Fault
<1>6. ASSUME NEW m \in DOMAIN msgs, Delivery(m) \/ HandoffFails(m) \/ AckLost(m) PROVE Later
  <2>1. ASSUME NEW place \in {"queue", "worker", "acking", "gone", "dlq"},
               Move(m, place), UNCHANGED <<kind, redeploys>>, faults' = faults \/ faults' = faults + 1
        PROVE  Later
    BY <1>3, <2>1
  <2> QED BY <1>4, <1>6, <2>1 DEF Delivery, Redrive, Handoff, Start, HandoffRefused, FailItem, Ack,
               HandoffFails, AckLost, Fault, submitVars
<1>7. ASSUME NEW e \in execs, Workflow(e) \/ TaskFaults(e) \/ DeadLetterFails(e) \/ TimesOut(e)
      PROVE  Later
  <2>1. /\ \E f : Becomes(e, f)
        /\ faults' = faults \/ faults' = faults + 1
    BY <1>7 DEF Workflow, TaskSucceeds, TaskErrs, DeadLetterSent, TaskFaults, DeadLetterFails, TimesOut, Fault
  <2>2. UNCHANGED <<kind, msgs, redeploys>>
    BY <2>1 DEF Becomes, submitVars
  <2> QED BY <1>1, <2>1, <2>2
<1>8. ASSUME NEW f \in Functions, Redeploy(f) PROVE Later
  BY <1>0, <1>8 DEF Redeploy, submitVars, Later
<1>9. ASSUME UNCHANGED vars PROVE Later
  BY <1>1, <1>9 DEF vars
<1> QED BY <1>5, <1>6, <1>7, <1>8, <1>9 DEF SLNext

\* Steps that add at most a redriven message to the dead letters.
LEMMA OthersKeepVerdicts ==
  ASSUME VInv, IInv', Later, UNCHANGED execs,
         dlq' = dlq \/ \E m : dlq' = dlq \cup {[msg |-> m, via |-> "redrive", error |-> "none"]}
  PROVE  VInv'
<1>0. SLTypeOK'
  BY DEF IInv
<1>1. \A d \in dlq' : d \in dlq \/ d.via = "redrive"
  OBVIOUS
<1>2. \A e \in execs' : Verdict(e)'
  BY <1>0, <1>1, VerdictStays
<1>3. \A d \in dlq : Letter(d)'
  BY <1>0, LetterStays
<1>4. \A d \in dlq' : Letter(d)'
  BY <1>1, <1>3 DEF Letter
<1> QED BY <1>2, <1>4 DEF VInv

\* A new execution has used no retry, and its message has had no execution and so no
\* dead letter from one.
LEMMA HandoffKeepsVerdicts ==
  ASSUME VInv, IInv', Later, NEW m \in DOMAIN msgs, Handoff(m)
  PROVE  VInv'
<1>0. SLTypeOK' /\ IInv
  BY DEF IInv, VInv
<1>1. /\ execs' = execs \cup IF Named(m) = {} THEN {NewExecution(m)} ELSE {}
      /\ UNCHANGED dlq
  BY DEF Handoff, Start
<1>2. \A e \in execs : Verdict(e)'
  BY <1>0, <1>1, VerdictStays
<1>3. \A d \in dlq' : Letter(d)'
  BY <1>0, <1>1, LetterStays
<1>4. CASE Named(m) = {}
  <2> DEFINE x == NewExecution(m)
  <2>1. x.msg = m /\ x.state = "RunJob" /\ x.retries = 0
    BY DEF NewExecution
  <2>2. \A e \in execs : e.msg # m
    BY <1>0, <1>4 DEF Named, IInv, ExecsOK
  <2>3. \A d \in dlq' : d.msg = m => d.via = "redrive"
    BY <1>1, <2>2 DEF VInv, Letter
  <2> HIDE DEF x
  <2>4. (x.retries <= faults + Injected(KindOf(x.msg)))'
    <3>1. faults' \in Nat /\ Injected(KindOf(x.msg)') \in Nat
      BY <1>0, InjectedNat, Bounds DEF SLTypeOK
    <3> QED BY <2>1, <3>1 DEF Injected
  <2>5. Verdict(x)'
    BY <2>1, <2>3, <2>4 DEF Verdict
  <2> QED BY <1>1, <1>2, <1>3, <1>4, <2>5 DEF VInv, x
<1>5. CASE Named(m) # {}
  BY <1>1, <1>2, <1>3, <1>5 DEF VInv
<1> QED BY <1>4, <1>5

\* A step of execution e, from what it says of what e becomes.
LEMMA BecomesKeepsVerdicts ==
  ASSUME VInv, IInv', Later, NEW e \in execs, NEW f, Becomes(e, f), f.msg = e.msg, Verdict(f)',
         \/ dlq' = dlq
         \/ e.state = "DeadLetter" /\ dlq' = dlq \cup {DeadLetterOf(e)}
  PROVE  VInv'
<1>0. SLTypeOK' /\ SLTypeOK /\ OneEach /\ e.msg \in DOMAIN msgs
  BY DEF IInv, VInv, SLTypeOK
<1>1. execs' = (execs \ {e}) \cup {f}
  BY DEF Becomes
<1>2. \A d \in dlq' : d \in dlq \/ d.msg = e.msg
  BY DEF DeadLetterOf
<1>3. ASSUME NEW g \in execs' PROVE Verdict(g)'
  <2>1. CASE g = f
    BY <2>1
  <2>2. CASE g # f
    <3>1. g \in execs /\ g.msg # e.msg
      BY <1>0, <1>1, <2>2 DEF OneEach
    <3>2. \A d \in dlq' : d \in dlq \/ d.via = "redrive" \/ d.msg # g.msg
      BY <1>2, <3>1
    <3> QED BY <1>0, <3>1, <3>2, VerdictStays
  <2> QED BY <2>1, <2>2
<1>4. \A g \in execs : \E h \in execs' : h.msg = g.msg
  BY <1>1
<1>5. \A d \in dlq : Letter(d)'
  BY <1>0, <1>4, LetterStays
<1>6. ASSUME e.state = "DeadLetter" PROVE Letter(DeadLetterOf(e))'
  <2>1. Earned(KindOf(e.msg), e.error)'
    <3>1. Earned(KindOf(e.msg), e.error)
      BY <1>6 DEF VInv, Verdict
    <3> QED BY <1>0, <3>1, EarnedStays
  <2>2. \E h \in execs' : h.msg = e.msg
    BY <1>1
  <2> QED BY <2>1, <2>2 DEF Letter, DeadLetterOf
<1>7. \A d \in dlq' : Letter(d)'
  BY <1>5, <1>6
<1> QED BY <1>3, <1>7 DEF VInv

\* What run_job answers tells what the job is, as submit let nothing malformed in.
LEMMA AttemptTells ==
  ASSUME IInv, NEW e \in execs
  PROVE  LET k == KindOf(e.msg)
         IN  /\ RunJob(e) \in {"ok", "PermanentJobError", "TransientJobError"}
             /\ RunJob(e) = "ok" => k = "none" \/ (k = "transient" /\ e.retries # 0)
             /\ RunJob(e) = "PermanentJobError" => k = "corrupt_input" \/ (k # "none" /\ redeploys > 0)
             /\ RunJob(e) = "TransientJobError" => k = "poison" \/ (k = "transient" /\ e.retries = 0)
<1> DEFINE k == kind[msgs[e.msg].post]
           a == ~Valid(msgs[e.msg].post, "task") \/ k = "corrupt_input"
           b == k = "poison" \/ (k = "transient" /\ e.retries = 0)
<1>1. RunJob(e) = CASE a -> "PermanentJobError" [] b -> "TransientJobError" [] OTHER -> "ok"
  BY DEF RunJob
<1>2. k \in {"none", "transient", "poison", "corrupt_input"}
  <2>1. e.msg \in DOMAIN msgs /\ msgs \in Seq(Message) /\ kind \in [Posts -> Kinds] /\ k # "malformed"
    BY KindType DEF IInv, SLTypeOK, MsgsOK, Accepted
  <2>2. msgs[e.msg].post \in Posts
    BY <2>1, Received DEF Message
  <2> QED BY <2>1, <2>2 DEF Kinds
<1>3. a => k = "corrupt_input" \/ (k # "none" /\ redeploys > 0)
  <2>1. redeploys \in Nat /\ (redeploys = 0 => allow["task"])
    BY Bounds DEF IInv, SLTypeOK, MsgsOK, Paid, Functions
  <2> QED BY <1>2, <2>1 DEF Valid
<1>4. ~a /\ ~b => k = "none" \/ (k = "transient" /\ e.retries # 0)
  BY <1>2
<1> HIDE DEF a, b, k
<1>5. /\ RunJob(e) \in {"ok", "PermanentJobError", "TransientJobError"}
      /\ RunJob(e) = "ok" => ~a /\ ~b
      /\ RunJob(e) = "PermanentJobError" => a
      /\ RunJob(e) = "TransientJobError" => b
  BY <1>1
<1> QED BY <1>3, <1>4, <1>5 DEF b, k, KindOf

\* An attempt that did not succeed, from what its error says of the job: the retry is
\* accounted for, or the execution gives up for a reason.
LEMMA AttemptKeepsVerdicts ==
  ASSUME VInv, IInv', Later, NEW e \in execs, e.state = "RunJob",
         NEW error \in {"PermanentJobError", "TransientJobError", "States.TaskFailed"},
         Becomes(e, RetryOrCatch(e, error)), UNCHANGED dlq,
         error = "PermanentJobError" =>
           KindOf(e.msg) = "corrupt_input" \/ (KindOf(e.msg) # "none" /\ redeploys > 0),
         error = "TransientJobError" =>
           KindOf(e.msg) = "poison" \/ (KindOf(e.msg) = "transient" /\ e.retries = 0),
         error = "States.TaskFailed" => faults' = faults + 1
  PROVE  VInv'
<1> DEFINE f == RetryOrCatch(e, error)
           k == kind[msgs[e.msg].post]
<1>0. /\ e \in Execution /\ e.retries \in Nat /\ e.retries <= TaskRetries
      /\ faults \in Nat /\ faults' \in Nat /\ faults <= faults' /\ Injected(k) \in Nat
      /\ e.retries <= faults + Injected(k)
      /\ \A d \in dlq' : d.msg = e.msg => d.via = "redrive"
  BY Bounds, InjectedNat DEF VInv, IInv, SLTypeOK, ExecsOK, Execution, Verdict, KindOf, Later
<1>1. UNCHANGED <<kind, msgs, redeploys>>
  BY DEF Becomes, submitVars
<1>2. f.msg = e.msg
  BY <1>0, Retried DEF Errors
<1>3. CASE error # "PermanentJobError" /\ e.retries < TaskRetries
  <2>1. f.state = "RunJob" /\ f.retries = e.retries + 1
    BY <1>0, <1>3 DEF RetryOrCatch, Execution
  <2>2. e.retries + 1 <= faults' + Injected(k)
    <3>1. CASE error = "States.TaskFailed"
      BY <1>0, <3>1
    <3>2. CASE error = "TransientJobError" /\ k = "poison"
      <4>1. Injected(k) = TaskRetries
        BY <3>2 DEF Injected
      <4> HIDE DEF k
      <4> QED BY <1>0, <1>3, <4>1, Bounds
    <3>3. CASE error = "TransientJobError" /\ k = "transient" /\ e.retries = 0
      <4>1. Injected(k) = 1
        BY <1>0, <1>3, <3>3, Bounds DEF Injected
      <4> HIDE DEF k
      <4> QED BY <1>0, <3>3, <4>1
    <3> QED BY <1>3, <3>1, <3>2, <3>3 DEF KindOf
  <2> HIDE DEF f
  <2>3. (f.retries <= faults + Injected(KindOf(f.msg)))'
    BY <1>1, <1>2, <2>1, <2>2 DEF KindOf, Injected
  <2>4. Verdict(f)'
    BY <1>0, <1>2, <2>1, <2>3 DEF Verdict
  <2> QED BY <1>2, <2>4, BecomesKeepsVerdicts DEF f
<1>4. CASE ~(error # "PermanentJobError" /\ e.retries < TaskRetries)
  <2>1. f.state = "DeadLetter" /\ f.error = error
    BY <1>0, <1>4 DEF RetryOrCatch, Execution
  <2>2. Earned(KindOf(e.msg), error)'
    <3>1. CASE error = "PermanentJobError"
      BY <1>1, <3>1 DEF Earned, KindOf
    <3>2. CASE error = "TransientJobError"
      <4>1. e.retries = TaskRetries
        BY <1>0, <1>4, <3>2, Bounds
      <4> QED BY <1>1, <3>2, <4>1 DEF Earned, KindOf
    <3>3. CASE error = "States.TaskFailed"
      <4> HIDE DEF k
      <4>1. faults' + Injected(k) > TaskRetries
        BY <1>0, <1>4, <3>3, Bounds
      <4> QED BY <1>1, <3>3, <4>1 DEF Earned, KindOf, Injected, k
    <3> QED BY <3>1, <3>2, <3>3
  <2> HIDE DEF f
  <2>3. Verdict(f)'
    BY <1>2, <2>1, <2>2 DEF Verdict
  <2> QED BY <1>2, <2>3, BecomesKeepsVerdicts DEF f
<1> QED BY <1>3, <1>4

\* A send of the dead letter, however it ends, leaves the verdict as it is.
LEMMA SendKeepsVerdicts ==
  ASSUME VInv, IInv', Later, NEW e \in execs, e.state = "DeadLetter", NEW f, Becomes(e, f),
         f.msg = e.msg, f.error = e.error, f.state \in {"DeadLetter", "Failed", "Aborted", "TimedOut"},
         dlq' \in {dlq, dlq \cup {DeadLetterOf(e)}}
  PROVE  VInv'
<1>1. Earned(KindOf(e.msg), e.error)'
  <2>1. SLTypeOK /\ SLTypeOK' /\ e.msg \in DOMAIN msgs /\ Earned(KindOf(e.msg), e.error)
    BY DEF VInv, IInv, SLTypeOK, Verdict
  <2> QED BY <2>1, EarnedStays
<1>2. Verdict(f)'
  BY <1>1 DEF Verdict
<1> QED BY <1>2, BecomesKeepsVerdicts

LEMMA WorkflowKeepsVerdicts ==
  ASSUME VInv, IInv', Later, NEW e \in execs,
         Workflow(e) \/ TaskFaults(e) \/ DeadLetterFails(e) \/ TimesOut(e)
  PROVE  VInv'
<1>0. IInv /\ e \in Execution /\ e.retries \in Nat
  BY Bounds DEF VInv, IInv, ExecsOK, Execution
<1>1. \A st \in Closed : LET f == [e EXCEPT !.state = st]
        IN  f.msg = e.msg /\ f.error = e.error /\ f.retries = e.retries /\ f.state = st
  BY <1>0 DEF Execution
<1>2. CASE TaskSucceeds(e)
  <2> DEFINE f == [e EXCEPT !.state = "Completed"]
  <2>1. Becomes(e, f) /\ UNCHANGED dlq /\ e.state = "RunJob" /\ RunJob(e) = "ok"
    BY <1>2 DEF TaskSucceeds
  <2>2. f.msg = e.msg /\ f.retries = e.retries /\ f.state = "Completed"
    BY <1>1 DEF Closed
  <2>3. KindOf(e.msg) = "none" \/ (KindOf(e.msg) = "transient" /\ e.retries > 0)
    BY <1>0, <2>1, AttemptTells
  <2>4. \A d \in dlq' : d.msg = e.msg => d.via = "redrive"
    BY <2>1 DEF VInv, Verdict
  <2>5. UNCHANGED <<kind, msgs>>
    BY <2>1 DEF Becomes, submitVars
  <2> HIDE DEF f
  <2>6. Verdict(f)'
    BY <2>2, <2>3, <2>4, <2>5 DEF Verdict, KindOf
  <2> QED BY <2>1, <2>2, <2>6, BecomesKeepsVerdicts
<1>3. CASE TaskErrs(e)
  <2>1. e.state = "RunJob" /\ RunJob(e) # "ok" /\ Becomes(e, RetryOrCatch(e, RunJob(e))) /\ UNCHANGED dlq
    BY <1>3 DEF TaskErrs
  <2>2. /\ RunJob(e) \in {"ok", "PermanentJobError", "TransientJobError"}
        /\ RunJob(e) = "PermanentJobError" =>
             KindOf(e.msg) = "corrupt_input" \/ (KindOf(e.msg) # "none" /\ redeploys > 0)
        /\ RunJob(e) = "TransientJobError" =>
             KindOf(e.msg) = "poison" \/ (KindOf(e.msg) = "transient" /\ e.retries = 0)
    BY <1>0, AttemptTells
  <2> QED BY <2>1, <2>2, AttemptKeepsVerdicts
<1>4. CASE TaskFaults(e)
  <2>1. /\ e.state = "RunJob" /\ Becomes(e, RetryOrCatch(e, "States.TaskFailed"))
        /\ UNCHANGED dlq /\ faults' = faults + 1
    BY <1>4 DEF TaskFaults, Fault
  <2> QED BY <2>1, AttemptKeepsVerdicts
<1>5. CASE DeadLetterSent(e)
  <2> DEFINE f == [e EXCEPT !.state = "Failed"]
  <2>1. Becomes(e, f) /\ dlq' = dlq \cup {DeadLetterOf(e)} /\ e.state = "DeadLetter"
    BY <1>5 DEF DeadLetterSent
  <2>2. f.msg = e.msg /\ f.error = e.error /\ f.state = "Failed"
    BY <1>1 DEF Closed
  <2> HIDE DEF f
  <2> QED BY <2>1, <2>2, SendKeepsVerdicts
<1>6. CASE DeadLetterFails(e)
  <2> DEFINE f == ResendOrAbort(e)
  <2>1. Becomes(e, f) /\ dlq' \in {dlq, dlq \cup {DeadLetterOf(e)}} /\ e.state = "DeadLetter"
    BY <1>6 DEF DeadLetterFails
  <2>2. f.msg = e.msg /\ f.error = e.error /\ f.state \in {"DeadLetter", "Aborted"}
    BY <1>0, <2>1 DEF ResendOrAbort, Execution
  <2> HIDE DEF f
  <2> QED BY <2>1, <2>2, SendKeepsVerdicts
<1>7. CASE TimesOut(e)
  <2> DEFINE f == [e EXCEPT !.state = "TimedOut"]
  <2>1. Becomes(e, f) /\ dlq' \in {dlq, dlq \cup {DeadLetterOf(e)}} /\ e.state = "DeadLetter"
    BY <1>7 DEF TimesOut
  <2>2. f.msg = e.msg /\ f.error = e.error /\ f.state = "TimedOut"
    BY <1>1 DEF Closed
  <2> HIDE DEF f
  <2> QED BY <2>1, <2>2, SendKeepsVerdicts
<1> QED BY <1>2, <1>3, <1>4, <1>5, <1>6, <1>7 DEF Workflow

LEMMA NextVInv == VInv /\ [SLNext]_vars => VInv'
<1> SUFFICES ASSUME VInv, [SLNext]_vars PROVE VInv'
  OBVIOUS
<1>0. IInv' /\ Later
  BY NextIInv, StepIsLater DEF VInv
<1>1. ASSUME NEW p \in Posts, Submission(p) \/ SendFails(p) \/ SendAnswerLost(p) \/ Resubmit(p)
      PROVE  VInv'
  <2>1. UNCHANGED <<execs, dlq>>
    BY <1>1 DEF Submission, Post, SendAnswered, SendFails, SendAnswerLost, Resubmit
  <2> QED BY <1>0, <2>1, OthersKeepVerdicts
<1>2. ASSUME NEW m \in DOMAIN msgs, Delivery(m) \/ HandoffFails(m) \/ AckLost(m) PROVE VInv'
  <2>1. CASE Handoff(m)
    BY <1>0, <2>1, HandoffKeepsVerdicts
  <2>2. CASE Redrive(m)
    <3>1. UNCHANGED execs /\ dlq' = dlq \cup {[msg |-> m, via |-> "redrive", error |-> "none"]}
      BY <2>2 DEF Redrive
    <3> QED BY <1>0, <3>1, OthersKeepVerdicts
  <2>3. CASE Deliver(m) \/ HandoffRefused(m) \/ Ack(m) \/ HandoffFails(m) \/ AckLost(m)
    <3>1. UNCHANGED <<execs, dlq>>
      BY <2>3 DEF Deliver, HandoffRefused, Ack, HandoffFails, AckLost
    <3> QED BY <1>0, <3>1, OthersKeepVerdicts
  <2> QED BY <1>2, <2>1, <2>2, <2>3 DEF Delivery
<1>3. ASSUME NEW e \in execs, Workflow(e) \/ TaskFaults(e) \/ DeadLetterFails(e) \/ TimesOut(e)
      PROVE  VInv'
  BY <1>0, <1>3, WorkflowKeepsVerdicts
<1>4. ASSUME UNCHANGED vars \/ \E f \in Functions : Redeploy(f) PROVE VInv'
  <2>1. UNCHANGED <<execs, dlq>>
    BY <1>4 DEF vars, Redeploy
  <2> QED BY <1>0, <2>1, OthersKeepVerdicts
<1> QED BY <1>1, <1>2, <1>3, <1>4 DEF SLNext

\* RunJob's retriers and its catcher lose and excuse no job, although run_job counts
\* lost attempts as its own: a dead letter of the workflow carries an error its job
\* and the faults account for, and only a job that can succeed completes.
THEOREM VerdictsAreEarned == SLSpec => []VerdictsEarned
<1>1. SLInit => VInv
  BY InitIInv DEF SLInit, VInv
<1>2. VInv => VerdictsEarned
  BY DEF VInv, Verdict, Letter, KindOf, VerdictsEarned
<1> QED BY <1>1, <1>2, NextVInv, PTL DEF SLSpec

=============================================================================
