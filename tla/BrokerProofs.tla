---------------------------- MODULE BrokerProofs ----------------------------
(***************************************************************************)
(* Proofs about the broker for every workload, every set of workers and    *)
(* every triage agent.                                                     *)
(***************************************************************************)
EXTENDS Broker, FiniteSetTheorems, WellFoundedInduction, TLAPS

\* A non-empty set of numbers has a smallest member.
LEMMA SmallestNumber ==
  ASSUME NEW T, T \subseteq Nat, T # {}
  PROVE  \E n \in T : \A m \in T : n <= m
<1>1. PICK n \in T : \A m \in T : <<m, n>> \notin OpToRel(<, Nat)
  BY NatLessThanWellFounded, WFMin
<1>2. \A m \in T : ~(m < n)
  BY <1>1 DEF OpToRel
<1> QED BY <1>2

USE QueueAssumption, TriageAssumption, BrokerAssumption

Decisions == [action : Actions, size : Int]

\* Between its critical sections a failed Report carries an error.
TriageHasError == \A j \in triaging : error[j] \in ErrorKinds

\* A job that was not submitted has not been tried.
FreshUntried == \A j \in Jobs \ submitted : attempt[j] = 0

\* The inductive invariant.  DoneExact needs CountersExact (maybeDoneLocked
\* looks at counters) and OnePlace (the counters are compared as sizes of sets).
IInv == /\ TypeOK /\ TriageHasError /\ FreshUntried
        /\ OnePlace /\ CountersExact /\ DoneExact /\ WithinBudget

-----------------------------------------------------------------------------
(* Facts about triage and about the completion test *)

\* Whatever the agent answers, the decision Report acts on is well formed and
\* keeps the job going only while attempts are left.
LEMMA GuardedDecision ==
  ASSUME NEW a \in Nat, NEW max \in Int, NEW kind \in ErrorKinds,
         NEW n \in Int, NEW dec \in Decide(a, max, kind, n)
  PROVE  /\ Guarded(dec, a, max) \in Decisions
         /\ Guarded(dec, a, max).action # "escalate" => a < max
<1>1. PolicyDecide(a, max, kind, n) \in Decisions
  BY DEF PolicyDecide, Decisions, Escalation, Half, ErrorKinds, Actions
<1>2. dec \in [action : Actions \cup {"unknown"}, size : Int]
  BY <1>1 DEF Decide, LLMDecide, Decisions, Actions
<1>3. Valid(dec) => dec \in Decisions
  BY <1>2 DEF Valid, Decisions, Actions
<1> QED BY <1>3 DEF Guarded, Escalation, Decisions, Actions

\* The jobs are finitely many, and so are all the sets the counters count.
LEMMA Finite ==
  ASSUME NEW S \in SUBSET Jobs
  PROVE  IsFiniteSet(S) /\ Cardinality(S) \in Nat
BY FS_Subset, FS_CardinalityType

\* The condition of maybeDoneLocked means what it is meant to mean.
LEMMA AllSettledMeaning ==
  TypeOK /\ OnePlace /\ CountersExact =>
    (AllSettled(closed, queue, running, stats) <=> (closed /\ submitted \subseteq Terminal))
<1> SUFFICES ASSUME TypeOK, OnePlace, CountersExact
             PROVE  AllSettled(closed, queue, running, stats)
                      <=> (closed /\ submitted \subseteq Terminal)
  OBVIOUS
<1> DEFINE S == {j \in Jobs : outcome[j] = "succeeded"}
           E == {j \in Jobs : outcome[j] = "escalated"}
<1>1. Terminal = S \cup E /\ S \cap E = {}
  BY DEF Terminal, TypeOK, Outcomes
<1>2. Cardinality(Terminal) = Cardinality(S) + Cardinality(E)
  <2>1. IsFiniteSet(S) /\ IsFiniteSet(E) /\ Cardinality(S) \in Nat /\ Cardinality(E) \in Nat
    BY Finite
  <2>2. Cardinality(S \cup E) = Cardinality(S) + Cardinality(E) - Cardinality(S \cap E)
    BY <2>1, FS_Union
  <2>3. Cardinality(S \cap E) = 0
    BY <1>1, FS_EmptySet
  <2> HIDE DEF S, E
  <2> QED BY <2>1, <2>2, <2>3, <1>1
<1>3. Terminal \subseteq submitted /\ submitted \subseteq Jobs
  BY DEF OnePlace, TypeOK
<1>4. Cardinality(Terminal) = Cardinality(submitted) <=> Terminal = submitted
  BY <1>3, Finite, FS_Subset
<1>5. stats.Succeeded + stats.Escalated = stats.Submitted <=> Terminal = submitted
  BY <1>2, <1>4 DEF CountersExact
<1>6. Terminal = submitted => queue = {} /\ running = {}
  BY DEF OnePlace
<1> QED BY <1>3, <1>5, <1>6 DEF AllSettled

-----------------------------------------------------------------------------
(* The inductive invariant *)

\* A new broker satisfies the inductive invariant.
LEMMA InitInv == BrokerInit => IInv
<1> SUFFICES ASSUME BrokerInit PROVE IInv
  OBVIOUS
<1>1. TypeOK /\ TriageHasError
  BY DEF BrokerInit, TypeOK, TriageHasError, Stats, Outcomes
<1>2. OnePlace /\ DoneExact /\ WithinBudget /\ FreshUntried
  BY DEF BrokerInit, OnePlace, DoneExact, WithinBudget, Terminal, FreshUntried
<1>3. CountersExact
  <2>1. {j \in Jobs : outcome[j] = "succeeded"} = {} /\ {j \in Jobs : outcome[j] = "escalated"} = {}
    BY DEF BrokerInit
  <2> QED BY <2>1, FS_EmptySet DEF BrokerInit, CountersExact
<1> QED BY <1>1, <1>2, <1>3 DEF IInv

\* What an action does to done, in terms of jobs: if it runs maybeDoneLocked,
\* DoneExact holds afterwards.
LEMMA MaybeDoneExact ==
  ASSUME IInv, (TypeOK /\ OnePlace /\ CountersExact)', MaybeDone,
         closed => closed', submitted' = submitted, Terminal \subseteq Terminal'
  PROVE  DoneExact'
<1>1. AllSettled(closed', queue', running', stats')
        <=> (closed' /\ submitted' \subseteq Terminal')
  <2>1. (TypeOK /\ OnePlace /\ CountersExact =>
          (AllSettled(closed, queue, running, stats)
             <=> (closed /\ submitted \subseteq Terminal)))'
    BY AllSettledMeaning, PTL
  <2> QED BY <2>1 DEF AllSettled
<1>2. done => closed' /\ submitted' \subseteq Terminal'
  BY DEF IInv, DoneExact
<1> QED BY <1>1, <1>2 DEF MaybeDone, DoneExact

\* Submit preserves it: the new job is queued and not yet tried.
LEMMA SubmitInv == ASSUME IInv, NEW j \in Jobs, Submit(j) PROVE IInv'
<1> USE DEF Submit
<1>1. (TypeOK /\ TriageHasError)'
  BY DEF IInv, TypeOK, TriageHasError, Stats
<1>2. Terminal' = Terminal
  BY DEF Terminal
<1>3. (OnePlace /\ WithinBudget /\ FreshUntried)'
  <2>1. attempt[j] = 0
    BY DEF IInv, FreshUntried
  <2>2. OnePlace'
    BY <1>2 DEF IInv, OnePlace
  <2>3. WithinBudget' /\ FreshUntried'
    BY <2>1 DEF IInv, WithinBudget, FreshUntried, Budget
  <2> QED BY <2>2, <2>3
<1>4. CountersExact'
  <2>1. Cardinality(submitted') = Cardinality(submitted) + 1
    BY Finite, FS_AddElement DEF IInv, TypeOK
  <2> QED BY <2>1 DEF IInv, CountersExact, TypeOK, Stats
<1>5. DoneExact'
  BY DEF IInv, DoneExact
<1> QED BY <1>1, <1>3, <1>4, <1>5 DEF IInv

\* CloseSubmissions and the Shutdown answer of Claim change no job.
LEMMA CloseInv == ASSUME IInv, CloseSubmissions \/ ClaimShutdown PROVE IInv'
<1>1. /\ UNCHANGED <<queue, running, triaging, error, attempt, size, inject,
                     node, stats, submitted, outcome>>
      /\ closed' \in BOOLEAN /\ (closed => closed')
      /\ MaybeDone
  BY DEF CloseSubmissions, ClaimShutdown, IInv, TypeOK
<1>2. Terminal' = Terminal
  BY <1>1 DEF Terminal
<1>3. (TypeOK /\ OnePlace /\ CountersExact)'
  BY <1>1, <1>2 DEF IInv, TypeOK, OnePlace, CountersExact, MaybeDone
<1>4. (TriageHasError /\ FreshUntried /\ WithinBudget)'
  BY <1>1 DEF IInv, TriageHasError, FreshUntried, WithinBudget
<1>5. DoneExact'
  BY <1>1, <1>2, <1>3, MaybeDoneExact
<1> QED BY <1>3, <1>4, <1>5 DEF IInv

\* A Claim that returns a job preserves it: the job had an attempt left.
LEMMA ClaimInv ==
  ASSUME IInv, NEW w \in Workers, NEW j \in Jobs, ClaimJob(w, j) PROVE IInv'
<1> USE DEF ClaimJob
<1>1. j \in queue
  BY DEF Heads
<1>2. (TypeOK /\ TriageHasError)'
  BY DEF IInv, TypeOK, TriageHasError
<1>3. Terminal' = Terminal
  BY DEF Terminal
<1>4. OnePlace'
  BY <1>1, <1>3 DEF IInv, OnePlace
<1>5. j \in submitted /\ j \notin Terminal
  BY <1>1 DEF IInv, OnePlace
<1>6. (WithinBudget /\ FreshUntried)'
  <2>1. /\ attempt[j] + 1 <= Budget(j)
        /\ attempt' = [attempt EXCEPT ![j] = attempt[j] + 1]
        /\ j \notin queue'
    BY <1>1, <1>5 DEF IInv, WithinBudget, TypeOK, Budget
  <2> QED BY <2>1, <1>5 DEF IInv, WithinBudget, FreshUntried, TypeOK
<1>7. CountersExact' /\ DoneExact'
  BY <1>3, <1>5 DEF IInv, CountersExact, DoneExact
<1> QED BY <1>2, <1>4, <1>6, <1>7 DEF IInv

\* One job more with outcome o: the set that is counted grows by it.
LEMMA OutcomeCount ==
  ASSUME outcome \in [Jobs -> Outcomes \cup {"none"}], NEW j \in Jobs,
         outcome[j] = "none", NEW o \in Outcomes,
         outcome' = [outcome EXCEPT ![j] = o]
  PROVE  /\ Cardinality({k \in Jobs : outcome'[k] = o})
              = Cardinality({k \in Jobs : outcome[k] = o}) + 1
         /\ \A p \in Outcomes \ {o} :
              {k \in Jobs : outcome'[k] = p} = {k \in Jobs : outcome[k] = p}
<1>1. {k \in Jobs : outcome'[k] = o} = {k \in Jobs : outcome[k] = o} \cup {j}
  OBVIOUS
<1>2. j \notin {k \in Jobs : outcome[k] = o}
  BY DEF Outcomes
<1>3. \A p \in Outcomes \ {o} :
        {k \in Jobs : outcome'[k] = p} = {k \in Jobs : outcome[k] = p}
  BY DEF Outcomes
<1>4. IsFiniteSet({k \in Jobs : outcome[k] = o})
  BY Finite
<1> QED BY <1>1, <1>2, <1>3, <1>4, FS_AddElement

\* A successful Report preserves it: one job leaves running and is counted.
LEMMA SuccessInv == ASSUME IInv, NEW j \in Jobs, ReportSuccess(j) PROVE IInv'
<1> USE DEF ReportSuccess
<1>1. j \in submitted /\ j \notin Terminal /\ outcome[j] = "none"
  BY DEF IInv, OnePlace, Terminal
<1>2. Terminal' = Terminal \cup {j}
  BY <1>1 DEF IInv, TypeOK, Terminal
<1>3. (TypeOK /\ TriageHasError)'
  BY DEF IInv, TypeOK, TriageHasError, Stats, Outcomes, MaybeDone
<1>4. OnePlace'
  BY <1>1, <1>2 DEF IInv, OnePlace
<1>5. (WithinBudget /\ FreshUntried)'
  BY DEF IInv, WithinBudget, FreshUntried
<1>6. CountersExact'
  <2>1. stats'.Submitted = stats.Submitted /\ stats'.Escalated = stats.Escalated
          /\ stats'.Succeeded = stats.Succeeded + 1
    BY DEF IInv, TypeOK, Stats
  <2>2. /\ Cardinality({k \in Jobs : outcome'[k] = "succeeded"})
             = Cardinality({k \in Jobs : outcome[k] = "succeeded"}) + 1
        /\ {k \in Jobs : outcome'[k] = "escalated"} = {k \in Jobs : outcome[k] = "escalated"}
    BY <1>1, OutcomeCount DEF IInv, TypeOK, Outcomes
  <2> QED BY <2>1, <2>2 DEF IInv, CountersExact
<1>7. DoneExact'
  BY <1>2, <1>3, <1>4, <1>6, MaybeDoneExact
<1> QED BY <1>3, <1>4, <1>5, <1>6, <1>7 DEF IInv

\* The first half of a failed Report preserves it: the job moves to triage.
LEMMA FailureInv ==
  ASSUME IInv, NEW j \in Jobs, NEW kind \in ErrorKinds, ReportFailure(j, kind)
  PROVE  IInv'
<1> USE DEF ReportFailure
<1>1. (TypeOK /\ TriageHasError)'
  BY DEF IInv, TypeOK, TriageHasError
<1>2. Terminal' = Terminal
  BY DEF Terminal
<1>3. OnePlace'
  BY <1>2 DEF IInv, OnePlace
<1>4. (WithinBudget /\ FreshUntried /\ CountersExact /\ DoneExact)'
  BY <1>2 DEF IInv, WithinBudget, FreshUntried, CountersExact, DoneExact
<1> QED BY <1>1, <1>3, <1>4 DEF IInv

\* The second half preserves it: the job is requeued within its budget or ends.
LEMMA TriageInv == ASSUME IInv, NEW j \in Jobs, FinishTriage(j) PROVE IInv'
<1>1. PICK dec \in Decide(attempt[j], Budget(j), error[j], size[j]) :
        LET g == Guarded(dec, attempt[j], Budget(j))
        IN  Requeue(j, g) \/ Escalate(j, g)
  BY DEF FinishTriage
<1> DEFINE g == Guarded(dec, attempt[j], Budget(j))
<1>2. g \in Decisions /\ (g.action # "escalate" => attempt[j] < Budget(j))
  <2>1. j \in triaging /\ attempt[j] \in Nat /\ Budget(j) \in Int
          /\ error[j] \in ErrorKinds /\ size[j] \in Int
    BY DEF IInv, TypeOK, TriageHasError, FinishTriage, Budget
  <2> QED BY <2>1, GuardedDecision
<1>3. /\ j \in triaging /\ triaging' = triaging \ {j}
      /\ error' = [error EXCEPT ![j] = "none"]
      /\ UNCHANGED <<running, attempt, node, submitted, closed>>
      /\ MaybeDone
      /\ Requeue(j, g) \/ Escalate(j, g)
  BY <1>1 DEF FinishTriage
<1>4. j \in submitted /\ j \notin Terminal /\ outcome[j] = "none" /\ j \notin queue
  BY <1>3 DEF IInv, OnePlace, Terminal
<1> HIDE DEF g
<1>5. (TriageHasError /\ FreshUntried)'
  BY <1>3 DEF IInv, TypeOK, TriageHasError, FreshUntried
<1>6. CASE Requeue(j, g)
  <2> USE <1>6 DEF Requeue
  <2>1. Terminal' = Terminal
    BY DEF Terminal
  <2>2. TypeOK'
    BY <1>2, <1>3 DEF IInv, TypeOK, Stats, Decisions, MaybeDone
  <2>3. OnePlace'
    BY <1>3, <1>4, <2>1 DEF IInv, OnePlace
  <2>4. CountersExact'
    <3>1. stats'.Submitted = stats.Submitted /\ stats'.Escalated = stats.Escalated
            /\ stats'.Succeeded = stats.Succeeded
      BY DEF IInv, TypeOK, Stats
    <3> QED BY <3>1, <1>3 DEF IInv, CountersExact
  <2>5. WithinBudget'
    BY <1>2, <1>3 DEF IInv, WithinBudget
  <2>6. DoneExact'
    BY <1>3, <2>1, <2>2, <2>3, <2>4, MaybeDoneExact
  <2> QED BY <1>5, <2>2, <2>3, <2>4, <2>5, <2>6 DEF IInv
<1>7. CASE Escalate(j, g)
  <2> USE <1>7 DEF Escalate
  <2>1. Terminal' = Terminal \cup {j}
    BY <1>4 DEF IInv, TypeOK, Terminal
  <2>2. TypeOK'
    BY <1>3 DEF IInv, TypeOK, Stats, Outcomes, MaybeDone
  <2>3. OnePlace'
    BY <1>3, <1>4, <2>1 DEF IInv, OnePlace
  <2>4. CountersExact'
    <3>1. stats'.Submitted = stats.Submitted /\ stats'.Succeeded = stats.Succeeded
            /\ stats'.Escalated = stats.Escalated + 1
      BY DEF IInv, TypeOK, Stats
    <3>2. /\ Cardinality({k \in Jobs : outcome'[k] = "escalated"})
               = Cardinality({k \in Jobs : outcome[k] = "escalated"}) + 1
          /\ {k \in Jobs : outcome'[k] = "succeeded"} = {k \in Jobs : outcome[k] = "succeeded"}
      BY <1>4, OutcomeCount DEF IInv, TypeOK, Outcomes
    <3> QED BY <3>1, <3>2, <1>3 DEF IInv, CountersExact
  <2>5. WithinBudget'
    BY <1>3 DEF IInv, WithinBudget
  <2>6. DoneExact'
    BY <1>3, <2>1, <2>2, <2>3, <2>4, MaybeDoneExact
  <2> QED BY <1>5, <2>2, <2>3, <2>4, <2>5, <2>6 DEF IInv
<1> QED BY <1>3, <1>6, <1>7

\* Every step of the broker preserves the inductive invariant.
LEMMA NextInv == IInv /\ [BrokerNext]_brokerVars => IInv'
<1> SUFFICES ASSUME IInv, [BrokerNext]_brokerVars PROVE IInv'
  OBVIOUS
<1>1. CASE UNCHANGED brokerVars
  BY <1>1 DEF brokerVars, IInv, TypeOK, TriageHasError, FreshUntried, OnePlace,
              CountersExact, DoneExact, WithinBudget, Terminal
<1>2. CASE BrokerNext
  BY <1>2, SubmitInv, CloseInv, ClaimInv, SuccessInv, FailureInv, TriageInv
     DEF BrokerNext
<1> QED BY <1>1, <1>2

-----------------------------------------------------------------------------
(* Theorems *)

\* The broker preserves the inductive invariant, whoever calls it.
THEOREM BrokerInductive == BrokerSpec => []IInv
BY InitInv, NextInv, PTL DEF BrokerSpec

\* Type correctness of the broker's state.
THEOREM BrokerTypeCorrect == BrokerSpec => []TypeOK
BY BrokerInductive, PTL DEF IInv

\* No job is lost or in two places, although a failed job is for a while in
\* neither of Broker's tables.
THEOREM NoJobLostOrDuplicated == BrokerSpec => []OnePlace
BY BrokerInductive, PTL DEF IInv

\* Broker.done is closed exactly when every accepted job is terminal, although
\* maybeDoneLocked only compares counters.
THEOREM DoneIsExact == BrokerSpec => []DoneExact
BY BrokerInductive, PTL DEF IInv

\* No agent, however it answers, makes a job run beyond its retry budget.
THEOREM BudgetIsKept == BrokerSpec => []WithinBudget
BY BrokerInductive, PTL DEF IInv

\* A step of the broker leaves the terminal jobs alone.
LEMMA TerminalStep ==
  IInv /\ [BrokerNext]_brokerVars =>
    [\A j \in Terminal : /\ outcome'[j] = outcome[j]
                         /\ attempt'[j] = attempt[j]
                         /\ size'[j] = size[j]]_brokerVars
<1> SUFFICES ASSUME IInv, BrokerNext, NEW k \in Terminal
             PROVE  outcome'[k] = outcome[k] /\ attempt'[k] = attempt[k] /\ size'[k] = size[k]
  OBVIOUS
<1>0. k \in Jobs /\ k \notin queue /\ k \notin running /\ k \notin triaging
  BY DEF IInv, OnePlace, Terminal
<1>1. ASSUME NEW j \in Jobs, Submit(j) \/ ReportSuccess(j) \/ \E kind \in ErrorKinds : ReportFailure(j, kind)
      PROVE  outcome'[k] = outcome[k] /\ attempt'[k] = attempt[k] /\ size'[k] = size[k]
  BY <1>0, <1>1 DEF Submit, ReportSuccess, ReportFailure, IInv, TypeOK
<1>2. ASSUME NEW j \in Jobs, FinishTriage(j)
      PROVE  outcome'[k] = outcome[k] /\ attempt'[k] = attempt[k] /\ size'[k] = size[k]
  <2>1. PICK g : (Requeue(j, g) \/ Escalate(j, g)) /\ j \in triaging /\ attempt' = attempt
    BY <1>2 DEF FinishTriage
  <2>2. j # k
    BY <1>0, <2>1
  <2>3. CASE Requeue(j, g)
    BY <1>0, <2>1, <2>2, <2>3 DEF Requeue, IInv, TypeOK
  <2>4. CASE Escalate(j, g)
    BY <1>0, <2>1, <2>2, <2>4 DEF Escalate, IInv, TypeOK
  <2> QED BY <2>1, <2>3, <2>4
<1>3. ASSUME CloseSubmissions \/ ClaimShutdown
      PROVE  outcome'[k] = outcome[k] /\ attempt'[k] = attempt[k] /\ size'[k] = size[k]
  BY <1>3 DEF CloseSubmissions, ClaimShutdown
<1>4. ASSUME NEW w \in Workers, NEW j \in Jobs, ClaimJob(w, j)
      PROVE  outcome'[k] = outcome[k] /\ attempt'[k] = attempt[k] /\ size'[k] = size[k]
  BY <1>0, <1>4 DEF ClaimJob, Heads, IInv, TypeOK
<1> QED BY <1>1, <1>2, <1>3, <1>4 DEF BrokerNext

\* An outcome is final: no late or repeated call changes a terminal job.
THEOREM OutcomeIsFinal == BrokerSpec => TerminalForever
BY BrokerInductive, TerminalStep, PTL DEF BrokerSpec, TerminalForever

-----------------------------------------------------------------------------
(* Refinement of JobBoard *)

\* A step of the broker is a step of JobBoard or leaves it unchanged.
LEMMA BoardStep ==
  IInv /\ IInv' /\ [BrokerNext]_brokerVars => [Board!BoardNext]_(Board!boardVars)
<1> SUFFICES ASSUME IInv, IInv', [BrokerNext]_brokerVars
             PROVE  Board!BoardNext \/ UNCHANGED <<submitted, outcome, closed, done>>
  BY DEF Board!boardVars
<1>0. /\ done \in BOOLEAN /\ done' \in BOOLEAN
      /\ done = (closed /\ Board!Settled(submitted, outcome))
      /\ done' = (closed' /\ Board!Settled(submitted', outcome'))
  <2>1. submitted \subseteq Terminal <=> Board!Settled(submitted, outcome)
    BY DEF IInv, TypeOK, Terminal, Board!Settled
  <2>2. submitted' \subseteq Terminal' <=> Board!Settled(submitted', outcome')
    BY DEF IInv, TypeOK, Terminal, Board!Settled
  <2> QED BY <2>1, <2>2 DEF IInv, TypeOK, DoneExact
<1>1. CASE UNCHANGED brokerVars
  BY <1>1 DEF brokerVars
<1>2. ASSUME NEW j \in Jobs, Submit(j) PROVE Board!BoardNext
  <2>1. Board!Accept(j)
    BY <1>2 DEF Submit, Board!Accept
  <2> QED BY <2>1 DEF Board!BoardNext
<1>3. CASE CloseSubmissions
  <2>1. closed' = TRUE /\ submitted' = submitted /\ outcome' = outcome
    BY <1>3 DEF CloseSubmissions
  <2>2. done' = Board!Settled(submitted, outcome)
    BY <1>0, <2>1 DEF Board!Settled
  <2>3. Board!Close
    BY <2>1, <2>2 DEF Board!Close
  <2> QED BY <2>3 DEF Board!BoardNext
<1>4. CASE ClaimShutdown
  BY <1>0, <1>4 DEF ClaimShutdown
<1>5. ASSUME NEW w \in Workers, NEW j \in Jobs, ClaimJob(w, j)
      PROVE  UNCHANGED <<submitted, outcome, closed, done>>
  BY <1>5 DEF ClaimJob
<1>6. ASSUME NEW j \in Jobs, NEW kind \in ErrorKinds, ReportFailure(j, kind)
      PROVE  UNCHANGED <<submitted, outcome, closed, done>>
  BY <1>6 DEF ReportFailure
<1>7. ASSUME NEW j \in Jobs, ReportSuccess(j) PROVE Board!BoardNext
  <2>1. j \in submitted /\ outcome[j] = "none"
    BY <1>7 DEF ReportSuccess, IInv, OnePlace, Terminal
  <2>2. Board!Settle({j}, "succeeded")
    BY <1>0, <1>7, <2>1 DEF ReportSuccess, Board!Settle, IInv, TypeOK
  <2> QED BY <2>2 DEF Board!BoardNext, Outcomes
<1>8. ASSUME NEW j \in Jobs, FinishTriage(j)
      PROVE  Board!BoardNext \/ UNCHANGED <<submitted, outcome, closed, done>>
  <2>1. PICK g : (Requeue(j, g) \/ Escalate(j, g)) /\ j \in triaging
                   /\ UNCHANGED <<submitted, closed>>
    BY <1>8 DEF FinishTriage
  <2>2. CASE Requeue(j, g)
    BY <1>0, <2>1, <2>2 DEF Requeue
  <2>3. CASE Escalate(j, g)
    <3>1. j \in submitted /\ outcome[j] = "none"
      BY <2>1 DEF IInv, OnePlace, Terminal
    <3>2. Board!Settle({j}, "escalated")
      BY <1>0, <2>1, <2>3, <3>1 DEF Escalate, Board!Settle, IInv, TypeOK
    <3> QED BY <3>2 DEF Board!BoardNext, Outcomes
  <2> QED BY <2>1, <2>2, <2>3
<1> QED BY <1>1, <1>2, <1>3, <1>4, <1>5, <1>6, <1>7, <1>8 DEF BrokerNext

\* The broker implements JobBoard: one outcome per accepted job, completion
\* announced exactly when all have one.
THEOREM BrokerImplementsBoard == BrokerSpec => ImplementsBoard
<1>1. BrokerInit => Board!BoardInit
  BY DEF BrokerInit, Board!BoardInit
<1> QED BY <1>1, BoardStep, BrokerInductive, PTL
        DEF BrokerSpec, ImplementsBoard, Board!BoardSpec

-----------------------------------------------------------------------------
(* Batch sizes under the policy agent *)

\* A smaller batch is still a batch.
LEMMA HalfOK == \A n \in Int : BatchOK(n) => BatchOK(Half(n))
BY DEF BatchOK, Half, MaxBatch

\* Under the policy agent a step keeps every batch in range.
LEMMA BatchStep ==
  Agent = "policy" /\ IInv /\ BatchInRange /\ [BrokerNext]_brokerVars => BatchInRange'
<1> SUFFICES ASSUME Agent = "policy", IInv, BatchInRange, [BrokerNext]_brokerVars
             PROVE  BatchInRange'
  OBVIOUS
<1> USE DEF BatchInRange
<1>1. CASE UNCHANGED <<submitted, size>>
  BY <1>1
<1>2. ASSUME NEW j \in Jobs, Submit(j) PROVE BatchInRange'
  BY <1>2 DEF Submit
<1>3. ASSUME NEW j \in Jobs, FinishTriage(j) PROVE BatchInRange'
  <2> DEFINE p == PolicyDecide(attempt[j], Budget(j), error[j], size[j])
             g == Guarded(p, attempt[j], Budget(j))
  <2>1. /\ Requeue(j, g) \/ Escalate(j, g)
        /\ j \in triaging /\ submitted' = submitted
    BY <1>3 DEF FinishTriage, Decide
  <2>2. /\ j \in submitted /\ error[j] \in ErrorKinds /\ BatchOK(Half(size[j]))
        /\ attempt[j] \in Nat /\ Budget(j) \in Int
    BY <2>1, HalfOK DEF IInv, OnePlace, TypeOK, TriageHasError, Budget
  <2>3. g.action = "auto_adjust" => BatchOK(g.size)
    BY <2>2 DEF Guarded, PolicyDecide, Escalation, ErrorKinds
  <2> HIDE DEF g
  <2>4. CASE Requeue(j, g)
    BY <2>1, <2>3, <2>4 DEF Requeue, IInv, TypeOK
  <2>5. CASE Escalate(j, g)
    BY <2>1, <2>5 DEF Escalate
  <2> QED BY <2>1, <2>4, <2>5
<1>4. BrokerNext => \/ UNCHANGED <<submitted, size>>
                    \/ \E j \in Jobs : Submit(j) \/ FinishTriage(j)
  BY DEF BrokerNext, CloseSubmissions, ClaimShutdown, ClaimJob, ReportSuccess, ReportFailure
<1> QED BY <1>1, <1>2, <1>3, <1>4 DEF brokerVars

\* Under the policy agent every batch a worker can be given is one that
\* inference.Batch.Validate accepts.  (Under the LLM agent it is not so.)
THEOREM PolicyKeepsBatchInRange ==
  ASSUME Agent = "policy" PROVE BrokerSpec => []BatchInRange
<1>1. BrokerInit => BatchInRange
  BY DEF BrokerInit, BatchInRange
<1>2. IInv /\ BatchInRange /\ [BrokerNext]_brokerVars => BatchInRange'
  BY BatchStep
<1> QED BY <1>1, <1>2, BrokerInductive, PTL DEF BrokerSpec

-----------------------------------------------------------------------------
(* The queue *)

\* Less is a strict order, as container/heap asks of it.
LEMMA LessIsStrict ==
  ASSUME NEW i \in Jobs, NEW j \in Jobs, NEW k \in Jobs
  PROVE  ~Less(i, i) /\ (Less(i, j) /\ Less(j, k) => Less(i, k))
<1>1. /\ Priority[i] \in Int /\ Priority[j] \in Int /\ Priority[k] \in Int
      /\ SubmitTime[i] \in Int /\ SubmitTime[j] \in Int /\ SubmitTime[k] \in Int
  OBVIOUS
<1> QED BY <1>1 DEF Less

\* A queue without a head.
Stuck(q) == q \in SUBSET Jobs /\ q # {} /\ Heads(q) = {}

\* The smallest such queue would be one also after it lost a job.
LEMMA NoneIsStuck == ASSUME NEW q, Stuck(q) PROVE FALSE
<1> DEFINE T == {Cardinality(S) : S \in {R \in SUBSET Jobs : Stuck(R)}}
<1>1. T \subseteq Nat /\ T # {}
  <2>1. \A S \in SUBSET Jobs : Cardinality(S) \in Nat
    BY Finite
  <2>2. Cardinality(q) \in T
    BY DEF Stuck
  <2> QED BY <2>1, <2>2
<1>2. PICK n \in T : \A m \in T : n <= m
  <2> HIDE DEF T
  <2> QED BY <1>1, SmallestNumber
<1>3. PICK s \in SUBSET Jobs : Stuck(s) /\ Cardinality(s) = n
  OBVIOUS
<1>4. PICK x \in s : TRUE
  BY <1>3 DEF Stuck
<1> DEFINE r == s \ {x}
<1>5. r \in SUBSET Jobs /\ Cardinality(r) = Cardinality(s) - 1 /\ Cardinality(s) \in Nat
  <2>1. IsFiniteSet(s) /\ Cardinality(s) \in Nat
    BY Finite
  <2>2. Cardinality(s \ {x}) = Cardinality(s) - 1
    BY <2>1, FS_RemoveElement
  <2> QED BY <2>1, <2>2
<1>6. ~Stuck(r)
  <2> SUFFICES ASSUME Stuck(r) PROVE FALSE
    OBVIOUS
  <2>1. Cardinality(r) \in T
    BY <1>5
  <2> HIDE DEF T, r
  <2>2. n <= Cardinality(r)
    BY <1>2, <2>1
  <2> QED BY <1>3, <1>5, <2>2
<1>7. CASE r = {}
  <2>1. \A i \in s : i = x
    BY <1>7
  <2>2. x \in Heads(s)
    BY <2>1, LessIsStrict DEF Heads
  <2> QED BY <1>3, <2>2 DEF Stuck
<1>8. CASE r # {}
  <2>1. PICK h \in r : \A i \in r : ~Less(i, h)
    BY <1>5, <1>6, <1>8 DEF Stuck, Heads
  <2>2. CASE Less(x, h)
    <3>1. ASSUME NEW i \in s PROVE ~Less(i, x)
      <4>1. i \in Jobs /\ x \in Jobs /\ h \in Jobs
        OBVIOUS
      <4>2. CASE i = x
        BY <4>1, <4>2, LessIsStrict
      <4>3. CASE i # x
        <5>1. ~Less(i, h)
          BY <2>1, <4>3
        <5> QED BY <2>2, <4>1, <5>1, LessIsStrict
      <4> QED BY <4>2, <4>3
    <3>2. x \in Heads(s)
      BY <3>1 DEF Heads
    <3> QED BY <1>3, <3>2 DEF Stuck
  <2>3. CASE ~Less(x, h)
    <3>1. \A i \in s : ~Less(i, h)
      BY <2>1, <2>3
    <3>2. h \in Heads(s)
      BY <3>1 DEF Heads
    <3> QED BY <1>3, <3>2 DEF Stuck
  <2> QED BY <2>2, <2>3
<1> QED BY <1>7, <1>8

\* In every queue each waiting job is a head or waits behind one that goes before it, so
\* Pop always finds a job and a claim never blocks on a queue that is not empty; this is
\* what Less (internal/queue) has to guarantee to container/heap.
THEOREM QueueHasHead ==
  ASSUME NEW q \in SUBSET Jobs, NEW j \in q
  PROVE  \E h \in Heads(q) : h = j \/ Less(h, j)
<1> DEFINE s == {i \in q : i = j \/ Less(i, j)}
<1>1. s \in SUBSET Jobs /\ j \in s
  OBVIOUS
<1>2. ~Stuck(s)
  BY NoneIsStuck
<1>3. PICK h \in s : \A i \in s : ~Less(i, h)
  BY <1>1, <1>2 DEF Stuck, Heads
<1>4. ASSUME NEW i \in q, Less(i, h) PROVE FALSE
  <2>1. i \in Jobs /\ j \in Jobs /\ h \in Jobs
    OBVIOUS
  <2>2. Less(i, j)
    BY <1>3, <1>4, <2>1, LessIsStrict
  <2> QED BY <1>3, <1>4, <2>2
<1> QED BY <1>3, <1>4 DEF Heads

=============================================================================
