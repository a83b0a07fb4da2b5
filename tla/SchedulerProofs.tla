-------------------------- MODULE SchedulerProofs ---------------------------
(***************************************************************************)
(* Proofs about the cluster simulator, for every workload and every pool,  *)
(* and about what the tracer says of a job's wait.  The exact bookkeeping  *)
(* of the nodes rests on facts about sums over finite sets of jobs, which  *)
(* are proved here from the smallest set that would violate them.          *)
(***************************************************************************)
EXTENDS JobTrace, FiniteSetTheorems, WellFoundedInduction, TLAPS
-----------------------------------------------------------------------------
(* The assumptions, one by one *)

\* There are finitely many jobs.
LEMMA JobsFinite == IsFiniteSet(Jobs)
BY SchedulerAssumption

\* What jobs need and nodes have is counted in natural numbers.
LEMMA Amounts ==
  /\ \A j \in Jobs, r \in Resources : Need[j][r] \in Nat
  /\ \A i \in Index, r \in Resources : Total[i][r] \in Nat
BY SchedulerAssumption

\* The pool is a list of nodes with different names.
LEMMA Names ==
  /\ Index \subseteq Nat /\ "none" \notin {Nodes[i] : i \in Index}
  /\ \A i, k \in Index : Nodes[i] = Nodes[k] => i = k
BY SchedulerAssumption DEF Index

\* Times and priorities are numbers.
LEMMA Numbers ==
  /\ Priority \in [Jobs -> Int] /\ Arrival \in [Jobs -> Nat]
  /\ Durations \subseteq Nat \ {0} /\ MaxTicks \in Nat \ {0}
BY SchedulerAssumption

-----------------------------------------------------------------------------
(* Sums over sets of jobs *)

\* The element that the fold takes next.
Pick(s) == CHOOSE x \in s : TRUE

\* What the jobs of A need of resource r, as UsedIsPlaced says it.
Sum(A, r) == MapThenSumSet(LAMBDA j : Need[j][r], A)

\* g maps every subset of A to its sum.
IsSum(g, A, r) ==
  g = [s \in SUBSET A |-> IF s = {} THEN 0 ELSE Need[Pick(s)][r] + g[s \ {Pick(s)}]]

\* The community module's fold, unfolded.
LEMMA SumIsFold == ASSUME NEW A, NEW r PROVE Sum(A, r) = (CHOOSE g : IsSum(g, A, r))[A]
BY DEF Sum, MapThenSumSet, MapThenFoldSet, IsSum, Pick

\* A non-empty collection of sets of jobs has a smallest member.
LEMMA SmallestSet ==
  ASSUME NEW T, T \subseteq SUBSET Jobs, T # {}
  PROVE  \E A \in T : \A B \in T : ~(B \subseteq A /\ B # A)
<1>1. T \subseteq FiniteSubsetsOf(Jobs)
  BY JobsFinite, FS_FiniteSubsetsOfFinite
<1>2. PICK A \in T : \A B \in T : <<B, A>> \notin StrictSubsetOrdering(Jobs)
  BY <1>1, WFMin, FS_StrictSubsetOrderingWellFounded
<1> QED BY <1>2 DEF StrictSubsetOrdering

\* Two solutions of the recursion agree where both are defined.
LEMMA SumUnique ==
  ASSUME NEW r, NEW A \in SUBSET Jobs, NEW B \in SUBSET Jobs, NEW g, NEW h,
         IsSum(g, A, r), IsSum(h, B, r)
  PROVE  \A s \in SUBSET (A \cap B) : g[s] = h[s]
<1> DEFINE T == {s \in SUBSET (A \cap B) : g[s] # h[s]}
<1> SUFFICES ASSUME T # {} PROVE FALSE
  OBVIOUS
<1>1. PICK s \in T : \A t \in T : ~(t \subseteq s /\ t # s)
  <2>1. T \subseteq SUBSET Jobs
    OBVIOUS
  <2> HIDE DEF T
  <2> QED BY <2>1, SmallestSet
<1>2. s \in SUBSET A /\ s \in SUBSET B
  OBVIOUS
<1>3. CASE s = {}
  BY <1>2, <1>3 DEF IsSum
<1>4. CASE s # {}
  <2> DEFINE u == s \ {Pick(s)}
  <2>1. Pick(s) \in s
    BY <1>4 DEF Pick
  <2>2. u \in SUBSET (A \cap B) /\ u \subseteq s /\ u # s
    BY <2>1
  <2>3. g[u] = h[u]
    BY <1>1, <2>2
  <2>4. g[s] = Need[Pick(s)][r] + g[u] /\ h[s] = Need[Pick(s)][r] + h[u]
    BY <1>2, <1>4 DEF IsSum
  <2> QED BY <2>3, <2>4
<1> QED BY <1>3, <1>4

\* The recursion has a solution: a smallest set without one would get one from the
\* solutions of its proper subsets.
LEMMA SumExists ==
  ASSUME NEW r, NEW A \in SUBSET Jobs PROVE \E g : IsSum(g, A, r)
<1> DEFINE T == {B \in SUBSET Jobs : ~ \E g : IsSum(g, B, r)}
<1> SUFFICES ASSUME T # {} PROVE FALSE
  OBVIOUS
<1>1. PICK B \in T : \A U \in T : ~(U \subseteq B /\ U # B)
  <2>1. T \subseteq SUBSET Jobs
    OBVIOUS
  <2> HIDE DEF T
  <2> QED BY <2>1, SmallestSet
<1> DEFINE part(U) == CHOOSE g : IsSum(g, U, r)
<1>2. ASSUME NEW U \in SUBSET B, U # B PROVE IsSum(part(U), U, r)
  BY <1>1, <1>2
<1> DEFINE value(s) == IF s = {} THEN 0
                       ELSE Need[Pick(s)][r] + part(s \ {Pick(s)})[s \ {Pick(s)}]
           g == [s \in SUBSET B |-> value(s)]
<1>3. \A s : s # {} => Pick(s) \in s
  BY DEF Pick
<1>4. ASSUME NEW u \in SUBSET B, u # B PROVE g[u] = part(u)[u]
  <2>1. IsSum(part(u), u, r)
    BY <1>2, <1>4
  <2> HIDE DEF part
  <2>2. CASE u = {}
    BY <2>1, <2>2 DEF IsSum
  <2>3. CASE u # {}
    <3> DEFINE t == u \ {Pick(u)}
    <3>1. t \in SUBSET B /\ t # B /\ t \subseteq u /\ u \subseteq Jobs
      BY <1>3, <1>4, <2>3
    <3>2. IsSum(part(t), t, r)
      BY <1>2, <3>1
    <3>3. part(u)[t] = part(t)[t]
      <4>1. u \in SUBSET Jobs /\ t \in SUBSET Jobs /\ t \in SUBSET (u \cap t)
        BY <3>1
      <4> HIDE DEF t
      <4>2. \A s \in SUBSET (u \cap t) : part(u)[s] = part(t)[s]
        BY <2>1, <3>2, <4>1, SumUnique
      <4> QED BY <4>1, <4>2
    <3>4. part(u)[u] = Need[Pick(u)][r] + part(u)[t]
      BY <2>1, <2>3 DEF IsSum
    <3>5. g[u] = Need[Pick(u)][r] + part(t)[t]
      BY <2>3
    <3> QED BY <3>3, <3>4, <3>5
  <2> QED BY <2>2, <2>3
<1>5. ASSUME NEW s \in SUBSET B, s # {}
      PROVE  value(s) = Need[Pick(s)][r] + g[s \ {Pick(s)}]
  <2>1. s \ {Pick(s)} \in SUBSET B /\ s \ {Pick(s)} # B
    BY <1>3, <1>5
  <2>2. g[s \ {Pick(s)}] = part(s \ {Pick(s)})[s \ {Pick(s)}]
    BY <1>4, <2>1
  <2> HIDE DEF part, g
  <2> QED BY <1>5, <2>2
<1>6. IsSum(g, B, r)
  <2> HIDE DEF part
  <2>1. \A s \in SUBSET B : value(s) = IF s = {} THEN 0 ELSE Need[Pick(s)][r] + g[s \ {Pick(s)}]
    BY <1>5
  <2>2. g = [s \in SUBSET B |-> value(s)]
    OBVIOUS
  <2> HIDE DEF g, value
  <2> QED BY <2>1, <2>2 DEF IsSum
<1> QED BY <1>6

\* So the sum satisfies its recursion.
LEMMA SumRecurs ==
  ASSUME NEW r, NEW A \in SUBSET Jobs
  PROVE  /\ A = {} => Sum(A, r) = 0
         /\ A # {} => Sum(A, r) = Need[Pick(A)][r] + Sum(A \ {Pick(A)}, r)
<1> DEFINE f(U) == CHOOSE g : IsSum(g, U, r)
<1>1. \A U \in SUBSET Jobs : IsSum(f(U), U, r)
  BY SumExists
<1>2. \A U : Sum(U, r) = f(U)[U]
  BY SumIsFold
<1> HIDE DEF f
<1>3. A = {} => Sum(A, r) = 0
  BY <1>1, <1>2 DEF IsSum
<1>4. ASSUME A # {} PROVE Sum(A, r) = Need[Pick(A)][r] + Sum(A \ {Pick(A)}, r)
  <2> DEFINE t == A \ {Pick(A)}
  <2>1. f(A)[A] = Need[Pick(A)][r] + f(A)[t]
    BY <1>1, <1>4 DEF IsSum
  <2>2. f(A)[t] = f(t)[t]
    <3>1. IsSum(f(A), A, r) /\ IsSum(f(t), t, r) /\ t \in SUBSET Jobs
            /\ t \in SUBSET (A \cap t)
      BY <1>1
    <3> HIDE DEF t
    <3>2. \A s \in SUBSET (A \cap t) : f(A)[s] = f(t)[s]
      BY <3>1, SumUnique
    <3> QED BY <3>1, <3>2
  <2> QED BY <1>2, <2>1, <2>2
<1> QED BY <1>3, <1>4

\* A sum of needs is a natural number.
LEMMA SumNat ==
  ASSUME NEW r \in Resources, NEW A \in SUBSET Jobs PROVE Sum(A, r) \in Nat
<1> DEFINE T == {B \in SUBSET Jobs : Sum(B, r) \notin Nat}
<1> SUFFICES ASSUME T # {} PROVE FALSE
  OBVIOUS
<1>1. PICK B \in T : \A U \in T : ~(U \subseteq B /\ U # B)
  <2>1. T \subseteq SUBSET Jobs
    OBVIOUS
  <2> HIDE DEF T
  <2> QED BY <2>1, SmallestSet
<1> HIDE DEF T
<1>2. B \in SUBSET Jobs /\ Sum(B, r) \notin Nat
  BY DEF T
<1>3. /\ B = {} => Sum(B, r) = 0
      /\ B # {} => Sum(B, r) = Need[Pick(B)][r] + Sum(B \ {Pick(B)}, r)
  BY <1>2, SumRecurs, Zenon
<1>4. B # {}
  BY <1>2, <1>3
<1>5. Pick(B) \in B
  BY <1>4 DEF Pick
<1>6. Need[Pick(B)][r] \in Nat
  BY <1>2, <1>5, Amounts
<1>7. Sum(B \ {Pick(B)}, r) \in Nat
  <2> DEFINE U == B \ {Pick(B)}
  <2>1. U \in SUBSET Jobs /\ U \subseteq B /\ U # B
    BY <1>2, <1>5
  <2> HIDE DEF U
  <2>2. U \notin T
    BY <1>1, <2>1
  <2>3. Sum(U, r) \in Nat
    BY <2>1, <2>2 DEF T
  <2> QED BY <2>3 DEF U
<1> QED BY <1>2, <1>3, <1>4, <1>6, <1>7

\* Any job, not only the one the fold takes first, may be taken out of a sum.
LEMMA SumTakeAny ==
  ASSUME NEW r \in Resources, NEW A \in SUBSET Jobs, NEW a \in A
  PROVE  Sum(A, r) = Need[a][r] + Sum(A \ {a}, r)
<1> DEFINE T == {B \in SUBSET Jobs : \E b \in B : Sum(B, r) # Need[b][r] + Sum(B \ {b}, r)}
<1> SUFFICES ASSUME T # {} PROVE FALSE
  OBVIOUS
<1>1. PICK B \in T : \A U \in T : ~(U \subseteq B /\ U # B)
  <2>1. T \subseteq SUBSET Jobs
    OBVIOUS
  <2> HIDE DEF T
  <2> QED BY <2>1, SmallestSet
<1>2. PICK b \in B : Sum(B, r) # Need[b][r] + Sum(B \ {b}, r)
  OBVIOUS
<1> DEFINE c == Pick(B)
<1>3. c \in B /\ Sum(B, r) = Need[c][r] + Sum(B \ {c}, r)
  BY <1>2, SumRecurs DEF Pick
<1> HIDE DEF c
<1>4. b # c
  BY <1>2, <1>3
<1>5. /\ Sum(B \ {c}, r) = Need[b][r] + Sum((B \ {c}) \ {b}, r)
      /\ Sum(B \ {b}, r) = Need[c][r] + Sum((B \ {b}) \ {c}, r)
  <2>1. B \ {c} \notin T /\ B \ {b} \notin T
    BY <1>1, <1>2, <1>3
  <2> QED BY <1>3, <1>4, <2>1
<1>6. (B \ {c}) \ {b} = (B \ {b}) \ {c}
  OBVIOUS
<1>7. /\ Need[b][r] \in Nat /\ Need[c][r] \in Nat
      /\ Sum((B \ {c}) \ {b}, r) \in Nat
  BY <1>3, SumNat, Amounts
<1> DEFINE sum == Sum((B \ {c}) \ {b}, r)
<1>8. /\ Sum(B, r) = Need[c][r] + (Need[b][r] + sum)
      /\ Sum(B, r) # Need[b][r] + (Need[c][r] + sum)
  BY <1>2, <1>3, <1>5, <1>6, Zenon
<1> HIDE DEF T, sum
<1> QED BY <1>7, <1>8 DEF sum

-----------------------------------------------------------------------------
(* The inductive invariant *)

\* Job j has been submitted.
Arrived(j) == Arrival[j] < tick \/ (Arrival[j] = tick /\ phase \in {"complete", "place"})

\* The clock, and the jobs set aside, are where the phase says.
Clock == /\ tick < MaxTicks <=> phase # "over"
         /\ phase # "place" => requeue = {}

\* OneState without counting.
Partition ==
  /\ \A j \in Jobs : Arrived(j) <=> j \in pending \cup requeue \cup running \cup completed
  /\ pending \cap requeue = {} /\ pending \cap running = {} /\ pending \cap completed = {}
  /\ requeue \cap running = {} /\ requeue \cap completed = {} /\ running \cap completed = {}

\* What u reserves is what the jobs run need where nd places them.
Exact(u, run, nd) ==
  \A i \in Index, r \in Resources :
    /\ u[i][r] = Sum({k \in run : nd[k] = Nodes[i]}, r)
    /\ u[i][r] <= Total[i][r]

\* A running job is on a node.
Placed == \A j \in running : \E i \in Index : node[j] = Nodes[i]

\* The inductive invariant.
IInv == /\ SchedTypeOK /\ Clock /\ Partition /\ Placed /\ Exact(used, running, node)
        /\ FinishAhead /\ ConsideredInOrder

-----------------------------------------------------------------------------
(* Nodes *)

\* Release gives back what the job holds on its node, and nothing else.
LEMMA ReleaseAt ==
  ASSUME NEW u, NEW j \in Jobs, NEW i \in Index, node[j] = Nodes[i]
  PROVE  Release(u, j) = [u EXCEPT ![i] = [r \in Resources |-> @[r] - Need[j][r]]]
<1> DEFINE P(n) == Nodes[n] = node[j] /\ \A k \in Index : Nodes[k] = node[j] => n <= k
           at == CHOOSE n \in Index : P(n)
<1>1. i \in Nat
  BY Names
<1>2. P(i)
  BY <1>1, Names
<1>3. at \in Index /\ P(at)
  BY <1>2
<1>4. at = i
  BY <1>3, Names
<1>5. Release(u, j) = [u EXCEPT ![at] = [r \in Resources |-> @[r] - Need[j][r]]]
  BY Zenon DEF Release
<1> HIDE DEF at
<1> QED BY <1>4, <1>5

\* After a Release the bookkeeping is exact for the jobs that are left.
LEMMA ReleaseExact ==
  ASSUME NEW u \in [Index -> [Resources -> Nat]], NEW run \in SUBSET Jobs, NEW j \in run,
         Exact(u, run, node), NEW n \in Index, node[j] = Nodes[n]
  PROVE  /\ Release(u, j) \in [Index -> [Resources -> Nat]]
         /\ Exact(Release(u, j), run \ {j}, node)
<1> DEFINE u2 == Release(u, j)
           at(i) == {k \in run : node[k] = Nodes[i]}
           at2(i) == {k \in run \ {j} : node[k] = Nodes[i]}
<1>1. u2 = [u EXCEPT ![n] = [r \in Resources |-> @[r] - Need[j][r]]]
  BY ReleaseAt
<1>2. ASSUME NEW i \in Index, NEW r \in Resources
      PROVE  /\ u2[i][r] \in Nat /\ u2[i][r] = Sum(at2(i), r) /\ u2[i][r] <= Total[i][r]
  <2>1. u[i][r] = Sum(at(i), r) /\ u[i][r] <= Total[i][r] /\ Total[i][r] \in Nat /\ u[i][r] \in Nat
    BY <1>2, Amounts DEF Exact
  <2>2. CASE i = n
    <3>1. j \in at(i) /\ at2(i) = at(i) \ {j} /\ at(i) \in SUBSET Jobs
      BY <2>2
    <3>2. Sum(at(i), r) = Need[j][r] + Sum(at2(i), r)
      <4> HIDE DEF at, at2
      <4> QED BY <3>1, SumTakeAny
    <3>3. Sum(at2(i), r) \in Nat /\ Need[j][r] \in Nat
      <4>1. at2(i) \in SUBSET Jobs
        OBVIOUS
      <4> HIDE DEF at2
      <4> QED BY <4>1, SumNat, Amounts
    <3>4. u2[i][r] = u[i][r] - Need[j][r]
      BY <1>1, <2>2
    <3> HIDE DEF u2, at, at2
    <3> QED BY <2>1, <3>2, <3>3, <3>4
  <2>3. CASE i # n
    <3>1. at2(i) = at(i)
      BY <2>3, Names
    <3>2. u2[i] = u[i]
      BY <1>1, <2>3
    <3> HIDE DEF u2, at, at2
    <3> QED BY <2>1, <3>1, <3>2
  <2> QED BY <2>2, <2>3
<1>3. u2 \in [Index -> [Resources -> Nat]]
  <2>1. u2 = [i \in Index |-> [r \in Resources |-> u2[i][r]]]
    BY <1>1
  <2> HIDE DEF u2
  <2> QED BY <1>2, <2>1
<1> QED BY <1>2, <1>3 DEF Exact

\* After a Reserve on a node that fits it is exact with the new job.
LEMMA ReserveExact ==
  ASSUME NEW u \in [Index -> [Resources -> Nat]], NEW run \in SUBSET Jobs,
         NEW j \in Jobs \ run, node \in [Jobs -> {Nodes[i] : i \in Index} \cup {"none"}],
         Exact(u, run, node), NEW n \in FindFit(u, j)
  PROVE  /\ Reserve(u, n, j) \in [Index -> [Resources -> Nat]]
         /\ Exact(Reserve(u, n, j), run \cup {j}, [node EXCEPT ![j] = Nodes[n]])
<1> DEFINE u2 == Reserve(u, n, j)
           nd == [node EXCEPT ![j] = Nodes[n]]
           at(i) == {k \in run : node[k] = Nodes[i]}
           at2(i) == {k \in run \cup {j} : nd[k] = Nodes[i]}
<1>0. n \in Index /\ \A r \in Resources : Total[n][r] - u[n][r] >= Need[j][r]
  BY DEF FindFit, Fits, Free
<1>1. u2 = [u EXCEPT ![n] = [r \in Resources |-> @[r] + Need[j][r]]]
  BY DEF Reserve
<1>2. ASSUME NEW i \in Index, NEW r \in Resources
      PROVE  /\ u2[i][r] \in Nat /\ u2[i][r] = Sum(at2(i), r) /\ u2[i][r] <= Total[i][r]
  <2>1. u[i][r] = Sum(at(i), r) /\ u[i][r] <= Total[i][r] /\ Total[i][r] \in Nat /\ u[i][r] \in Nat
    BY <1>2, Amounts DEF Exact
  <2>2. CASE i = n
    <3>1. j \in at2(i) /\ at(i) = at2(i) \ {j} /\ at2(i) \in SUBSET Jobs
      BY <2>2
    <3>2. Sum(at2(i), r) = Need[j][r] + Sum(at(i), r)
      <4> HIDE DEF at, at2
      <4> QED BY <3>1, SumTakeAny
    <3>3. Need[j][r] \in Nat /\ Total[n][r] - u[n][r] >= Need[j][r]
      BY <1>0, Amounts
    <3>4. u2[i][r] = u[i][r] + Need[j][r]
      BY <1>1, <2>2
    <3> HIDE DEF u2, at, at2
    <3> QED BY <2>1, <2>2, <3>2, <3>3, <3>4
  <2>3. CASE i # n
    <3>1. at2(i) = at(i)
      BY <1>0, <2>3, Names
    <3>2. u2[i] = u[i]
      BY <1>1, <2>3
    <3> HIDE DEF u2, at, at2
    <3> QED BY <2>1, <3>1, <3>2
  <2> QED BY <2>2, <2>3
<1>3. u2 \in [Index -> [Resources -> Nat]]
  <2>1. u2 = [i \in Index |-> [r \in Resources |-> u2[i][r]]]
    BY <1>0, <1>1
  <2> HIDE DEF u2
  <2> QED BY <1>2, <2>1
<1> QED BY <1>2, <1>3 DEF Exact

-----------------------------------------------------------------------------
(* The steps of a tick *)

\* The simulator starts with nothing submitted and nothing reserved.
LEMMA InitInv == SchedInit => IInv
<1> SUFFICES ASSUME SchedInit PROVE IInv
  OBVIOUS
<1> USE Numbers DEF SchedInit
<1>1. SchedTypeOK
  BY DEF SchedTypeOK
<1>2. Clock /\ Partition /\ Placed /\ FinishAhead /\ ConsideredInOrder
  BY DEF Clock, Partition, Arrived, Placed, FinishAhead, ConsideredInOrder
<1>3. Exact(used, running, node)
  <2> SUFFICES ASSUME NEW i \in Index, NEW r \in Resources
               PROVE  used[i][r] = Sum({k \in running : node[k] = Nodes[i]}, r)
                        /\ used[i][r] <= Total[i][r]
    BY DEF Exact
  <2>1. {k \in running : node[k] = Nodes[i]} = {}
    OBVIOUS
  <2>2. Sum({}, r) = 0
    BY SumRecurs
  <2> QED BY <2>1, <2>2, Amounts
<1> QED BY <1>1, <1>2, <1>3 DEF IInv

\* The jobs that arrive in a tick were in none of the four places.
LEMMA SubmitInv == ASSUME IInv, SubmitArrivals PROVE IInv'
<1> USE Numbers DEF SubmitArrivals
<1>1. SchedTypeOK'
  BY DEF IInv, SchedTypeOK
<1>2. Clock' /\ Placed' /\ FinishAhead'
  BY DEF IInv, SchedTypeOK, Clock, Placed, FinishAhead
<1>3. Partition'
  <2>1. pending' = pending \cup {j \in Jobs : Arrival[j] = tick}
          /\ \A j \in Jobs : Arrival[j] = tick => ~Arrived(j)
    BY DEF Arrived, IInv, SchedTypeOK
  <2>2. \A j \in Jobs : Arrived(j)' <=> (Arrived(j) \/ Arrival[j] = tick)
    BY DEF Arrived, IInv, SchedTypeOK
  <2> QED BY <2>1, <2>2 DEF IInv, Partition
<1>4. ConsideredInOrder'
  BY DEF IInv, Clock, ConsideredInOrder
<1>5. Exact(used, running, node)'
  BY DEF IInv, Exact
<1> QED BY <1>1, <1>2, <1>3, <1>4, <1>5 DEF IInv

\* A completion gives back what the job held.
LEMMA CompleteInv == ASSUME IInv, NEW j \in Jobs, Complete(j) PROVE IInv'
<1> USE DEF Complete
<1>1. PICK n \in Index : node[j] = Nodes[n]
  BY DEF IInv, Placed, Finished
<1>2. used' \in [Index -> [Resources -> Nat]] /\ Exact(used', running', node')
  BY <1>1, ReleaseExact DEF IInv, SchedTypeOK, Finished
<1>3. SchedTypeOK'
  BY <1>2 DEF IInv, SchedTypeOK
<1>4. Clock' /\ Placed' /\ FinishAhead' /\ ConsideredInOrder'
  BY DEF IInv, Clock, Placed, FinishAhead, ConsideredInOrder
<1>5. Partition'
  <2>1. \A k \in Jobs : Arrived(k)' <=> Arrived(k)
    BY DEF Arrived
  <2> QED BY <2>1 DEF IInv, Partition, Finished
<1>6. Exact(used, running, node)'
  BY <1>2 DEF Exact
<1> QED BY <1>3, <1>4, <1>5, <1>6 DEF IInv

\* Placement begins when no running job is due.
LEMMA AllCompletedInv == ASSUME IInv, AllCompleted PROVE IInv'
<1> USE DEF AllCompleted
<1>1. SchedTypeOK' /\ Clock' /\ Placed' /\ ConsideredInOrder'
  BY DEF IInv, SchedTypeOK, Clock, Placed, ConsideredInOrder
<1>2. FinishAhead'
  <2> SUFFICES ASSUME NEW j \in running PROVE finish[j] > tick
    BY DEF FinishAhead
  <2>1. finish[j] >= tick /\ finish[j] # tick
    BY DEF IInv, FinishAhead, Finished
  <2>2. finish[j] \in Nat /\ tick \in Nat
    BY DEF IInv, SchedTypeOK
  <2> QED BY <2>1, <2>2
<1>3. Partition'
  <2>1. \A k \in Jobs : Arrived(k)' <=> Arrived(k)
    BY DEF Arrived
  <2> QED BY <2>1 DEF IInv, Partition
<1>4. Exact(used, running, node)'
  BY DEF IInv, Exact
<1> QED BY <1>1, <1>2, <1>3, <1>4 DEF IInv

\* A tick ends with an empty queue; the jobs set aside are the next one.
LEMMA EndTickInv == ASSUME IInv, EndTick PROVE IInv'
<1> USE Numbers DEF EndTick
<1>1. SchedTypeOK'
  BY DEF IInv, SchedTypeOK, Clock
<1>2. Clock' /\ Placed' /\ ConsideredInOrder'
  BY DEF IInv, SchedTypeOK, Clock, Placed, ConsideredInOrder
<1>3. FinishAhead'
  BY DEF IInv, SchedTypeOK, FinishAhead
<1>4. Partition'
  <2>1. \A k \in Jobs : Arrived(k)' <=> Arrived(k)
    <3> SUFFICES ASSUME NEW k \in Jobs PROVE Arrived(k)' <=> Arrived(k)
      OBVIOUS
    <3>1. Arrival[k] \in Nat /\ tick \in Nat
      BY DEF IInv, SchedTypeOK
    <3>2. phase' \notin {"complete", "place"} /\ tick' = tick + 1 /\ phase = "place"
      OBVIOUS
    <3> QED BY <3>1, <3>2 DEF Arrived
  <2> QED BY <2>1 DEF IInv, Partition
<1>5. Exact(used, running, node)'
  BY DEF IInv, Exact
<1> QED BY <1>1, <1>2, <1>3, <1>4, <1>5 DEF IInv

\* A job popped from the queue is started or set aside; q, run and u are the queue,
\* the running jobs and the bookkeeping after a preemption, if there was one.
LEMMA StartOrWaitInv ==
  ASSUME IInv, NEW q, NEW run, NEW u \in [Index -> [Resources -> Nat]], NEW j \in q,
         q \subseteq Jobs, run \subseteq running, q \cap run = {},
         q \cup run = pending \cup running, Exact(u, run, node),
         \A p \in q : Priority[p] <= Priority[j], pending \subseteq q,
         \A w \in requeue : Priority[j] <= Priority[w],
         phase = "place", UNCHANGED <<tick, phase, completed>>, submitTime' \in [Jobs -> Nat],
         StartOrWait(j, q, run, u)
  PROVE  IInv'
<1> USE Numbers
<1>1. run \subseteq Jobs /\ j \in Jobs \ run /\ j \notin requeue /\ j \notin completed
  BY DEF IInv, SchedTypeOK, Partition
<1>2. \A k \in Jobs : Arrived(k)' <=> Arrived(k)
  BY DEF Arrived
<1>3. ConsideredInOrder'
  <2>1. pending' \subseteq q /\ requeue' \subseteq requeue \cup {j}
    BY DEF StartOrWait
  <2> SUFFICES ASSUME NEW w \in requeue', NEW p \in pending' PROVE Priority[p] <= Priority[w]
    BY DEF ConsideredInOrder
  <2>2. Priority[p] <= Priority[j]
    BY <2>1
  <2>3. Priority[j] <= Priority[w]
    BY <1>1, <2>1
  <2>4. p \in Jobs /\ w \in Jobs
    BY <1>1, <2>1 DEF IInv, SchedTypeOK
  <2> QED BY <1>1, <2>2, <2>3, <2>4
<1>4. ASSUME NEW n \in FindFit(u, j), NEW t \in Durations,
             used' = Reserve(u, n, j), node' = [node EXCEPT ![j] = Nodes[n]],
             finish' = [finish EXCEPT ![j] = tick + t], running' = run \cup {j},
             requeue' = requeue, pending' = q \ {j}
      PROVE  IInv'
  <2>1. used' \in [Index -> [Resources -> Nat]] /\ Exact(used', running', node')
    BY <1>1, <1>4, ReserveExact DEF IInv, SchedTypeOK
  <2>2. n \in Index
    BY DEF FindFit
  <2>3. SchedTypeOK'
    BY <1>1, <1>4, <2>1, <2>2 DEF IInv, SchedTypeOK
  <2>4. Clock' /\ Placed'
    BY <1>1, <1>4, <2>2 DEF IInv, SchedTypeOK, Clock, Placed
  <2>5. FinishAhead'
    BY <1>1, <1>4 DEF IInv, SchedTypeOK, FinishAhead
  <2>6. Partition'
    BY <1>1, <1>2, <1>4 DEF IInv, Partition
  <2>7. Exact(used, running, node)'
    BY <2>1 DEF Exact
  <2> QED BY <1>3, <2>3, <2>4, <2>5, <2>6, <2>7 DEF IInv
<1>5. ASSUME requeue' = requeue \cup {j}, running' = run, used' = u,
             UNCHANGED <<node, finish>>, pending' = q \ {j}
      PROVE  IInv'
  <2>1. SchedTypeOK'
    BY <1>1, <1>5 DEF IInv, SchedTypeOK
  <2>2. Clock' /\ Placed' /\ FinishAhead'
    BY <1>5 DEF IInv, Clock, Placed, FinishAhead
  <2>3. Partition'
    BY <1>1, <1>2, <1>5 DEF IInv, Partition
  <2>4. Exact(used, running, node)'
    BY <1>5 DEF Exact
  <2> QED BY <1>3, <2>1, <2>2, <2>3, <2>4 DEF IInv
<1> QED BY <1>4, <1>5 DEF StartOrWait

\* The job popped has the highest priority in the queue.
LEMMA HeadRanksHighest ==
  ASSUME IInv, NEW j \in Queue!Heads(pending)
  PROVE  /\ j \in pending /\ j \in Jobs
         /\ \A p \in pending : Priority[p] <= Priority[j]
         /\ \A w \in requeue : Priority[j] <= Priority[w]
<1>1. j \in pending /\ j \in Jobs /\ \A p \in pending : p \in Jobs /\ ~Queue!Less(p, j)
  BY DEF Queue!Heads, IInv, SchedTypeOK
<1>2. \A p \in pending : Priority[p] <= Priority[j]
  BY <1>1, Numbers DEF Queue!Less
<1>3. \A w \in requeue : Priority[j] <= Priority[w]
  BY <1>1 DEF IInv, ConsideredInOrder
<1> QED BY <1>1, <1>2, <1>3

\* Placing the head of the queue preserves the invariant.
LEMMA PlaceInv == ASSUME IInv, NEW j \in Jobs, Place(j) PROVE IInv'
<1>1. /\ j \in Queue!Heads(pending) /\ phase = "place"
      /\ UNCHANGED <<tick, phase, submitTime, completed>>
      /\ StartOrWait(j, pending, running, used)
  BY DEF Place
<1>2. /\ used \in [Index -> [Resources -> Nat]] /\ pending \subseteq Jobs
      /\ pending \cap running = {} /\ Exact(used, running, node)
      /\ submitTime' \in [Jobs -> Nat]
  BY <1>1 DEF IInv, SchedTypeOK, Partition
<1> QED BY <1>1, <1>2, HeadRanksHighest, StartOrWaitInv

\* So does preempting for it, whether or not the victim was of any use.
LEMMA PreemptInv ==
  ASSUME IInv, NEW j \in Jobs, NEW v \in Jobs, Preempt(j, v) PROVE IInv'
<1> DEFINE q == pending \cup {v}
           run == running \ {v}
           u == Release(used, v)
<1>1. /\ j \in Queue!Heads(pending) /\ phase = "place" /\ v \in Victims(j)
      /\ UNCHANGED <<tick, phase, completed>>
      /\ submitTime' = [submitTime EXCEPT ![v] = tick]
      /\ StartOrWait(j, q, run, u)
  BY DEF Preempt
<1>2. v \in running /\ Priority[v] < Priority[j]
  BY <1>1 DEF Victims
<1>3. PICK n \in Index : node[v] = Nodes[n]
  BY <1>2 DEF IInv, Placed
<1>4. u \in [Index -> [Resources -> Nat]] /\ Exact(u, run, node)
  BY <1>2, <1>3, ReleaseExact DEF IInv, SchedTypeOK
<1>5. submitTime' \in [Jobs -> Nat]
  BY <1>1 DEF IInv, SchedTypeOK
<1>6. /\ q \subseteq Jobs /\ run \subseteq running /\ q \cap run = {}
      /\ q \cup run = pending \cup running /\ j \in q /\ pending \subseteq q
  BY <1>1, <1>2, HeadRanksHighest DEF IInv, SchedTypeOK, Partition
<1>7. \A p \in q : Priority[p] <= Priority[j]
  BY <1>1, <1>2, HeadRanksHighest, Numbers
<1>8. \A w \in requeue : Priority[j] <= Priority[w]
  BY <1>1, HeadRanksHighest
<1> HIDE DEF q, run, u
<1> QED BY <1>1, <1>4, <1>5, <1>6, <1>7, <1>8, StartOrWaitInv

\* Every step of the simulator preserves the inductive invariant.
LEMMA NextInv == IInv /\ [SchedNext]_schedVars => IInv'
<1> SUFFICES ASSUME IInv, [SchedNext]_schedVars PROVE IInv'
  OBVIOUS
<1>1. CASE UNCHANGED schedVars
  <2>1. SchedTypeOK' /\ Clock' /\ Placed' /\ FinishAhead' /\ ConsideredInOrder'
    BY <1>1 DEF schedVars, IInv, SchedTypeOK, Clock, Placed, FinishAhead, ConsideredInOrder
  <2>2. Partition' /\ Exact(used, running, node)'
    BY <1>1 DEF schedVars, IInv, Partition, Arrived, Exact
  <2> QED BY <2>1, <2>2 DEF IInv
<1>2. CASE SchedNext
  BY <1>1, <1>2, SubmitInv, AllCompletedInv, EndTickInv, CompleteInv, PlaceInv, PreemptInv
     DEF SchedNext, Over
<1> QED BY <1>1, <1>2

\* What the inductive invariant says, in the terms of the properties.
LEMMA InvMeaning == IInv => OneState /\ UsedIsPlaced
<1> SUFFICES ASSUME IInv PROVE OneState /\ UsedIsPlaced
  OBVIOUS
<1>1. OneState
  <2> SUFFICES ASSUME NEW j \in Jobs
               PROVE  Cardinality({S \in {<<"q", pending>>, <<"w", requeue>>, <<"r", running>>,
                                          <<"c", completed>>} : j \in S[2]})
                        = IF Arrived(j) THEN 1 ELSE 0
    BY DEF OneState, Arrived
  <2> DEFINE places == {S \in {<<"q", pending>>, <<"w", requeue>>, <<"r", running>>,
                               <<"c", completed>>} : j \in S[2]}
  <2>1. CASE ~Arrived(j)
    <3>1. places = {}
      BY <2>1 DEF IInv, Partition
    <3> QED BY <2>1, <3>1, FS_EmptySet
  <2>2. CASE Arrived(j)
    <3>1. \E p : places = {p}
      <4>1. CASE j \in pending
        <5>1. places = {<<"q", pending>>}
          BY <4>1 DEF IInv, Partition
        <5> QED BY <5>1
      <4>2. CASE j \in requeue
        <5>1. places = {<<"w", requeue>>}
          BY <4>2 DEF IInv, Partition
        <5> QED BY <5>1
      <4>3. CASE j \in running
        <5>1. places = {<<"r", running>>}
          BY <4>3 DEF IInv, Partition
        <5> QED BY <5>1
      <4>4. CASE j \in completed
        <5>1. places = {<<"c", completed>>}
          BY <4>4 DEF IInv, Partition
        <5> QED BY <5>1
      <4> QED BY <2>2, <4>1, <4>2, <4>3, <4>4 DEF IInv, Partition
    <3> QED BY <2>2, <3>1, FS_Singleton
  <2> QED BY <2>1, <2>2
<1>2. UsedIsPlaced
  BY DEF IInv, Exact, UsedIsPlaced, Sum
<1> QED BY <1>1, <1>2

-----------------------------------------------------------------------------
(* Theorems *)

\* The simulator preserves the inductive invariant.
THEOREM SchedInductive == SchedSpec => []IInv
BY InitInv, NextInv, PTL DEF SchedSpec

\* Type correctness; in particular no Release makes a node's usage negative.
THEOREM SchedTypeCorrect == SchedSpec => []SchedTypeOK
BY SchedInductive, PTL DEF IInv

\* No job is lost or duplicated by arrival, placement, preemption and requeueing.
THEOREM JobsAreNotLost == SchedSpec => []OneState
BY SchedInductive, InvMeaning, PTL

\* A node's bookkeeping is the sum of what its running jobs need, and within its
\* capacity.
THEOREM BookkeepingIsExact == SchedSpec => []UsedIsPlaced
BY SchedInductive, InvMeaning, PTL

\* Jobs are considered highest priority first, preempted ones included.
THEOREM PriorityOrder == SchedSpec => []ConsideredInOrder
BY SchedInductive, PTL DEF IInv

\* No running job is past its finish tick, so the test finishTick == tick misses none.
THEOREM NoCompletionMissed == SchedSpec => []FinishAhead
BY SchedInductive, PTL DEF IInv

-----------------------------------------------------------------------------
(* Why placement ends *)

\* The jobs in the queue q, each paired with itself and with every job it may ever
\* preempt.
Claims(q) == {e \in q \X Jobs : e[1] = e[2] \/ Priority[e[2]] < Priority[e[1]]}

LEMMA ClaimsFinite ==
  ASSUME NEW q, q \subseteq Jobs
  PROVE  IsFiniteSet(Claims(q)) /\ Cardinality(Claims(q)) \in Nat
<1>1. IsFiniteSet(Jobs \X Jobs)
  BY JobsFinite, FS_Product
<1>2. Claims(q) \subseteq Jobs \X Jobs
  BY DEF Claims
<1>3. IsFiniteSet(Claims(q))
  BY <1>1, <1>2, FS_Subset
<1> QED BY <1>3, FS_CardinalityType

\* Job j leaves the queue, and at most one job that j outranks comes in.
LEMMA ClaimsFall ==
  ASSUME NEW q, NEW p, q \subseteq Jobs, p \subseteq Jobs, NEW j \in q, j \notin p,
         \A v \in p \ q : Priority[v] < Priority[j],
         \A u, v \in p \ q : u = v
  PROVE  Cardinality(Claims(p)) < Cardinality(Claims(q))
<1> DEFINE own == <<j, j>>
           R == Claims(q) \ {own}
           To(e) == IF e[1] \in q THEN e ELSE <<j, e[2]>>
           f == [e \in Claims(p) |-> To(e)]
<1>1. IsFiniteSet(R) /\ Cardinality(R) = Cardinality(Claims(q)) - 1
  <2>1. own \in Claims(q)
    BY DEF Claims
  <2> QED BY <2>1, ClaimsFinite, FS_RemoveElement
<1>2. ASSUME NEW e \in Claims(p) PROVE To(e) \in R
  <2>1. /\ e[1] \in p /\ e[2] \in Jobs /\ e = <<e[1], e[2]>> /\ e[1] # j
        /\ e[1] = e[2] \/ Priority[e[2]] < Priority[e[1]]
    BY DEF Claims
  <2>2. CASE e[1] \in q
    <3>1. e \in Claims(q) /\ e # own
      BY <2>1, <2>2 DEF Claims
    <3> QED BY <2>2, <3>1
  <2>3. CASE e[1] \notin q
    <3>1. Priority[e[1]] < Priority[j] /\ e[1] \in Jobs
      BY <2>1, <2>3
    <3>2. Priority[e[2]] < Priority[j]
      BY <2>1, <3>1, Numbers
    <3>3. e[2] # j
      BY <3>2, Numbers
    <3>4. <<j, e[2]>> \in Claims(q) /\ <<j, e[2]>> # own
      BY <2>1, <3>2, <3>3 DEF Claims
    <3> QED BY <2>3, <3>4
  <2> QED BY <2>2, <2>3
<1>3. ASSUME NEW d \in Claims(p), NEW e \in Claims(p), To(d) = To(e) PROVE d = e
  <2>1. /\ d[1] \in p /\ d = <<d[1], d[2]>> /\ d[1] # j
        /\ e[1] \in p /\ e = <<e[1], e[2]>> /\ e[1] # j
    BY DEF Claims
  <2>2. CASE d[1] \in q /\ e[1] \in q
    BY <1>3, <2>2
  <2>3. CASE d[1] \notin q /\ e[1] \notin q
    <3>1. d[1] = e[1] /\ <<j, d[2]>> = <<j, e[2]>>
      BY <1>3, <2>1, <2>3
    <3> QED BY <2>1, <3>1
  <2>4. CASE d[1] \in q /\ e[1] \notin q
    <3>1. d = <<j, e[2]>>
      BY <1>3, <2>4
    <3> QED BY <2>1, <3>1
  <2>5. CASE d[1] \notin q /\ e[1] \in q
    <3>1. e = <<j, d[2]>>
      BY <1>3, <2>5
    <3> QED BY <2>1, <3>1
  <2> QED BY <2>2, <2>3, <2>4, <2>5
<1> HIDE DEF To, R
<1>4. f \in Injection(Claims(p), R)
  BY <1>2, <1>3 DEF Injection, IsInjective
<1> HIDE DEF f
<1>5. Cardinality(Claims(p)) <= Cardinality(R)
  BY <1>1, <1>4, FS_Injection
<1>6. Cardinality(Claims(p)) \in Nat /\ Cardinality(Claims(q)) \in Nat
  BY ClaimsFinite
<1> QED BY <1>1, <1>5, <1>6

\* What is left for a placement pass to do, at most.
Left == Cardinality(Claims(pending))

\* A placement pass cannot go on for ever, although preempted jobs return to the queue it
\* empties: each turn of the loop makes Left, a natural number, smaller, whether the job
\* was placed, set aside or placed by preemption and whether or not that helped.
THEOREM PlacementDescends ==
  SchedSpec => [][phase = "place" /\ phase' = "place" => Left \in Nat /\ Left' < Left]_schedVars
<1>1. ASSUME IInv, SchedNext, phase = "place", phase' = "place"
      PROVE  Left \in Nat /\ Left' < Left
  <2>0. pending \subseteq Jobs /\ running \subseteq Jobs /\ pending \cap running = {}
    BY <1>1 DEF IInv, SchedTypeOK, Partition
  <2>1. Left \in Nat
    BY <2>0, ClaimsFinite DEF Left
  <2>2. ASSUME NEW j \in Jobs, Place(j) PROVE Left' < Left
    <3>1. j \in pending /\ pending' = pending \ {j}
      BY <1>1, <2>2, HeadRanksHighest DEF Place, StartOrWait
    <3>2. Cardinality(Claims(pending \ {j})) < Cardinality(Claims(pending))
      BY <2>0, <3>1, ClaimsFall
    <3> QED BY <3>1, <3>2 DEF Left, Claims
  <2>3. ASSUME NEW j \in Jobs, NEW v \in Jobs, Preempt(j, v) PROVE Left' < Left
    <3>1. j \in pending /\ pending' = (pending \cup {v}) \ {j} /\ Priority[v] < Priority[j]
      BY <1>1, <2>3, HeadRanksHighest DEF Preempt, StartOrWait, Victims
    <3> DEFINE p == (pending \cup {v}) \ {j}
    <3>2. /\ p \subseteq Jobs /\ j \notin p /\ \A x \in p \ pending : x = v
      BY <2>0
    <3> HIDE DEF p
    <3>3. Cardinality(Claims(p)) < Cardinality(Claims(pending))
      BY <2>0, <3>1, <3>2, ClaimsFall
    <3> QED BY <3>1, <3>3 DEF p, Left, Claims
  <2>4. \E j \in Jobs : Place(j) \/ \E v \in Jobs : Preempt(j, v)
    BY <1>1 DEF SchedNext, SubmitArrivals, AllCompleted, EndTick, Over, Complete
  <2> QED BY <2>1, <2>2, <2>3, <2>4
<1>2. IInv /\ [SchedNext]_schedVars =>
        [phase = "place" /\ phase' = "place" => Left \in Nat /\ Left' < Left]_schedVars
  BY <1>1
<1> QED BY <1>2, SchedInductive, PTL DEF SchedSpec

-----------------------------------------------------------------------------
(* What the tracer says of a wait *)

\* How often job j was told to wait.
Told(j) == log[j].waitReasons

\* The row of a submitted job.  It has been told to wait once for every tick
\* that it spent in the queue since it was last submitted, and perhaps more often
\* (before a preemption), but never more often than there were ticks since it arrived.
RowAt(j) ==
  /\ log[j].submitted = Arrival[j] /\ Arrival[j] <= submitTime[j] /\ submitTime[j] <= tick
  /\ j \in pending => tick - submitTime[j] <= Told(j) /\ Told(j) <= tick - Arrival[j]
  /\ j \in requeue => /\ (tick - submitTime[j]) + 1 <= Told(j)
                      /\ Told(j) <= (tick - Arrival[j]) + 1
  /\ j \in running \cup completed =>
       /\ log[j].started \in Nat /\ log[j].started <= tick
       /\ log[j].started - submitTime[j] <= Told(j)
       /\ Told(j) <= log[j].started - Arrival[j]

\* The rows have their shape.
LogTypeOK == log \in [Jobs -> [submitted : Int, started : Int, waitReasons : Nat]]

\* The jobs that have a row.
Submitted == pending \cup requeue \cup running \cup completed

\* The inductive invariant of the simulator with its log.
TInv == /\ IInv /\ LogTypeOK
        /\ \A j \in Jobs \ Submitted : log[j].waitReasons = 0
        /\ \A j \in Submitted : RowAt(j)

\* Logging changes nothing in the simulator.
LEMMA TraceIsSched == [TraceNext]_tracedVars => [SchedNext]_schedVars
BY DEF TraceNext, tracedVars, TracedArrivals, SchedNext

\* The numbers of a row.
LEMMA RowNumbers ==
  ASSUME TInv, NEW j \in Jobs
  PROVE  /\ log[j] \in [submitted : Int, started : Int, waitReasons : Nat]
         /\ Told(j) \in Nat /\ log[j].started \in Int /\ tick \in Nat
         /\ submitTime[j] \in Nat /\ Arrival[j] \in Nat
BY Numbers DEF TInv, IInv, SchedTypeOK, LogTypeOK, Told

\* The arrivals of a tick begin their rows.
LEMMA ArrivalsLogged == ASSUME TInv, IInv', TracedArrivals PROVE TInv'
<1> USE DEF TracedArrivals, SubmitArrivals
<1> DEFINE now == {j \in Jobs : Arrival[j] = tick}
<1>1. now \cap Submitted = {} /\ pending' = pending \cup now /\ now \subseteq Jobs
  BY Numbers DEF TInv, IInv, SchedTypeOK, Partition, Arrived, Submitted
<1>2. /\ Submitted' = Submitted \cup now /\ Submitted \subseteq Jobs
      /\ pending' \ pending = now
  BY <1>1 DEF Submitted, TInv, IInv, SchedTypeOK
<1>3. \A j \in Jobs : /\ log'[j] = IF j \in now THEN RowSubmitted(log[j]) ELSE log[j]
                      /\ submitTime'[j] = IF j \in now THEN tick ELSE submitTime[j]
  BY <1>2
<1> HIDE DEF now
<1>4. LogTypeOK'
  <2>1. \A j \in Jobs : log'[j] \in [submitted : Int, started : Int, waitReasons : Nat]
    BY <1>3, RowNumbers DEF RowSubmitted
  <2> QED BY <2>1 DEF LogTypeOK
<1>5. ASSUME NEW j \in now PROVE RowAt(j)'
  <2>1. /\ Arrival[j] = tick /\ submitTime'[j] = tick /\ j \in pending'
        /\ j \notin requeue' /\ j \notin running' /\ j \notin completed' /\ tick' = tick
    BY <1>1, <1>3 DEF Submitted, now
  <2>2. log[j].waitReasons = 0 /\ log[j] \in [submitted : Int, started : Int, waitReasons : Nat]
    BY <1>1, RowNumbers DEF TInv
  <2>3. log'[j].submitted = tick /\ log'[j].waitReasons = 0
    BY <1>1, <1>3, <2>2 DEF RowSubmitted
  <2>4. tick \in Nat
    BY <1>1, RowNumbers
  <2> QED BY <2>1, <2>3, <2>4 DEF RowAt, Told
<1>6. ASSUME NEW j \in Submitted PROVE RowAt(j)'
  <2>1. /\ log'[j] = log[j] /\ submitTime'[j] = submitTime[j] /\ RowAt(j)
        /\ (j \in pending' <=> j \in pending)
    BY <1>1, <1>2, <1>3 DEF TInv
  <2> QED BY <2>1 DEF RowAt, Told
<1>7. \A j \in Jobs \ Submitted' : log'[j].waitReasons = 0
  BY <1>2, <1>3 DEF TInv
<1> QED BY <1>2, <1>4, <1>5, <1>6, <1>7 DEF TInv

\* The job popped from the queue is told one thing, started or wait; a victim starts
\* a new wait.
LEMMA PlacementLogged ==
  ASSUME TInv, IInv', NEW j \in Jobs, NEW q, NEW run, NEW u, NEW victims \in SUBSET running,
         j \in pending, q = pending \cup victims, run = running \ victims,
         StartOrWait(j, q, run, u), LogsOutcome(j), UNCHANGED <<tick, completed>>,
         submitTime' = [k \in Jobs |-> IF k \in victims THEN tick ELSE submitTime[k]]
  PROVE  TInv'
<1>1. /\ pending \cap running = {} /\ j \notin victims /\ j \notin running /\ j \notin run
      /\ j \notin completed /\ j \notin requeue
      /\ pending' = q \ {j} /\ Submitted \subseteq Jobs
      /\ running \cap completed = {} /\ running \cap requeue = {} /\ pending \cap requeue = {}
      /\ pending \cap completed = {} /\ requeue \cap completed = {}
  BY DEF TInv, IInv, Partition, StartOrWait, SchedTypeOK, Submitted
<1>2. \/ running' = run \cup {j} /\ requeue' = requeue
      \/ running' = run /\ requeue' = requeue \cup {j}
  BY DEF StartOrWait
<1>3. Submitted' = Submitted
  BY <1>1, <1>2 DEF Submitted
<1>4. /\ log'[j] = IF j \in running' THEN RowStarted(log[j]) ELSE RowTold(log[j])
      /\ \A k \in Jobs : k # j => log'[k] = log[k]
      /\ DOMAIN log' = Jobs /\ log' = [k \in Jobs |-> log'[k]]
  BY DEF LogsOutcome, TInv, LogTypeOK
<1>5. /\ log'[j] \in [submitted : Int, started : Int, waitReasons : Nat]
      /\ log'[j].submitted = log[j].submitted
      /\ j \in running' => log'[j].started = tick /\ log'[j].waitReasons = log[j].waitReasons
      /\ j \notin running' => log'[j].waitReasons = log[j].waitReasons + 1
  BY <1>4, RowNumbers DEF RowStarted, RowTold
<1>6. LogTypeOK'
  <2>1. \A k \in Jobs : log'[k] \in [submitted : Int, started : Int, waitReasons : Nat]
    BY <1>4, <1>5, RowNumbers
  <2> QED BY <1>4, <2>1 DEF LogTypeOK
<1>7. RowAt(j)'
  <2>1. /\ RowAt(j) /\ submitTime'[j] = submitTime[j] /\ j \notin pending' /\ j \notin completed'
        /\ tick' = tick
    BY <1>1 DEF TInv, Submitted
  <2>2. CASE j \in running'
    <3>1. j \notin requeue'
      BY <1>1, <1>2, <2>2
    <3> QED BY <1>5, <2>1, <2>2, <3>1, RowNumbers DEF RowAt, Told
  <2>3. CASE j \notin running'
    BY <1>5, <2>1, <2>3, RowNumbers DEF RowAt, Told
  <2> QED BY <2>2, <2>3
<1>8. ASSUME NEW k \in Submitted, k # j PROVE RowAt(k)'
  <2>1. RowAt(k) /\ log'[k] = log[k] /\ k \in Jobs /\ tick' = tick /\ completed' = completed
    BY <1>1, <1>4, <1>8 DEF TInv
  <2>2. CASE k \in victims
    <3>1. /\ k \in running /\ submitTime'[k] = tick /\ k \notin running' /\ k \notin requeue'
          /\ k \notin completed'
      BY <1>1, <1>2, <1>8, <2>1, <2>2
    <3> QED BY <2>1, <3>1, RowNumbers DEF RowAt, Told
  <2>3. CASE k \notin victims
    <3>1. /\ submitTime'[k] = submitTime[k] /\ (k \in pending' <=> k \in pending)
          /\ (k \in running' <=> k \in running) /\ (k \in requeue' <=> k \in requeue)
      BY <1>1, <1>2, <1>8, <2>1, <2>3
    <3> QED BY <2>1, <3>1 DEF RowAt, Told
  <2> QED BY <2>2, <2>3
<1>9. \A k \in Jobs \ Submitted' : log'[k].waitReasons = 0
  <2>1. j \in Submitted
    BY DEF Submitted
  <2> QED BY <1>3, <1>4, <2>1 DEF TInv
<1> QED BY <1>3, <1>6, <1>7, <1>8, <1>9 DEF TInv

\* The end of a tick makes one more tick of every wait.
LEMMA TickLogged == ASSUME TInv, IInv', EndTick, UNCHANGED log PROVE TInv'
<1> USE DEF EndTick
<1>1. Submitted' = Submitted /\ Submitted \subseteq Jobs
  BY DEF Submitted, TInv, IInv, SchedTypeOK
<1>2. ASSUME NEW j \in Submitted PROVE RowAt(j)'
  <2>1. RowAt(j) /\ j \in Jobs
    BY <1>1 DEF TInv
  <2> QED BY <2>1, RowNumbers DEF RowAt, Told
<1> QED BY <1>1, <1>2 DEF TInv, LogTypeOK

\* The other steps leave the waits alone.
LEMMA QuietLogged ==
  ASSUME TInv, IInv', UNCHANGED log,
         (\E j \in Jobs : Complete(j)) \/ AllCompleted \/ UNCHANGED schedVars
  PROVE  TInv'
<1>1. /\ UNCHANGED <<tick, submitTime, pending, requeue>>
      /\ running' \cup completed' = running \cup completed
  BY DEF Complete, AllCompleted, Finished, schedVars
<1>2. Submitted' = Submitted
  BY <1>1 DEF Submitted
<1>3. ASSUME NEW j \in Submitted PROVE RowAt(j)'
  <2>1. RowAt(j)
    BY DEF TInv
  <2> QED BY <1>1, <2>1 DEF RowAt, Told
<1> QED BY <1>2, <1>3 DEF TInv, LogTypeOK

\* For a job that was never preempted the three accounts of its wait agree; after a
\* preemption they are ordered.
THEOREM WaitsAgree == TraceSpec => []WaitsAgreeUnlessPreempted
<1>1. TraceInit => TInv
  <2> SUFFICES ASSUME TraceInit PROVE TInv
    OBVIOUS
  <2>1. IInv
    BY InitInv DEF TraceInit
  <2>2. Submitted = {}
    BY DEF TraceInit, SchedInit, Submitted
  <2> QED BY <2>1, <2>2 DEF TraceInit, TInv, LogTypeOK, Never
<1>2. TInv /\ [TraceNext]_tracedVars => TInv'
  <2> SUFFICES ASSUME TInv, [TraceNext]_tracedVars PROVE TInv'
    OBVIOUS
  <2>1. IInv'
    BY TraceIsSched, NextInv DEF TInv
  <2>2. ASSUME NEW j \in Jobs, Place(j), LogsOutcome(j) PROVE TInv'
    <3>1. /\ j \in pending /\ pending = pending \cup {} /\ running = running \ {}
          /\ {} \in SUBSET running
          /\ StartOrWait(j, pending, running, used) /\ UNCHANGED <<tick, completed>>
          /\ submitTime' = [k \in Jobs |-> IF k \in {} THEN tick ELSE submitTime[k]]
      BY <2>2 DEF Place, Queue!Heads, TInv, IInv, SchedTypeOK
    <3> QED BY <2>1, <2>2, <3>1, PlacementLogged
  <2>3. ASSUME NEW j \in Jobs, NEW v \in Jobs, Preempt(j, v), LogsOutcome(j) PROVE TInv'
    <3>1. /\ j \in pending /\ {v} \in SUBSET running
          /\ StartOrWait(j, pending \cup {v}, running \ {v}, Release(used, v))
          /\ UNCHANGED <<tick, completed>>
          /\ submitTime' = [k \in Jobs |-> IF k \in {v} THEN tick ELSE submitTime[k]]
      BY <2>3 DEF Preempt, Victims, Queue!Heads, TInv, IInv, SchedTypeOK
    <3> QED BY <2>1, <2>3, <3>1, PlacementLogged
  <2>4. CASE UNCHANGED tracedVars
    BY <2>1, <2>4, QuietLogged DEF tracedVars
  <2>5. CASE TraceNext
    BY <2>1, <2>2, <2>3, <2>5, ArrivalsLogged, TickLogged, QuietLogged DEF TraceNext, Over
  <2> QED BY <2>4, <2>5
<1>3. TInv => WaitsAgreeUnlessPreempted
  <2> SUFFICES ASSUME TInv, NEW j \in running \cup completed
               PROVE  IF submitTime[j] = Arrival[j]
                        THEN log[j].started - submitTime[j] = Told(j) /\ Told(j) = Waited(log[j])
                        ELSE log[j].started - submitTime[j] <= Told(j) /\ Told(j) <= Waited(log[j])
    BY DEF WaitsAgreeUnlessPreempted, Told
  <2>1. RowAt(j) /\ j \in Jobs
    BY DEF TInv, IInv, SchedTypeOK, Submitted
  <2> QED BY <2>1, RowNumbers DEF RowAt, Waited
<1> QED BY <1>1, <1>2, <1>3, PTL DEF TraceSpec
=============================================================================
