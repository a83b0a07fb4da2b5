------------------------------ MODULE JobBoard ------------------------------
(***************************************************************************)
(* What a dispatcher backend promises the program that submits a workload: *)
(* every job accepted before submissions close gets one terminal outcome,  *)
(* once, and completion is announced exactly when all of them have one.    *)
(* Broker and SQSDispatch are shown to implement it.                       *)
(***************************************************************************)
CONSTANTS Jobs, Outcomes

VARIABLES submitted,   \* the accepted jobs
          outcome,     \* the terminal outcome of a job, or "none"
          closed,      \* no more jobs are accepted
          done         \* completion has been announced

boardVars == <<submitted, outcome, closed, done>>

Settled(S, o) == \A j \in S : o[j] # "none"

BoardInit == /\ submitted = {}
             /\ outcome = [j \in Jobs |-> "none"]
             /\ closed = FALSE
             /\ done = FALSE

Accept(j) == /\ ~closed
             /\ j \notin submitted
             /\ submitted' = submitted \cup {j}
             /\ UNCHANGED <<outcome, closed, done>>

Close == /\ closed' = TRUE
         /\ done' = Settled(submitted, outcome)
         /\ UNCHANGED <<submitted, outcome>>

\* Several jobs may be found to have ended at once.
Settle(S, o) == /\ S \subseteq submitted
                /\ \A j \in S : outcome[j] = "none"
                /\ outcome' = [j \in Jobs |-> IF j \in S THEN o ELSE outcome[j]]
                /\ done' = (closed /\ Settled(submitted, outcome'))
                /\ UNCHANGED <<submitted, closed>>

BoardNext == \/ \E j \in Jobs : Accept(j)
             \/ Close
             \/ \E S \in SUBSET Jobs, o \in Outcomes : Settle(S, o)

BoardSpec == BoardInit /\ [][BoardNext]_boardVars

=============================================================================
