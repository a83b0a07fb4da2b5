------------------------------ MODULE JobQueue ------------------------------
(***************************************************************************)
(* The priority queue of internal/queue/queue.go, as a set of jobs.        *)
(* container/heap (outside the repository) keeps the slice partially       *)
(* ordered by Less and pops an element no other element is Less than; among *)
(* such elements its choice depends on the layout of the heap, so Heads    *)
(* keeps all of them.                                                      *)
(***************************************************************************)
EXTENDS Integers

CONSTANTS Jobs, Priority, SubmitTime

ASSUME QueueAssumption == /\ Priority \in [Jobs -> Int]
                          /\ SubmitTime \in [Jobs -> Int]

\* Mutant: first come, first served.
LessFIFO(i, j) == SubmitTime[i] < SubmitTime[j]

\* priorityHeap.Less: higher priority first, FIFO within a priority tier.
Less(i, j) == IF Priority[i] # Priority[j]
                THEN Priority[i] > Priority[j]
                ELSE SubmitTime[i] < SubmitTime[j]

\* The jobs Queue.Pop may return; empty exactly when the queue is.
Heads(q) == {j \in q : \A i \in q : ~Less(i, j)}

=============================================================================
