----------------------------- MODULE Allocator ------------------------------
(***************************************************************************)
(* The free-list heap of src/mem/allocator.c and the workload that runs    *)
(* against it, first with the first-fit and then with the best-fit         *)
(* strategy.  The linked list of blocks is a sequence in list order; the   *)
(* random numbers of the workload are free choices.                        *)
(***************************************************************************)
EXTENDS Integers, Sequences, FiniteSets

CONSTANTS
  HeapSize,   \* bytes of the simulated heap
  Sizes,      \* sizes the workload may ask for (64 to 4159 bytes in the code)
  MaxLive,    \* length of live_ids (4096 in the code)
  OpsChoices  \* numbers of operations the program may be started with

ASSUME AllocatorAssumption ==
  /\ HeapSize \in Nat \ {0}
  /\ Sizes \subseteq Nat \ {0}
  /\ MaxLive \in Nat \ {0}
  /\ OpsChoices \subseteq Nat

VARIABLES
  ops,            \* operations per workload, an argument of the program
  strategy,       \* of the workload under way
  blocks,         \* the block list
  next_alloc_id,
  live_ids,       \* the first live_count entries of the array
  failed_allocs,
  i,              \* operations done in this workload
  status          \* "running", "crashed" (division by zero) or "done"

vars == <<ops, strategy, blocks, next_alloc_id, live_ids, failed_allocs, i, status>>

NoId == -1

Block == [offset : 0..HeapSize, size : 1..HeapSize, free : BOOLEAN,
          alloc_id : Nat \cup {NoId}]

FreeBlock(offset, size) ==
  [offset |-> offset, size |-> size, free |-> TRUE, alloc_id |-> NoId]

\* heap_create: one free block that is the whole heap.
EmptyHeap == <<FreeBlock(0, HeapSize)>>

AllocInit ==
  /\ ops \in OpsChoices
  /\ strategy = "first_fit"
  /\ blocks = EmptyHeap
  /\ next_alloc_id = 0
  /\ live_ids = <<>>
  /\ failed_allocs = 0
  /\ i = 0
  /\ status = "running"

-----------------------------------------------------------------------------
Fits(k, size) == blocks[k].free /\ blocks[k].size >= size

Fitting(size) == {k \in DOMAIN blocks : Fits(k, size)}

\* Whether find_fit returns block k: the first that fits, or the smallest one
\* and among equals the first.
Chosen(k, size) ==
  /\ k \in Fitting(size)
  /\ \A m \in Fitting(size) :
       IF strategy = "first_fit" THEN k <= m
       ELSE \/ blocks[k].size < blocks[m].size
            \/ blocks[k].size = blocks[m].size /\ k <= m

\* The list after heap_alloc took `size` bytes from the front of block k.
Carved(k, size) ==
  LET b == blocks[k]
      taken == [b EXCEPT !.size = size, !.free = FALSE, !.alloc_id = next_alloc_id]
      pieces == IF b.size > size
                  THEN <<taken, FreeBlock(b.offset + size, b.size - size)>>
                  ELSE <<taken>>
  IN SubSeq(blocks, 1, k - 1) \o pieces \o SubSeq(blocks, k + 1, Len(blocks))

\* List s after block k absorbed its successor.
Absorb(s, k) ==
  SubSeq(s, 1, k - 1) \o <<[s[k] EXCEPT !.size = @ + s[k + 1].size]>>
    \o SubSeq(s, k + 2, Len(s))

\* Block k marked free, having absorbed its successor if that is free too.
FreedForward(k) ==
  LET s == [blocks EXCEPT ![k] = [@ EXCEPT !.free = TRUE, !.alloc_id = NoId]]
  IN IF k < Len(s) /\ s[k + 1].free THEN Absorb(s, k) ELSE s

\* Mutant: coalescing looks forward only.
FreedOnlyForward(k) == FreedForward(k)

\* Mutant: the predecessor absorbs the block whether it is free or not.
FreedIntoAny(k) == IF k > 1 THEN Absorb(FreedForward(k), k - 1) ELSE FreedForward(k)

\* The list after heap_free of block k: a free predecessor absorbs it as well.
Freed(k) ==
  IF k > 1 /\ blocks[k - 1].free
    THEN Absorb(FreedForward(k), k - 1)
    ELSE FreedForward(k)

Owner(id) == {k \in DOMAIN blocks : blocks[k].alloc_id = id}

\* heap_free frees the first block of the owner; of an unknown one it does nothing.
HeapFree(id) ==
  IF Owner(id) = {} THEN blocks
  ELSE Freed(CHOOSE k \in Owner(id) : \A m \in Owner(id) : k <= m)

-----------------------------------------------------------------------------
(* The reports *)

\* Mutant: the largest block is the last one seen.
CountedLast(r, b) ==
  IF ~b.free THEN r
  ELSE [total |-> r.total + b.size, count |-> r.count + 1, largest |-> b.size]

\* One turn of the loops of external_fragmentation_pct and count_free_blocks.
Counted(r, b) ==
  IF ~b.free THEN r
  ELSE [total |-> r.total + b.size, count |-> r.count + 1,
        largest |-> IF b.size > r.largest THEN b.size ELSE r.largest]

\* The figures after the first k blocks of the list.
Scan[k \in 0..Len(blocks)] ==
  IF k = 0 THEN [total |-> 0, count |-> 0, largest |-> 0]
           ELSE Counted(Scan[k - 1], blocks[k])

\* What a report prints is computed from.
Reported == Scan[Len(blocks)]

-----------------------------------------------------------------------------
\* Mutant: the report interval is rounded the wrong way.
EndOpShort ==
  /\ i' = i + 1
  /\ status' = IF (ops - 1) \div 5 = 0 THEN "crashed" ELSE "running"
  /\ UNCHANGED <<ops, strategy>>

\* The end of an operation: the test for the periodic report divides by ops / 5,
\* which is zero when one to four operations were asked for.
EndOp ==
  /\ i' = i + 1
  /\ status' = IF ops \div 5 = 0 THEN "crashed" ELSE "running"
  /\ UNCHANGED <<ops, strategy>>

\* do_alloc; its 70% are a free choice.
MayAlloc == /\ status = "running" /\ i < ops
            /\ Len(live_ids) = 0 \/ Len(live_ids) < MaxLive

\* An allocation that finds a block.
Alloc(size) ==
  /\ MayAlloc
  /\ \E k \in Fitting(size) : Chosen(k, size) /\ blocks' = Carved(k, size)
  /\ live_ids' = Append(live_ids, next_alloc_id)
  /\ next_alloc_id' = next_alloc_id + 1
  /\ UNCHANGED failed_allocs
  /\ EndOp

\* heap_alloc returns -1.
AllocFails(size) ==
  /\ MayAlloc
  /\ Fitting(size) = {}
  /\ failed_allocs' = failed_allocs + 1
  /\ UNCHANGED <<blocks, next_alloc_id, live_ids>>
  /\ EndOp

\* Mutant: the last entry is dropped instead of the freed one.
DropLast(idx) == SubSeq(live_ids, 1, Len(live_ids) - 1)

\* live_ids[idx] = live_ids[--live_count].
SwapRemove(idx) ==
  [n \in 1..Len(live_ids) - 1 |->
     IF n = idx THEN live_ids[Len(live_ids)] ELSE live_ids[n]]

\* The workload frees one of its live allocations.
Free(idx) ==
  /\ status = "running" /\ i < ops
  /\ blocks' = HeapFree(live_ids[idx])
  /\ live_ids' = SwapRemove(idx)
  /\ UNCHANGED <<next_alloc_id, failed_allocs>>
  /\ EndOp

\* main starts the second workload, on a heap of its own.
SecondWorkload ==
  /\ status = "running" /\ i = ops /\ strategy = "first_fit"
  /\ strategy' = "best_fit"
  /\ blocks' = EmptyHeap
  /\ next_alloc_id' = 0
  /\ live_ids' = <<>>
  /\ failed_allocs' = 0
  /\ i' = 0
  /\ UNCHANGED <<ops, status>>

Exit ==
  /\ status = "running" /\ i = ops /\ strategy = "best_fit"
  /\ status' = "done"
  /\ UNCHANGED <<ops, strategy, blocks, next_alloc_id, live_ids, failed_allocs, i>>

AllocNext ==
  \/ \E size \in Sizes : Alloc(size) \/ AllocFails(size)
  \/ \E idx \in DOMAIN live_ids : Free(idx)
  \/ SecondWorkload
  \/ Exit

\* One thread that only computes.
AllocSpec == AllocInit /\ [][AllocNext]_vars /\ WF_vars(AllocNext)

-----------------------------------------------------------------------------
(* Properties *)

\* Every variable has the shape of the program's; live_ids never outgrows its
\* array, and no block is empty.
AllocTypeOK ==
  /\ ops \in OpsChoices
  /\ strategy \in {"first_fit", "best_fit"}
  /\ blocks \in Seq(Block)
  /\ next_alloc_id \in Nat
  /\ live_ids \in Seq(Nat) /\ Len(live_ids) <= MaxLive
  /\ failed_allocs \in Nat
  /\ i \in 0..ops
  /\ status \in {"running", "crashed", "done"}

\* In list order the blocks lie end to end from offset 0 to the end of the heap.
Tiles ==
  /\ blocks # <<>>
  /\ blocks[1].offset = 0
  /\ \A k \in 1..Len(blocks) - 1 :
       blocks[k + 1].offset = blocks[k].offset + blocks[k].size
  /\ blocks[Len(blocks)].offset + blocks[Len(blocks)].size = HeapSize

\* "the step a naive allocator skips": no two neighbours are both free.
NoFreeNeighbours ==
  \A k \in 1..Len(blocks) - 1 : ~(blocks[k].free /\ blocks[k + 1].free)

\* Splitting and coalescing lose no byte and count none twice, and leave no free
\* space cut in two, whatever was freed before and around it.
WellFormed == Tiles /\ NoFreeNeighbours

\* Whether the byte at an offset lies in a free block.
FreeByte(o) ==
  \E k \in DOMAIN blocks :
    /\ blocks[k].free
    /\ blocks[k].offset <= o /\ o < blocks[k].offset + blocks[k].size

FreeBytes == {o \in 0..HeapSize - 1 : FreeByte(o)}

\* The fragmentation figures describe the bytes of the heap, not how the list
\* happens to be cut: all free bytes, the runs they form, the longest of them.  So
\* find_fit, which looks at one block at a time, fails only when the heap has not
\* that many free bytes in a row.
ReportExact ==
  /\ Reported.total = Cardinality(FreeBytes)
  /\ Reported.count = Cardinality({o \in FreeBytes : o - 1 \notin FreeBytes})
  /\ \A n \in 1..HeapSize :
       n <= Reported.largest <=> \E o \in FreeBytes : o..o + n - 1 \subseteq FreeBytes

\* The workload's array keeps its length, and it and the heap agree: every live id
\* owns exactly one block, no id is listed twice, and a block that is not free has a
\* live owner; so no id is ever freed twice and no block is leaked.
LiveExactly ==
  /\ Len(live_ids) <= MaxLive
  /\ \A m, n \in DOMAIN live_ids : live_ids[m] = live_ids[n] => m = n
  /\ \A n \in DOMAIN live_ids : \E k \in DOMAIN blocks : Owner(live_ids[n]) = {k}
  /\ \A k \in DOMAIN blocks :
       IF blocks[k].free THEN blocks[k].alloc_id = NoId
       ELSE \E n \in DOMAIN live_ids : live_ids[n] = blocks[k].alloc_id

\* A live allocation keeps its place and size whatever is allocated and freed
\* around it, until it is freed itself.
StaysPut ==
  [][strategy' = strategy =>
       \A k \in DOMAIN blocks :
         (/\ ~blocks[k].free
          /\ \E n \in DOMAIN live_ids' : live_ids'[n] = blocks[k].alloc_id)
         => \E m \in DOMAIN blocks' : blocks'[m] = blocks[k]]_vars

\* Started with no operations or with at least five, the program runs both
\* workloads to their end; with one to four it stops in its first report test.
CompletesUnlessTooFew ==
  /\ ops \notin 1..4 => <>(status = "done")
  /\ ops \in 1..4 => <>(status = "crashed")

=============================================================================
