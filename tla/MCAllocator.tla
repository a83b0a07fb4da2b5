---------------------------- MODULE MCAllocator -----------------------------
(* A small heap: requests that fill it with few blocks, and numbers of
   operations on both sides of the five that the reports divide by. *)
EXTENDS Allocator

SmallRequests == 1..3
SomeOps == {0, 3, 5, 9}

=============================================================================
