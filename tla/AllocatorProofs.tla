-------------------------- MODULE AllocatorProofs ---------------------------
(***************************************************************************)
(* Proofs about the free-list heap and its workload, for every heap size,  *)
(* every set of request sizes and any number of operations.                *)
(***************************************************************************)
EXTENDS Allocator, FiniteSetTheorems, WellFoundedInduction, TLAPS

-----------------------------------------------------------------------------
(* Lists in which a part was replaced, element by element *)

\* t is x, of length l, followed by y, of length n.
Cat(t, x, y, l, n) ==
  /\ Len(t) = l + n
  /\ \A m \in 1..l : t[m] = x[m]
  /\ \A m \in 1..n : t[l + m] = y[m]

LEMMA CatJoined ==
  ASSUME NEW S, NEW a \in Seq(S), NEW b \in Seq(S), NEW l, NEW n, Len(a) = l, Len(b) = n
  PROVE  a \o b \in Seq(S) /\ Cat(a \o b, a, b, l, n)
<1>1. a \o b \in Seq(S)
  OBVIOUS
<1>2. Len(a \o b) = l + n
  OBVIOUS
<1>3. ASSUME NEW m \in 1..l PROVE (a \o b)[m] = a[m]
  OBVIOUS
<1>4. ASSUME NEW m \in 1..n PROVE (a \o b)[l + m] = b[m]
  OBVIOUS
<1> QED BY <1>1, <1>2, <1>3, <1>4, Zenon DEF Cat

\* t is x, y and z, of lengths l, n and r, one after the other.
Triple(t, x, y, z, l, n, r) ==
  /\ Len(t) = l + n + r
  /\ \A m \in 1..l : t[m] = x[m]
  /\ \A m \in 1..n : t[l + m] = y[m]
  /\ \A m \in 1..r : t[l + n + m] = z[m]

LEMMA CatTwice ==
  ASSUME NEW u, NEW t, NEW x, NEW y, NEW z, NEW l \in Nat, NEW n \in Nat, NEW r \in Nat,
         Cat(u, x, y, l, n), Cat(t, u, z, l + n, r)
  PROVE  Triple(t, x, y, z, l, n, r)
<1>1. ASSUME NEW m \in 1..l PROVE t[m] = x[m]
  BY DEF Cat
<1>2. ASSUME NEW m \in 1..n PROVE t[l + m] = y[m]
  <2>1. l + m \in 1..l + n
    OBVIOUS
  <2> QED BY <2>1 DEF Cat
<1> QED BY <1>1, <1>2 DEF Cat, Triple

LEMMA Front ==
  ASSUME NEW S, NEW s \in Seq(S), NEW p \in 0..Len(s)
  PROVE  /\ SubSeq(s, 1, p) \in Seq(S) /\ Len(SubSeq(s, 1, p)) = p
         /\ \A m \in 1..p : SubSeq(s, 1, p)[m] = s[m]
OBVIOUS

LEMMA Back ==
  ASSUME NEW S, NEW s \in Seq(S), NEW q \in 1..Len(s) + 1
  PROVE  /\ SubSeq(s, q, Len(s)) \in Seq(S) /\ Len(SubSeq(s, q, Len(s))) = Len(s) - q + 1
         /\ \A m \in 1..Len(s) - q + 1 : SubSeq(s, q, Len(s))[m] = s[m + q - 1]
OBVIOUS

\* The first p elements of s, then c, then those from q on.
Splice(s, p, c, q) == SubSeq(s, 1, p) \o c \o SubSeq(s, q, Len(s))

\* t, element by element, where c has n elements and r remain from q on.
SplicedFrom(t, s, p, c, q, n, r) ==
  /\ Len(t) = p + n + r
  /\ \A m \in 1..p : t[m] = s[m]
  /\ \A m \in 1..n : t[p + m] = c[m]
  /\ \A m \in 1..r : t[p + n + m] = s[m + q - 1]

LEMMA Spliced ==
  ASSUME NEW S, NEW s \in Seq(S), NEW c \in Seq(S), NEW p \in 0..Len(s),
         NEW q \in 1..Len(s) + 1, NEW n \in Nat, Len(c) = n, NEW r, r = Len(s) - q + 1
  PROVE  Splice(s, p, c, q) \in Seq(S) /\ SplicedFrom(Splice(s, p, c, q), s, p, c, q, n, r)
<1> DEFINE a == SubSeq(s, 1, p)
           b == SubSeq(s, q, Len(s))
           ac == a \o c
           t == ac \o b
<1>0. p \in Nat /\ n \in Nat /\ r \in Nat
  OBVIOUS
<1>1. a \in Seq(S) /\ Len(a) = p /\ \A m \in 1..p : a[m] = s[m]
  BY Front
<1>2. b \in Seq(S) /\ Len(b) = r /\ \A m \in 1..r : b[m] = s[m + q - 1]
  BY Back
<1> HIDE DEF a, b
<1>3. ac \in Seq(S) /\ Cat(ac, a, c, p, n)
  BY <1>1, CatJoined
<1>4. Len(ac) = p + n
  BY <1>3 DEF Cat
<1> HIDE DEF ac
<1>5. t \in Seq(S) /\ Cat(t, ac, b, p + n, r)
  BY <1>2, <1>3, <1>4, CatJoined
<1> HIDE DEF t
<1>6. Triple(t, a, c, b, p, n, r)
  BY <1>0, <1>3, <1>5, CatTwice, Zenon
<1>7. SplicedFrom(t, s, p, c, q, n, r)
  BY <1>1, <1>2, <1>6 DEF Triple, SplicedFrom
<1>8. t = Splice(s, p, c, q)
  BY DEF t, ac, a, b, Splice
<1> QED BY <1>5, <1>7, <1>8

\* A list in which one element took the place of two.
Merged(t, s, k, e) ==
  /\ Len(t) = Len(s) - 1
  /\ \A m \in 1..k - 1 : t[m] = s[m]
  /\ t[k] = e
  /\ \A m \in k + 1..Len(s) - 1 : t[m] = s[m + 1]

LEMMA MergedAt ==
  ASSUME NEW S, NEW s \in Seq(S), NEW k \in 1..Len(s) - 1, NEW e \in S, NEW t,
         t = Splice(s, k - 1, <<e>>, k + 2)
  PROVE  t \in Seq(S) /\ Merged(t, s, k, e)
<1> DEFINE p == k - 1
           q == k + 2
           c == <<e>>
           r == Len(s) - q + 1
<1>1. p \in 0..Len(s) /\ q \in 1..Len(s) + 1 /\ c \in Seq(S) /\ Len(c) = 1 /\ c[1] = e
  OBVIOUS
<1>2. t = Splice(s, p, c, q) /\ r = Len(s) - q + 1
  BY DEF Splice
<1>3. /\ p + 1 = k /\ p + 1 + r = Len(s) - 1
      /\ \A m \in k + 1..Len(s) - 1 : m - k \in 1..r /\ p + 1 + (m - k) = m /\ m - k + q - 1 = m + 1
  OBVIOUS
<1> HIDE DEF p, q, c, r
<1>4. t \in Seq(S) /\ SplicedFrom(t, s, p, c, q, 1, r)
  <2>1. 1 \in Nat
    OBVIOUS
  <2> QED BY <1>1, <1>2, <2>1, Spliced, Zenon
<1> USE DEF SplicedFrom
<1>5. t[k] = e
  <2>1. 1 \in 1..1
    OBVIOUS
  <2>2. t[p + 1] = c[1]
    BY <1>4, <2>1, Zenon
  <2> QED BY <1>1, <1>3, <2>2
<1>6. ASSUME NEW m \in k + 1..Len(s) - 1 PROVE t[m] = s[m + 1]
  <2>1. t[p + 1 + (m - k)] = s[m - k + q - 1]
    BY <1>3, <1>4
  <2> QED BY <1>3, <2>1
<1> QED BY <1>3, <1>4, <1>5, <1>6 DEF p, Merged

\* A list in which two elements took the place of one.
Split(t, s, k, e, f) ==
  /\ Len(t) = Len(s) + 1
  /\ \A m \in 1..k - 1 : t[m] = s[m]
  /\ t[k] = e /\ t[k + 1] = f
  /\ \A m \in k + 2..Len(s) + 1 : t[m] = s[m - 1]

LEMMA SplitAt ==
  ASSUME NEW S, NEW s \in Seq(S), NEW k \in 1..Len(s), NEW e \in S, NEW f \in S, NEW t,
         t = Splice(s, k - 1, <<e, f>>, k + 1)
  PROVE  t \in Seq(S) /\ Split(t, s, k, e, f)
<1> DEFINE p == k - 1
           q == k + 1
           c == <<e, f>>
           r == Len(s) - q + 1
<1>1. p \in 0..Len(s) /\ q \in 1..Len(s) + 1 /\ c \in Seq(S) /\ Len(c) = 2 /\ c[1] = e /\ c[2] = f
  OBVIOUS
<1>2. t = Splice(s, p, c, q) /\ r = Len(s) - q + 1
  BY DEF Splice
<1>3. /\ p + 1 = k /\ p + 2 = k + 1 /\ p + 2 + r = Len(s) + 1
      /\ \A m \in k + 2..Len(s) + 1 :
           m - k - 1 \in 1..r /\ p + 2 + (m - k - 1) = m /\ m - k - 1 + q - 1 = m - 1
  OBVIOUS
<1> HIDE DEF p, q, c, r
<1>4. t \in Seq(S) /\ SplicedFrom(t, s, p, c, q, 2, r)
  <2>1. 2 \in Nat
    OBVIOUS
  <2> QED BY <1>1, <1>2, <2>1, Spliced, Zenon
<1> USE DEF SplicedFrom
<1>5. t[k] = e /\ t[k + 1] = f
  <2>1. 1 \in 1..2 /\ 2 \in 1..2
    OBVIOUS
  <2>2. t[p + 1] = c[1] /\ t[p + 2] = c[2]
    BY <1>4, <2>1, Zenon
  <2> QED BY <1>1, <1>3, <2>2
<1>6. ASSUME NEW m \in k + 2..Len(s) + 1 PROVE t[m] = s[m - 1]
  <2>1. t[p + 2 + (m - k - 1)] = s[m - k - 1 + q - 1]
    BY <1>3, <1>4
  <2> QED BY <1>3, <2>1
<1> QED BY <1>3, <1>4, <1>5, <1>6 DEF p, Split

\* A list in which one element took the place of another.
Replaced(t, s, k, e) ==
  /\ Len(t) = Len(s)
  /\ \A m \in 1..Len(s) : t[m] = IF m = k THEN e ELSE s[m]

LEMMA ReplacedAt ==
  ASSUME NEW S, NEW s \in Seq(S), NEW k \in 1..Len(s), NEW e \in S, NEW t,
         t = Splice(s, k - 1, <<e>>, k + 1)
  PROVE  t \in Seq(S) /\ Replaced(t, s, k, e)
<1> DEFINE p == k - 1
           q == k + 1
           c == <<e>>
           r == Len(s) - q + 1
<1>1. p \in 0..Len(s) /\ q \in 1..Len(s) + 1 /\ c \in Seq(S) /\ Len(c) = 1 /\ c[1] = e
  OBVIOUS
<1>2. t = Splice(s, p, c, q) /\ r = Len(s) - q + 1
  BY DEF Splice
<1>3. /\ p + 1 = k /\ p + 1 + r = Len(s)
      /\ \A m \in k + 1..Len(s) : m - k \in 1..r /\ p + 1 + (m - k) = m /\ m - k + q - 1 = m
      /\ \A m \in 1..Len(s) : m \in 1..p \/ m = k \/ m \in k + 1..Len(s)
  OBVIOUS
<1> HIDE DEF p, q, c, r
<1>4. t \in Seq(S) /\ SplicedFrom(t, s, p, c, q, 1, r)
  <2>1. 1 \in Nat
    OBVIOUS
  <2> QED BY <1>1, <1>2, <2>1, Spliced, Zenon
<1> USE DEF SplicedFrom
<1>5. t[k] = e
  <2>1. 1 \in 1..1
    OBVIOUS
  <2>2. t[p + 1] = c[1]
    BY <1>4, <2>1, Zenon
  <2> QED BY <1>1, <1>3, <2>2
<1>6. ASSUME NEW m \in k + 1..Len(s) PROVE t[m] = s[m]
  <2>1. t[p + 1 + (m - k)] = s[m - k + q - 1]
    BY <1>3, <1>4
  <2> QED BY <1>3, <2>1
<1>7. ASSUME NEW m \in 1..Len(s) PROVE t[m] = IF m = k THEN e ELSE s[m]
  BY <1>3, <1>4, <1>5, <1>6
<1> QED BY <1>3, <1>4, <1>7 DEF Replaced
-----------------------------------------------------------------------------
(* Block lists *)

LEMMA Sane == /\ HeapSize \in Nat /\ HeapSize > 0 /\ MaxLive \in Nat /\ MaxLive > 0
              /\ \A size \in Sizes : size \in Nat /\ size > 0
              /\ \A n \in OpsChoices : n \in Nat
BY AllocatorAssumption

LEMMA BlockFields ==
  ASSUME NEW b \in Block
  PROVE  /\ b.offset \in Nat /\ b.size \in Nat /\ b.size >= 1 /\ b.offset <= HeapSize /\ b.size <= HeapSize
         /\ b.free \in BOOLEAN /\ b.alloc_id \in Nat \cup {NoId}
BY Sane DEF Block

\* A block that lies in the heap.
Inside(b) ==
  /\ b \in Block
  /\ b.offset + b.size <= HeapSize
  /\ b.free <=> b.alloc_id = NoId

\* The list s is a heap whose blocks lie end to end; a block in use has an owner of
\* its own.
Heap(s) ==
  /\ s \in Seq(Block) /\ Len(s) >= 1
  /\ \A k \in 1..Len(s) : Inside(s[k])
  /\ s[1].offset = 0
  /\ \A k \in 1..Len(s) - 1 : s[k + 1].offset = s[k].offset + s[k].size
  /\ s[Len(s)].offset + s[Len(s)].size = HeapSize
  /\ \A k, m \in 1..Len(s) : ~s[k].free /\ s[k].alloc_id = s[m].alloc_id => k = m

\* The blocks in use.
Used(s) == {b \in Block : ~b.free /\ \E k \in 1..Len(s) : s[k] = b}

\* Where s may have two free neighbours.
FreePairsIn(s, X) == \A k \in 1..Len(s) - 1 : s[k].free /\ s[k + 1].free => k \in X

\* Absorbing a successor, seen block by block.
LEMMA AbsorbAt ==
  ASSUME NEW s, Heap(s), NEW k \in 1..Len(s) - 1, s[k].free, s[k + 1].free
  PROVE  LET t == Absorb(s, k)
         IN /\ t \in Seq(Block) /\ Len(t) = Len(s) - 1
            /\ \A m \in 1..k - 1 : t[m] = s[m]
            /\ \A m \in k + 1..Len(s) - 1 : t[m] = s[m + 1]
            /\ Inside(t[k]) /\ t[k].free /\ t[k].alloc_id = NoId
            /\ t[k].offset = s[k].offset /\ t[k].size = s[k].size + s[k + 1].size
<1> DEFINE t == Absorb(s, k)
           e == [s[k] EXCEPT !.size = @ + s[k + 1].size]
<1>0. s \in Seq(Block) /\ k \in 1..Len(s) /\ k + 1 \in 1..Len(s) /\ Len(s) \in Nat
  BY DEF Heap
<1>1. Inside(s[k]) /\ Inside(s[k + 1]) /\ s[k + 1].offset = s[k].offset + s[k].size
  BY <1>0 DEF Heap
<1>2. /\ e.offset = s[k].offset /\ e.size = s[k].size + s[k + 1].size
      /\ e.free = s[k].free /\ e.alloc_id = s[k].alloc_id
  BY <1>1 DEF Inside, Block
<1>3. e.offset + e.size <= HeapSize
  BY <1>1, <1>2, BlockFields, Sane DEF Inside
<1>4. e.size \in 1..HeapSize
  BY <1>1, <1>2, <1>3, BlockFields, Sane DEF Inside
<1>5. e \in Block
  BY <1>1, <1>2, <1>4 DEF Inside, Block
<1>6. t = Splice(s, k - 1, <<e>>, k + 2)
  BY DEF Absorb, Splice
<1>7. s[k].alloc_id = NoId
  BY <1>1 DEF Inside
<1>8. Inside(e) /\ e.free /\ e.alloc_id = NoId
  BY <1>2, <1>3, <1>5, <1>7 DEF Inside
<1> HIDE DEF t, e
<1>9. t \in Seq(Block) /\ Merged(t, s, k, e)
  <2>1. s \in Seq(Block)
    BY <1>0
  <2>2. \A x : x = Splice(s, k - 1, <<e>>, k + 2) => x \in Seq(Block) /\ Merged(x, s, k, e)
    BY <1>5, <2>1, MergedAt, Zenon
  <2> QED BY <1>6, <2>2, Zenon
<1>10. Inside(t[k]) /\ t[k].free /\ t[k].alloc_id = NoId
      /\ t[k].offset = s[k].offset /\ t[k].size = s[k].size + s[k + 1].size
  BY <1>2, <1>8, <1>9 DEF Merged
<1> QED BY <1>9, <1>10 DEF t, Merged

\* Absorbing a free successor leaves a heap with the same blocks in use, and one pair of
\* free neighbours less.
LEMMA AbsorbHeap ==
  ASSUME NEW s, Heap(s), NEW k \in 1..Len(s) - 1, s[k].free, s[k + 1].free, NEW t, t = Absorb(s, k)
  PROVE  Heap(t) /\ Used(t) = Used(s)
<1> DEFINE n == Len(s) - 1
<1>0. Len(s) \in Nat /\ n \in Nat /\ n >= 1 /\ k \in Nat /\ k >= 1 /\ k <= n /\ Len(s) = n + 1
  BY DEF Heap
<1>1. /\ t \in Seq(Block) /\ Len(t) = n
      /\ \A m \in 1..k - 1 : t[m] = s[m]
      /\ \A m \in k + 1..n : t[m] = s[m + 1]
      /\ Inside(t[k]) /\ t[k].free /\ t[k].alloc_id = NoId
      /\ t[k].offset = s[k].offset /\ t[k].size = s[k].size + s[k + 1].size
  BY AbsorbAt
<1> HIDE DEF n
<1>2. \A m \in 1..n + 1 : Inside(s[m])
  BY <1>0 DEF Heap
<1>3. \A m \in 1..n : s[m + 1].offset = s[m].offset + s[m].size
  BY <1>0 DEF Heap, n
<1>4. \A m \in 1..n : m \in 1..k - 1 \/ m = k \/ m \in k + 1..n
  BY <1>0
<1>5. ASSUME NEW m \in 1..n PROVE Inside(t[m])
  <2>1. CASE m \in 1..k - 1
    BY <1>0, <1>1, <1>2, <2>1
  <2>2. CASE m \in k + 1..n
    <3>1. m + 1 \in 1..n + 1
      BY <1>0, <2>2
    <3> QED BY <1>1, <1>2, <2>2, <3>1
  <2> QED BY <1>1, <1>4, <2>1, <2>2
<1>6. t[1].offset = 0
  <2>1. s[1].offset = 0
    BY DEF Heap
  <2>2. CASE k = 1
    BY <1>1, <2>1, <2>2
  <2>3. CASE k # 1
    <3>1. 1 \in 1..k - 1
      BY <1>0, <2>3
    <3> QED BY <1>1, <2>1, <3>1
  <2> QED BY <2>2, <2>3
<1>7. ASSUME NEW m \in 1..n - 1 PROVE t[m + 1].offset = t[m].offset + t[m].size
  <2>0. m \in Nat /\ m \in 1..n /\ m + 1 \in 1..n
    BY <1>0
  <2>1. CASE m + 1 < k
    <3>1. m \in 1..k - 1 /\ m + 1 \in 1..k - 1
      BY <1>0, <2>0, <2>1
    <3> QED BY <1>1, <1>3, <2>0, <3>1
  <2>2. CASE m + 1 = k
    <3>1. m \in 1..k - 1
      BY <1>0, <2>0, <2>2
    <3>2. t[m] = s[m] /\ t[m + 1].offset = s[m + 1].offset
      BY <1>1, <2>2, <3>1
    <3> QED BY <1>3, <2>0, <3>2
  <2>3. CASE m = k
    <3>1. k + 1 \in k + 1..n /\ k \in 1..n /\ k + 1 \in 1..n /\ k \in 1..n + 1 /\ k + 1 \in 1..n + 1
      BY <1>0, <2>0, <2>3
    <3>2. t[k + 1] = s[k + 1 + 1]
      BY <1>1, <3>1
    <3>3. s[k + 1 + 1].offset = s[k + 1].offset + s[k + 1].size /\ s[k + 1].offset = s[k].offset + s[k].size
      BY <1>3, <3>1
    <3>4. s[k].offset \in Nat /\ s[k].size \in Nat /\ s[k + 1].size \in Nat
      BY <1>2, <3>1, BlockFields DEF Inside
    <3>5. \A a, b, c \in Nat : (a + b) + c = a + (b + c)
      OBVIOUS
    <3> QED BY <1>1, <2>3, <3>2, <3>3, <3>4, <3>5
  <2>4. CASE m > k
    <3>1. m \in k + 1..n /\ m + 1 \in k + 1..n
      BY <1>0, <2>0, <2>4
    <3>2. t[m] = s[m + 1] /\ t[m + 1] = s[m + 1 + 1]
      BY <1>1, <3>1
    <3> QED BY <1>3, <2>0, <3>2
  <2> QED BY <1>0, <2>0, <2>1, <2>2, <2>3, <2>4
<1>8. t[n].offset + t[n].size = HeapSize
  <2>1. s[n + 1].offset + s[n + 1].size = HeapSize
    BY <1>0 DEF Heap
  <2>2. CASE k = n
    <3>1. n \in 1..n /\ n \in 1..n + 1 /\ n + 1 \in 1..n + 1
      BY <1>0
    <3>2. s[n + 1].offset = s[n].offset + s[n].size
      BY <1>3, <3>1
    <3>3. s[n].offset \in Nat /\ s[n].size \in Nat /\ s[n + 1].size \in Nat
      BY <1>2, <3>1, BlockFields DEF Inside
    <3>4. \A a, b, c \in Nat : (a + b) + c = a + (b + c)
      OBVIOUS
    <3> QED BY <1>1, <2>1, <2>2, <3>2, <3>3, <3>4
  <2>3. CASE k # n
    <3>1. n \in k + 1..n
      BY <1>0, <2>3
    <3> QED BY <1>1, <2>1, <3>1
  <2> QED BY <2>2, <2>3
<1>9. ASSUME NEW m \in 1..n, ~t[m].free
      PROVE  \E x \in 1..n + 1 : t[m] = s[x] /\ x = IF m < k THEN m ELSE m + 1
  <2>1. m # k
    BY <1>1, <1>9
  <2>2. CASE m < k
    <3>1. m \in 1..k - 1 /\ m \in 1..n + 1
      BY <1>0, <2>2
    <3> QED BY <1>1, <2>2, <3>1
  <2>3. CASE m > k
    <3>1. m \in k + 1..n /\ m + 1 \in 1..n + 1 /\ ~(m < k)
      BY <1>0, <2>3
    <3> QED BY <1>1, <3>1
  <2> QED BY <1>0, <2>1, <2>2, <2>3
<1>10. ASSUME NEW x \in 1..n + 1, ~s[x].free
       PROVE  \E m \in 1..n : t[m] = s[x]
  <2>1. x # k /\ x # k + 1
    BY <1>10
  <2>2. CASE x < k
    <3>1. x \in 1..k - 1 /\ x \in 1..n
      BY <1>0, <2>2
    <3> QED BY <1>1, <3>1
  <2>3. CASE x > k + 1
    <3>1. x - 1 \in k + 1..n /\ x - 1 \in 1..n /\ x - 1 + 1 = x
      BY <1>0, <2>3
    <3> QED BY <1>1, <3>1
  <2> QED BY <1>0, <2>1, <2>2, <2>3
<1>11. ASSUME NEW m \in 1..n, NEW o \in 1..n, ~t[m].free, t[m].alloc_id = t[o].alloc_id
       PROVE  m = o
  <2>1. t[m].alloc_id # NoId
    BY <1>5, <1>11 DEF Inside
  <2>2. ~t[o].free
    BY <1>5, <1>11, <2>1 DEF Inside
  <2>3. PICK x \in 1..n + 1 : t[m] = s[x] /\ x = IF m < k THEN m ELSE m + 1
    BY <1>9, <1>11
  <2>4. PICK y \in 1..n + 1 : t[o] = s[y] /\ y = IF o < k THEN o ELSE o + 1
    BY <1>9, <2>2
  <2>5. x = y
    BY <1>0, <1>11, <2>3, <2>4 DEF Heap
  <2>6. m # k /\ o # k
    BY <1>1, <1>11, <2>2
  <2> QED BY <1>0, <2>3, <2>4, <2>5, <2>6
<1>12. Heap(t)
  BY <1>0, <1>1, <1>5, <1>6, <1>7, <1>8, <1>11 DEF Heap
<1>13. ASSUME NEW b \in Block, ~b.free
       PROVE  (\E m \in 1..n : t[m] = b) <=> (\E x \in 1..n + 1 : s[x] = b)
  BY <1>9, <1>10, <1>13
<1>14. Used(t) = Used(s)
  BY <1>0, <1>1, <1>13 DEF Used
<1> QED BY <1>12, <1>14

\* The pair that became one block is gone, and no other pair is new.
LEMMA AbsorbPairs ==
  ASSUME NEW s, Heap(s), NEW k \in 1..Len(s) - 1, s[k].free, s[k + 1].free, NEW t, t = Absorb(s, k),
         NEW X, \A x \in X : x \in Int /\ x < k, FreePairsIn(s, X \cup {k})
  PROVE  FreePairsIn(t, X)
<1> DEFINE n == Len(s) - 1
<1>0. Len(s) \in Nat /\ n \in Nat /\ n >= 1 /\ k \in Nat /\ k >= 1 /\ k <= n /\ Len(s) = n + 1
  BY DEF Heap
<1>1. /\ Len(t) = n
      /\ \A m \in 1..k - 1 : t[m] = s[m]
      /\ \A m \in k + 1..n : t[m] = s[m + 1]
  BY AbsorbAt
<1>2. \A m \in 1..n : s[m].free /\ s[m + 1].free => m \in X \/ m = k
  BY DEF FreePairsIn
<1> HIDE DEF n
<1> SUFFICES ASSUME NEW m \in 1..n - 1, t[m].free, t[m + 1].free PROVE m \in X
  BY <1>1 DEF FreePairsIn
<1>3. m \in Nat /\ m \in 1..n /\ m + 1 \in 1..n
  BY <1>0
<1>4. CASE m < k
  <2>1. m \in 1..k - 1 /\ m # k /\ (m + 1 = k \/ m + 1 \in 1..k - 1)
    BY <1>0, <1>3, <1>4
  <2>2. s[m].free /\ s[m + 1].free
    BY <1>1, <2>1
  <2> QED BY <1>2, <1>3, <2>1, <2>2
<1>5. CASE m >= k
  <2>1. /\ m + 1 \in k + 1..n /\ m + 1 # k /\ m + 1 \notin X
        /\ m = k \/ m \in k + 1..n
    BY <1>0, <1>3, <1>5
  <2>2. t[m + 1] = s[m + 1 + 1] /\ s[m + 1].free
    BY <1>1, <2>1
  <2> QED BY <1>2, <1>3, <2>1, <2>2
<1> QED BY <1>0, <1>3, <1>4, <1>5

LEMMA UpdatedAt ==
  ASSUME NEW S, NEW s \in Seq(S), NEW k \in 1..Len(s), NEW e \in S
  PROVE  [s EXCEPT ![k] = e] \in Seq(S) /\ Replaced([s EXCEPT ![k] = e], s, k, e)
BY DEF Replaced

\* Replacing a block by one of the same place and size that owns nothing or something
\* new.
LEMMA ReplaceHeap ==
  ASSUME NEW s, Heap(s), NEW k \in 1..Len(s), NEW e, Inside(e),
         e.offset = s[k].offset, e.size = s[k].size,
         \A m \in 1..Len(s) : e.alloc_id # NoId => s[m].alloc_id # e.alloc_id,
         NEW t \in Seq(Block), Replaced(t, s, k, e)
  PROVE  Heap(t)
<1>0. Len(s) \in Nat /\ Len(t) = Len(s) /\ \A m \in 1..Len(s) : t[m] = IF m = k THEN e ELSE s[m]
  BY DEF Heap, Replaced
<1>1. \A m \in 1..Len(s) : t[m].offset = s[m].offset /\ t[m].size = s[m].size
  BY <1>0
<1>2. \A m \in 1..Len(s) : Inside(t[m])
  BY <1>0 DEF Heap
<1>3. 1 \in 1..Len(s) /\ Len(s) \in 1..Len(s) /\ Len(s) >= 1
      /\ \A m \in 1..Len(s) - 1 : m \in 1..Len(s) /\ m + 1 \in 1..Len(s)
  BY <1>0 DEF Heap
<1>4. /\ t[1].offset = 0
      /\ \A m \in 1..Len(s) - 1 : t[m + 1].offset = t[m].offset + t[m].size
      /\ t[Len(s)].offset + t[Len(s)].size = HeapSize
  BY <1>1, <1>3 DEF Heap
<1>5. ASSUME NEW m \in 1..Len(s), NEW o \in 1..Len(s), ~t[m].free, t[m].alloc_id = t[o].alloc_id
      PROVE  m = o
  <2>1. t[m].alloc_id # NoId
    BY <1>2, <1>5 DEF Inside
  <2>2. CASE m = k
    BY <1>0, <1>5, <2>1, <2>2
  <2>3. CASE o = k
    BY <1>0, <1>5, <2>1, <2>3
  <2>4. CASE m # k /\ o # k
    BY <1>0, <1>5, <2>4 DEF Heap
  <2> QED BY <2>2, <2>3, <2>4
<1> QED BY <1>0, <1>2, <1>3, <1>4, <1>5 DEF Heap

\* The list in which heap_free marked block k.
Marked(s, k) == [s EXCEPT ![k] = [@ EXCEPT !.free = TRUE, !.alloc_id = NoId]]

LEMMA MarkHeap ==
  ASSUME NEW s, Heap(s), NEW k \in 1..Len(s), ~s[k].free, NEW t, t = Marked(s, k)
  PROVE  /\ Heap(t) /\ Len(t) = Len(s) /\ t[k].free
         /\ \A m \in 1..Len(s) : m # k => t[m] = s[m]
         /\ Used(t) = Used(s) \ {s[k]}
<1> DEFINE e == [s[k] EXCEPT !.free = TRUE, !.alloc_id = NoId]
<1>0. s \in Seq(Block) /\ Len(s) \in Nat /\ Inside(s[k])
  BY DEF Heap
<1>1. e \in Block
  BY <1>0 DEF Inside, Block
<1>2. e.offset = s[k].offset /\ e.size = s[k].size /\ e.free = TRUE /\ e.alloc_id = NoId
  BY <1>0 DEF Inside, Block
<1>3. t = [s EXCEPT ![k] = e]
  BY DEF Marked
<1> HIDE DEF e
<1>4. Inside(e)
  BY <1>0, <1>1, <1>2 DEF Inside
<1>5. t \in Seq(Block) /\ Replaced(t, s, k, e)
  <2>1. s \in Seq(Block)
    BY <1>0
  <2>2. [s EXCEPT ![k] = e] \in Seq(Block) /\ Replaced([s EXCEPT ![k] = e], s, k, e)
    BY <1>1, <2>1, UpdatedAt, Zenon
  <2> QED BY <1>3, <2>2, Zenon
<1>6. Heap(t)
  BY <1>2, <1>4, <1>5, ReplaceHeap
<1>7. Len(t) = Len(s) /\ \A m \in 1..Len(s) : t[m] = IF m = k THEN e ELSE s[m]
  BY <1>5 DEF Replaced
<1>10. ASSUME NEW m \in 1..Len(s), s[m] = s[k] PROVE m = k
  BY <1>10 DEF Heap
<1>11. ASSUME NEW b \in Block, ~b.free
       PROVE  (\E m \in 1..Len(s) : t[m] = b) <=> ((\E m \in 1..Len(s) : s[m] = b) /\ b # s[k])
  <2>1. ASSUME NEW m \in 1..Len(s), t[m] = b PROVE s[m] = b /\ b # s[k]
    <3>1. m # k
      BY <1>2, <1>7, <1>11, <2>1
    <3> QED BY <1>7, <1>10, <2>1, <3>1
  <2>2. ASSUME NEW m \in 1..Len(s), s[m] = b, b # s[k] PROVE t[m] = b
    BY <1>7, <2>2
  <2> QED BY <2>1, <2>2
<1>12. Used(t) = Used(s) \ {s[k]}
  BY <1>7, <1>11 DEF Used
<1> QED BY <1>2, <1>6, <1>7, <1>12

\* The list after heap_free of block k: a heap without that block, and without two free
\* neighbours if there were none.
LEMMA FreedHeap ==
  ASSUME Heap(blocks), FreePairsIn(blocks, {}), NEW k \in 1..Len(blocks), ~blocks[k].free
  PROVE  /\ Heap(Freed(k)) /\ FreePairsIn(Freed(k), {})
         /\ Used(Freed(k)) = Used(blocks) \ {blocks[k]}
<1> DEFINE s == Marked(blocks, k)
           f == FreedForward(k)
           n == Len(blocks)
<1>0. n \in Nat /\ n = Len(blocks) /\ k \in 1..n
  BY DEF Heap
<1>1. /\ Heap(s) /\ Len(s) = n /\ s[k].free
      /\ \A m \in 1..n : m # k => s[m] = blocks[m]
      /\ Used(s) = Used(blocks) \ {blocks[k]}
  BY MarkHeap
<1>2. f = IF k < Len(s) /\ s[k + 1].free THEN Absorb(s, k) ELSE s
  BY DEF FreedForward, Marked
<1>3. Freed(k) = IF k > 1 /\ blocks[k - 1].free THEN Absorb(f, k - 1) ELSE f
  BY DEF Freed
<1> HIDE DEF s, f, n
<1>4. \A m \in 1..n - 1 : ~(blocks[m].free /\ blocks[m + 1].free)
  BY <1>0 DEF FreePairsIn
<1>5. FreePairsIn(s, {k - 1} \cup {k})
  <2> SUFFICES ASSUME NEW m \in 1..n - 1, s[m].free, s[m + 1].free PROVE m = k - 1 \/ m = k
    BY <1>1 DEF FreePairsIn
  <2>1. m \in 1..n /\ m + 1 \in 1..n /\ (m + 1 = k => m = k - 1)
    BY <1>0
  <2> QED BY <1>1, <1>4, <2>1
<1>6. /\ Heap(f) /\ Used(f) = Used(s) /\ FreePairsIn(f, {k - 1})
      /\ k \in 1..Len(f) /\ f[k].free
      /\ k > 1 => f[k - 1].free = s[k - 1].free
  <2>1. CASE k < Len(s) /\ s[k + 1].free
    <3>1. k \in 1..Len(s) - 1 /\ s[k].free /\ f = Absorb(s, k)
      BY <1>0, <1>1, <1>2, <2>1
    <3>2. Heap(f) /\ Used(f) = Used(s)
      BY <1>1, <2>1, <3>1, AbsorbHeap
    <3>3. FreePairsIn(f, {k - 1})
      <4>1. \A x \in {k - 1} : x \in Int /\ x < k
        BY <1>0
      <4>2. Heap(s) /\ s[k].free /\ s[k + 1].free
        BY <1>1, <2>1
      <4>3. \A X : (\A x \in X : x \in Int /\ x < k) /\ FreePairsIn(s, X \cup {k})
                  => FreePairsIn(f, X)
        BY <3>1, <4>2, AbsorbPairs, Zenon
      <4> QED BY <1>5, <4>1, <4>3, Zenon
    <3>4. Len(f) = Len(s) - 1 /\ f[k].free /\ \A m \in 1..k - 1 : f[m] = s[m]
      <4>1. Heap(s) /\ s[k].free /\ s[k + 1].free
        BY <1>1, <2>1
      <4> QED BY <3>1, <4>1, AbsorbAt, Zenon
    <3> QED BY <1>0, <1>1, <3>1, <3>2, <3>3, <3>4
  <2>2. CASE ~(k < Len(s) /\ s[k + 1].free)
    <3>1. f = s
      BY <1>2, <2>2
    <3>2. FreePairsIn(s, {k - 1})
      BY <1>0, <1>1, <1>5, <2>2 DEF FreePairsIn
    <3>3. k \in 1..Len(s) /\ s[k].free
      BY <1>0, <1>1
    <3> QED BY <1>1, <3>1, <3>2, <3>3
  <2> QED BY <2>1, <2>2
<1>7. k > 1 => s[k - 1].free = blocks[k - 1].free
  BY <1>0, <1>1
<1>8. k > 1 => f[k - 1].free = blocks[k - 1].free
  BY <1>6, <1>7
<1>9. CASE k > 1 /\ blocks[k - 1].free
  <2>1. k - 1 \in 1..Len(f) - 1 /\ f[k - 1].free /\ (k - 1) + 1 = k /\ Freed(k) = Absorb(f, k - 1)
    <3>1. Freed(k) = Absorb(f, k - 1)
      BY <1>3, <1>9
    <3>2. f[k - 1].free
      BY <1>8, <1>9
    <3>3. Len(f) \in Nat
      BY <1>6 DEF Heap
    <3>4. k - 1 \in 1..Len(f) - 1 /\ (k - 1) + 1 = k
      BY <1>0, <1>6, <1>9, <3>3
    <3> QED BY <3>1, <3>2, <3>4
  <2>2. Heap(Freed(k)) /\ Used(Freed(k)) = Used(f)
    BY <1>6, <2>1, AbsorbHeap
  <2>3. FreePairsIn(f, {} \cup {k - 1})
    BY <1>6 DEF FreePairsIn
  <2>4. FreePairsIn(Freed(k), {})
    BY <1>6, <2>1, <2>3, AbsorbPairs
  <2> QED BY <1>1, <1>6, <2>2, <2>4
<1>10. CASE ~(k > 1 /\ blocks[k - 1].free)
  <2>1. Freed(k) = f
    BY <1>3, <1>10
  <2>2. FreePairsIn(f, {})
    BY <1>0, <1>6, <1>8, <1>10 DEF FreePairsIn
  <2> QED BY <1>1, <1>6, <2>1, <2>2
<1> QED BY <1>9, <1>10

\* A free block that is taken as a whole.
LEMMA TakeHeap ==
  ASSUME NEW s, Heap(s), FreePairsIn(s, {}), NEW k \in 1..Len(s), s[k].free,
         NEW e, Inside(e), ~e.free, e.offset = s[k].offset, e.size = s[k].size,
         \A m \in 1..Len(s) : s[m].alloc_id # e.alloc_id,
         NEW t \in Seq(Block), Replaced(t, s, k, e)
  PROVE  Heap(t) /\ FreePairsIn(t, {}) /\ Used(t) = Used(s) \cup {e}
<1>0. Len(s) \in Nat /\ Len(t) = Len(s) /\ \A m \in 1..Len(s) : t[m] = IF m = k THEN e ELSE s[m]
  BY DEF Heap, Replaced
<1>1. Heap(t)
  BY ReplaceHeap
<1>2. \A m \in 1..Len(s) - 1 : m \in 1..Len(s) /\ m + 1 \in 1..Len(s)
  BY <1>0
<1>3. FreePairsIn(t, {})
  BY <1>0, <1>2 DEF FreePairsIn
<1>4. ASSUME NEW b \in Block, ~b.free
      PROVE  (\E m \in 1..Len(s) : t[m] = b) <=> ((\E m \in 1..Len(s) : s[m] = b) \/ b = e)
  BY <1>0, <1>4
<1>5. e \in Block
  BY DEF Inside
<1>6. Used(t) = Used(s) \cup {e}
  BY <1>0, <1>4, <1>5 DEF Used
<1> QED BY <1>1, <1>3, <1>6

\* A free block of which the front is taken and the rest stays free.
LEMMA SplitHeap ==
  ASSUME NEW s, Heap(s), FreePairsIn(s, {}), NEW k \in 1..Len(s), s[k].free,
         NEW e, Inside(e), ~e.free, NEW f, Inside(f), f.free,
         e.offset = s[k].offset, f.offset = e.offset + e.size,
         f.offset + f.size = s[k].offset + s[k].size,
         \A m \in 1..Len(s) : s[m].alloc_id # e.alloc_id,
         NEW t \in Seq(Block), Split(t, s, k, e, f)
  PROVE  Heap(t) /\ FreePairsIn(t, {}) /\ Used(t) = Used(s) \cup {e}
<1> DEFINE n == Len(s)
<1>0. n \in Nat /\ n >= 1 /\ k \in Nat /\ k >= 1 /\ k <= n /\ Len(s) = n
  BY DEF Heap
<1>1. /\ Len(t) = n + 1
      /\ \A m \in 1..k - 1 : t[m] = s[m]
      /\ t[k] = e /\ t[k + 1] = f
      /\ \A m \in k + 2..n + 1 : t[m] = s[m - 1]
  BY DEF Split
<1>2. /\ \A m \in 1..n : Inside(s[m])
      /\ \A m \in 1..n - 1 : s[m + 1].offset = s[m].offset + s[m].size
      /\ s[1].offset = 0
      /\ s[n].offset + s[n].size = HeapSize
      /\ \A m, o \in 1..n : ~s[m].free /\ s[m].alloc_id = s[o].alloc_id => m = o
      /\ \A m \in 1..n - 1 : ~(s[m].free /\ s[m + 1].free)
  BY DEF Heap, FreePairsIn
<1> HIDE DEF n
<1>3. \A m \in 1..n + 1 : m \in 1..k - 1 \/ m = k \/ m = k + 1 \/ m \in k + 2..n + 1
  BY <1>0
<1>4. \A m \in 1..k - 1 : m \in 1..n
  BY <1>0
<1>5. \A m \in k + 2..n + 1 : m - 1 \in 1..n /\ m - 1 > k
  BY <1>0
<1>6. ASSUME NEW m \in 1..n + 1 PROVE Inside(t[m])
  BY <1>1, <1>2, <1>3, <1>4, <1>5
<1>7. t[1].offset = 0
  <2>1. CASE k = 1
    BY <1>1, <1>2, <2>1
  <2>2. CASE k # 1
    <3>1. 1 \in 1..k - 1
      BY <1>0, <2>2
    <3>2. t[1] = s[1]
      BY <1>1, <3>1
    <3> QED BY <1>2, <3>2
  <2> QED BY <2>1, <2>2
<1>8. ASSUME NEW m \in 1..n
      PROVE  /\ t[m + 1].offset = t[m].offset + t[m].size
             /\ ~(t[m].free /\ t[m + 1].free)
  <2>0. m \in Nat
    BY <1>0
  <2>1. CASE m + 1 < k
    <3>1. m \in 1..k - 1 /\ m + 1 \in 1..k - 1 /\ m \in 1..n - 1
      BY <1>0, <2>0, <2>1
    <3>2. t[m] = s[m] /\ t[m + 1] = s[m + 1]
      BY <1>1, <3>1
    <3> QED BY <1>2, <3>1, <3>2
  <2>2. CASE m + 1 = k
    <3>1. m \in 1..k - 1 /\ m \in 1..n - 1
      BY <1>0, <2>0, <2>2
    <3> QED BY <1>1, <1>2, <2>2, <3>1
  <2>3. CASE m = k
    BY <1>1, <2>3
  <2>4. CASE m = k + 1
    <3>1. k + 2 \in k + 2..n + 1 /\ m + 1 = k + 2 /\ k + 2 - 1 = k + 1 /\ k \in 1..n - 1
      BY <1>0, <2>0, <2>4
    <3>2. t[m + 1] = s[k + 1]
      BY <1>1, <3>1
    <3>3. s[k + 1].offset = s[k].offset + s[k].size /\ ~s[k + 1].free
      BY <1>2, <3>1
    <3> QED BY <1>1, <2>4, <3>2, <3>3
  <2>5. CASE m > k + 1
    <3>1. /\ m \in k + 2..n + 1 /\ m + 1 \in k + 2..n + 1 /\ m + 1 - 1 = m
          /\ m - 1 \in 1..n - 1 /\ m - 1 + 1 = m
      BY <1>0, <2>0, <2>5
    <3>2. t[m] = s[m - 1] /\ t[m + 1] = s[m]
      BY <1>1, <3>1
    <3>3. s[m].offset = s[m - 1].offset + s[m - 1].size /\ ~(s[m - 1].free /\ s[m].free)
      BY <1>2, <3>1
    <3> QED BY <3>2, <3>3
  <2> QED BY <1>0, <2>0, <2>1, <2>2, <2>3, <2>4, <2>5
<1>9. t[n + 1].offset + t[n + 1].size = HeapSize
  <2>1. CASE k = n
    BY <1>1, <1>2, <2>1
  <2>2. CASE k # n
    <3>1. n + 1 \in k + 2..n + 1 /\ n + 1 - 1 = n
      BY <1>0, <2>2
    <3>2. ASSUME NEW m \in k + 2..n + 1, m = n + 1 PROVE t[m] = s[n]
      <4>1. t[m] = s[m - 1] /\ m - 1 = n
        BY <1>0, <1>1, <3>2
      <4> QED BY <4>1
    <3>3. t[n + 1] = s[n]
      BY <3>1, <3>2, Zenon
    <3> QED BY <1>2, <3>3
  <2> QED BY <2>1, <2>2
<1>10. ASSUME NEW m \in 1..n + 1, m # k, ~t[m].free
       PROVE  \E x \in 1..n : t[m] = s[x] /\ x = IF m < k THEN m ELSE m - 1
  <2>1. m # k + 1
    BY <1>1, <1>10
  <2>2. CASE m < k
    <3>1. m \in 1..k - 1 /\ m \in 1..n
      BY <1>0, <2>2
    <3> QED BY <1>1, <2>2, <3>1
  <2>3. CASE m > k + 1
    <3>1. m \in k + 2..n + 1 /\ m - 1 \in 1..n /\ ~(m < k)
      BY <1>0, <2>3
    <3> QED BY <1>1, <3>1
  <2> QED BY <1>0, <1>10, <2>1, <2>2, <2>3
<1>11. ASSUME NEW x \in 1..n, ~s[x].free PROVE \E m \in 1..n + 1 : t[m] = s[x]
  <2>1. x # k
    BY <1>11
  <2>2. CASE x < k
    <3>1. x \in 1..k - 1 /\ x \in 1..n + 1
      BY <1>0, <2>2
    <3> QED BY <1>1, <3>1
  <2>3. CASE x > k
    <3>1. x + 1 \in k + 2..n + 1 /\ x + 1 \in 1..n + 1 /\ x + 1 - 1 = x
      BY <1>0, <2>3
    <3> QED BY <1>1, <3>1
  <2> QED BY <1>0, <2>1, <2>2, <2>3
<1>12. ASSUME NEW m \in 1..n + 1, NEW o \in 1..n + 1, ~t[m].free, t[m].alloc_id = t[o].alloc_id
       PROVE  m = o
  <2>1. t[m].alloc_id # NoId
    BY <1>6, <1>12 DEF Inside
  <2>2. ~t[o].free
    BY <1>6, <1>12, <2>1 DEF Inside
  <2>3. \A x \in 1..n : s[x].alloc_id # e.alloc_id
    BY <1>0
  <2>4. CASE m = k \/ o = k
    BY <1>1, <1>10, <1>12, <2>2, <2>3, <2>4
  <2>5. CASE m # k /\ o # k
    <3>1. PICK x \in 1..n : t[m] = s[x] /\ x = IF m < k THEN m ELSE m - 1
      BY <1>10, <1>12, <2>5
    <3>2. PICK y \in 1..n : t[o] = s[y] /\ y = IF o < k THEN o ELSE o - 1
      BY <1>10, <2>2, <2>5
    <3>3. x = y
      BY <1>2, <1>12, <3>1, <3>2
    <3> QED BY <1>0, <2>5, <3>1, <3>2, <3>3
  <2> QED BY <2>4, <2>5
<1>13. Heap(t)
  BY <1>0, <1>1, <1>6, <1>7, <1>8, <1>9, <1>12 DEF Heap
<1>14. FreePairsIn(t, {})
  BY <1>0, <1>1, <1>8 DEF FreePairsIn
<1>15. k \in 1..n + 1 /\ e \in Block
  BY <1>0 DEF Inside
<1>16. ASSUME NEW b \in Block, ~b.free
       PROVE  (\E m \in 1..n + 1 : t[m] = b) <=> ((\E x \in 1..n : s[x] = b) \/ b = e)
  BY <1>1, <1>10, <1>11, <1>15, <1>16
<1>17. Used(t) = Used(s) \cup {e}
  <2>1. \A b \in Block : b \in Used(t) <=> ~b.free /\ \E m \in 1..n + 1 : t[m] = b
    BY <1>1 DEF Used
  <2>2. \A b \in Block : b \in Used(s) <=> ~b.free /\ \E x \in 1..n : s[x] = b
    BY <1>0 DEF Used
  <2>3. ~e.free
    OBVIOUS
  <2>4. \A b \in Block : b \in Used(t) <=> b \in Used(s) \cup {e}
    BY <1>16, <2>1, <2>2, <2>3
  <2>5. Used(t) \subseteq Block /\ Used(s) \cup {e} \subseteq Block
    BY <1>15 DEF Used
  <2> QED BY <2>4, <2>5, Zenon
<1> QED BY <1>13, <1>14, <1>17

-----------------------------------------------------------------------------
(* The inductive invariant *)

\* The array l of live allocations and the blocks U in use agree, and next is no
\* block's owner yet.
Agree(l, U, next) ==
  /\ \A m, n \in 1..Len(l) : l[m] = l[n] => m = n
  /\ \A n \in 1..Len(l) : \E b \in U : b.alloc_id = l[n]
  /\ \A b \in U : \E n \in 1..Len(l) : l[n] = b.alloc_id
  /\ \A b \in U : b.alloc_id < next

IInv ==
  /\ AllocTypeOK
  /\ Heap(blocks) /\ FreePairsIn(blocks, {})
  /\ Agree(live_ids, Used(blocks), next_alloc_id)

LEMMA UsedBlocks ==
  ASSUME NEW s, Heap(s)
  PROVE  /\ \A k \in 1..Len(s) : ~s[k].free => s[k] \in Used(s)
         /\ \A b \in Used(s) : b \in Block /\ ~b.free /\ b.alloc_id \in Nat
<1>1. \A k \in 1..Len(s) : s[k] \in Block
  BY DEF Heap, Inside
<1>2. ASSUME NEW b \in Used(s) PROVE b.alloc_id \in Nat
  <2>1. PICK k \in 1..Len(s) : s[k] = b /\ b \in Block /\ ~b.free
    BY DEF Used
  <2>2. Inside(b)
    BY <2>1 DEF Heap
  <2> QED BY <2>1, <2>2, BlockFields DEF Inside
<1> QED BY <1>1, <1>2 DEF Used

\* The list after heap_alloc: a heap with one more block in use, of the size asked for,
\* and no free neighbours.
LEMMA CarvedHeap ==
  ASSUME Heap(blocks), FreePairsIn(blocks, {}), next_alloc_id \in Nat,
         \A b \in Used(blocks) : b.alloc_id < next_alloc_id,
         NEW size \in Nat, size > 0, NEW k \in 1..Len(blocks), blocks[k].free, blocks[k].size >= size
  PROVE  /\ Heap(Carved(k, size)) /\ FreePairsIn(Carved(k, size), {})
         /\ \E e \in Block : /\ e.alloc_id = next_alloc_id /\ ~e.free
                             /\ Used(Carved(k, size)) = Used(blocks) \cup {e}
<1> DEFINE b == blocks[k]
           e == [b EXCEPT !.size = size, !.free = FALSE, !.alloc_id = next_alloc_id]
           f == FreeBlock(b.offset + size, b.size - size)
           t == Carved(k, size)
<1>0. Inside(b) /\ b \in Block /\ blocks \in Seq(Block) /\ b.free /\ b.size >= size
  BY DEF Heap, Inside
<1>1. /\ b.offset \in Nat /\ b.size \in Nat /\ b.size <= HeapSize /\ b.offset <= HeapSize
      /\ b.offset + b.size <= HeapSize /\ HeapSize \in Nat
  BY <1>0, BlockFields, Sane DEF Inside
<1>2. t = IF b.size > size THEN Splice(blocks, k - 1, <<e, f>>, k + 1)
                           ELSE Splice(blocks, k - 1, <<e>>, k + 1)
  BY DEF Carved, Splice
<1>3. e.offset = b.offset /\ e.size = size /\ e.free = FALSE /\ e.alloc_id = next_alloc_id
  BY <1>0 DEF Block
<1>4. f.offset = b.offset + size /\ f.size = b.size - size /\ f.free = TRUE /\ f.alloc_id = NoId
  BY DEF FreeBlock
<1>5. size \in 1..HeapSize
  BY <1>0, <1>1
<1>6. e \in Block
  BY <1>0, <1>5 DEF Block
<1>7. next_alloc_id # NoId
  BY DEF NoId
<1>8. e.offset + e.size <= HeapSize
  BY <1>0, <1>1, <1>3
<1>9. Inside(e)
  BY <1>3, <1>6, <1>7, <1>8 DEF Inside
<1>10. ASSUME NEW m \in 1..Len(blocks) PROVE blocks[m].alloc_id # e.alloc_id
  <2>1. Inside(blocks[m])
    BY DEF Heap
  <2>2. CASE blocks[m].free
    BY <1>3, <1>7, <2>1, <2>2 DEF Inside
  <2>3. CASE ~blocks[m].free
    <3>1. blocks[m] \in Used(blocks) /\ blocks[m].alloc_id \in Nat
      BY <2>3, UsedBlocks
    <3> QED BY <1>3, <3>1
  <2> QED BY <2>2, <2>3
<1>11. CASE b.size > size
  <2>1. b.offset + size \in 0..HeapSize /\ b.size - size \in 1..HeapSize
        /\ (b.offset + size) + (b.size - size) = b.offset + b.size
    BY <1>1, <1>5, <1>11
  <2>2. f \in Block
    BY <2>1 DEF Block, FreeBlock
  <2>3. Inside(f)
    BY <1>1, <1>4, <2>1, <2>2 DEF Inside
  <2>4. /\ f.offset = e.offset + e.size /\ f.offset + f.size = blocks[k].offset + blocks[k].size
        /\ e.offset = blocks[k].offset /\ ~e.free /\ f.free
    BY <1>3, <1>4, <2>1
  <2>5. t = Splice(blocks, k - 1, <<e, f>>, k + 1)
    BY <1>2, <1>11
  <2> HIDE DEF e, f, t
  <2>6. \A x : x = Splice(blocks, k - 1, <<e, f>>, k + 1) => x \in Seq(Block) /\ Split(x, blocks, k, e, f)
    BY <1>0, <1>6, <2>2, SplitAt, Zenon
  <2>7. t \in Seq(Block) /\ Split(t, blocks, k, e, f)
    BY <2>5, <2>6, Zenon
  <2>8. Heap(t) /\ FreePairsIn(t, {}) /\ Used(t) = Used(blocks) \cup {e}
    BY <1>9, <1>10, <2>3, <2>4, <2>7, SplitHeap
  <2>9. /\ Heap(t) /\ FreePairsIn(t, {})
        /\ \E x \in Block : /\ x.alloc_id = next_alloc_id /\ ~x.free
                            /\ Used(t) = Used(blocks) \cup {x}
    BY <1>3, <1>6, <2>4, <2>8, Zenon
  <2> QED BY <2>9 DEF t
<1>12. CASE ~(b.size > size)
  <2>1. /\ e.offset = blocks[k].offset /\ e.size = blocks[k].size /\ ~e.free
    BY <1>0, <1>1, <1>3, <1>12
  <2>2. t = Splice(blocks, k - 1, <<e>>, k + 1)
    BY <1>2, <1>12
  <2> HIDE DEF e, f, t
  <2>3. \A x : x = Splice(blocks, k - 1, <<e>>, k + 1) => x \in Seq(Block) /\ Replaced(x, blocks, k, e)
    BY <1>0, <1>6, ReplacedAt, Zenon
  <2>4. t \in Seq(Block) /\ Replaced(t, blocks, k, e)
    BY <2>2, <2>3, Zenon
  <2>5. Heap(t) /\ FreePairsIn(t, {}) /\ Used(t) = Used(blocks) \cup {e}
    BY <1>9, <1>10, <2>1, <2>4, TakeHeap
  <2>6. /\ Heap(t) /\ FreePairsIn(t, {})
        /\ \E x \in Block : /\ x.alloc_id = next_alloc_id /\ ~x.free
                            /\ Used(t) = Used(blocks) \cup {x}
    BY <1>3, <1>6, <2>1, <2>5, Zenon
  <2> QED BY <2>6 DEF t
<1> QED BY <1>11, <1>12

\* heap_create's list.
LEMMA EmptyHeapOK == Heap(EmptyHeap) /\ FreePairsIn(EmptyHeap, {}) /\ Used(EmptyHeap) = {}
<1> DEFINE e == FreeBlock(0, HeapSize)
           s == <<e>>
<1>1. e.offset = 0 /\ e.size = HeapSize /\ e.free = TRUE /\ e.alloc_id = NoId
  BY DEF FreeBlock
<1>2. e \in Block
  BY Sane DEF FreeBlock, Block
<1>3. Inside(e)
  BY <1>1, <1>2, Sane DEF Inside
<1>4. EmptyHeap = s
  BY DEF EmptyHeap
<1> HIDE DEF e
<1>5. s \in Seq(Block) /\ Len(s) = 1 /\ s[1] = e /\ \A m \in 1..1 : s[m] = e
  BY <1>2
<1>6. 0 + HeapSize = HeapSize /\ 1..1 = {1} /\ 1..1 - 1 = {} /\ 1 >= 1
  BY Sane
<1> HIDE DEF s
<1>7. Heap(s)
  BY <1>1, <1>3, <1>5, <1>6 DEF Heap
<1>8. FreePairsIn(s, {})
  BY <1>5, <1>6 DEF FreePairsIn
<1>9. Used(s) = {}
  BY <1>1, <1>5 DEF Used
<1> QED BY <1>4, <1>7, <1>8, <1>9

-----------------------------------------------------------------------------
(* The steps of the workload *)

LEMMA InitInv == AllocInit => IInv
<1> SUFFICES ASSUME AllocInit PROVE IInv
  OBVIOUS
<1> DEFINE e == FreeBlock(0, HeapSize)
<1>1. blocks = <<e>> /\ live_ids = <<>> /\ next_alloc_id = 0 /\ i = 0 /\ failed_allocs = 0
      /\ strategy = "first_fit" /\ status = "running" /\ ops \in OpsChoices
  BY DEF AllocInit, EmptyHeap
<1>2. Heap(<<e>>) /\ FreePairsIn(<<e>>, {}) /\ Used(<<e>>) = {}
  BY EmptyHeapOK DEF EmptyHeap
<1>3. blocks \in Seq(Block)
  BY <1>1, <1>2 DEF Heap
<1>4. AllocTypeOK
  BY <1>1, <1>3, Sane DEF AllocTypeOK
<1>5. Agree(<<>>, {}, 0)
  BY DEF Agree
<1> QED BY <1>1, <1>2, <1>4, <1>5 DEF IInv

\* A block is taken for a new owner, which the workload appends to its array.
LEMMA AgreeAppend ==
  ASSUME NEW l \in Seq(Nat), NEW U, NEW x \in Nat, Agree(l, U, x), \A b \in U : b.alloc_id \in Nat,
         NEW e, e.alloc_id = x
  PROVE  Agree(Append(l, x), U \cup {e}, x + 1)
<1> DEFINE t == Append(l, x)
           n == Len(l)
<1>1. n \in Nat /\ Len(t) = n + 1 /\ t[n + 1] = x /\ \A m \in 1..n : t[m] = l[m]
  OBVIOUS
<1> HIDE DEF t, n
<1>2. \A m \in 1..n + 1 : m \in 1..n \/ m = n + 1
  BY <1>1
<1>3. n + 1 \in 1..n + 1 /\ \A m \in 1..n : m \in 1..n + 1
  BY <1>1
<1>4. /\ \A m, o \in 1..n : l[m] = l[o] => m = o
      /\ \A m \in 1..n : \E b \in U : b.alloc_id = l[m]
      /\ \A b \in U : \E m \in 1..n : l[m] = b.alloc_id
      /\ \A b \in U : b.alloc_id < x
  BY DEF Agree, n
<1>5. \A m \in 1..n : l[m] # x
  BY <1>4
<1>6. \A m, o \in 1..n + 1 : t[m] = t[o] => m = o
  BY <1>1, <1>2, <1>4, <1>5
<1>7. ASSUME NEW m \in 1..n + 1 PROVE \E b \in U \cup {e} : b.alloc_id = t[m]
  BY <1>1, <1>2, <1>4
<1>8. ASSUME NEW b \in U \cup {e} PROVE \E m \in 1..n + 1 : t[m] = b.alloc_id
  <2>1. CASE b = e
    BY <1>1, <1>3, <2>1
  <2>2. CASE b \in U
    BY <1>1, <1>3, <1>4, <2>2
  <2> QED BY <2>1, <2>2
<1>9. ASSUME NEW b \in U \cup {e} PROVE b.alloc_id < x + 1
  <2>1. CASE b = e
    BY <2>1
  <2>2. CASE b \in U
    BY <1>4, <2>2
  <2> QED BY <2>1, <2>2
<1>10. Agree(t, U \cup {e}, x + 1)
  BY <1>1, <1>6, <1>7, <1>8, <1>9, Zenon DEF Agree
<1> QED BY <1>10 DEF t

\* What the workload's array becomes when entry idx is freed.
Removed(l, idx) == [m \in 1..Len(l) - 1 |-> IF m = idx THEN l[Len(l)] ELSE l[m]]

\* live_ids[idx] = live_ids[--live_count] removes exactly the entry idx.
LEMMA AgreeRemove ==
  ASSUME NEW l \in Seq(Nat), NEW U, NEW x, Agree(l, U, x), NEW idx \in 1..Len(l),
         NEW b \in U, b.alloc_id = l[idx], \A c \in U : c.alloc_id = b.alloc_id => c = b,
         NEW t, t = Removed(l, idx)
  PROVE  t \in Seq(Nat) /\ Len(t) = Len(l) - 1 /\ Agree(t, U \ {b}, x)
<1> DEFINE n == Len(l)
<1>1. n \in Nat /\ n >= 1 /\ n - 1 \in Nat /\ n \in 1..n /\ n = Len(l) /\ idx \in 1..n
  OBVIOUS
<1>2. \A m \in 1..n : l[m] \in Nat
  OBVIOUS
<1> HIDE DEF n
<1>3. t = [m \in 1..n - 1 |-> IF m = idx THEN l[n] ELSE l[m]]
  BY <1>1 DEF Removed
<1>4. t \in Seq(Nat) /\ Len(t) = n - 1
  <2>1. t \in [1..n - 1 -> Nat]
    BY <1>1, <1>2, <1>3
  <2> QED BY <1>1, <2>1
<1>5. \A m \in 1..n - 1 : t[m] = IF m = idx THEN l[n] ELSE l[m]
  BY <1>3
<1>6. \A m \in 1..n - 1 : m \in 1..n /\ m # n
  BY <1>1
<1>7. /\ \A m, o \in 1..n : l[m] = l[o] => m = o
      /\ \A m \in 1..n : \E c \in U : c.alloc_id = l[m]
      /\ \A c \in U : \E m \in 1..n : l[m] = c.alloc_id
      /\ \A c \in U : c.alloc_id < x
  BY <1>1 DEF Agree
<1>8. ASSUME NEW m \in 1..n - 1
      PROVE  \E y \in 1..n : t[m] = l[y] /\ y # idx /\ y = IF m = idx THEN n ELSE m
  BY <1>1, <1>5, <1>6
<1>9. ASSUME NEW y \in 1..n, y # idx PROVE \E m \in 1..n - 1 : t[m] = l[y]
  <2>1. CASE y = n
    <3>1. idx \in 1..n - 1
      BY <1>1, <1>9, <2>1
    <3> QED BY <1>5, <2>1, <3>1
  <2>2. CASE y # n
    <3>1. y \in 1..n - 1
      BY <1>1, <2>2
    <3> QED BY <1>5, <1>9, <3>1
  <2> QED BY <2>1, <2>2
<1>10. ASSUME NEW m \in 1..n - 1, NEW o \in 1..n - 1, t[m] = t[o] PROVE m = o
  <2>1. PICK y \in 1..n : t[m] = l[y] /\ y = IF m = idx THEN n ELSE m
    BY <1>8
  <2>2. PICK z \in 1..n : t[o] = l[z] /\ z = IF o = idx THEN n ELSE o
    BY <1>8
  <2>3. y = z
    BY <1>7, <1>10, <2>1, <2>2
  <2> QED BY <1>6, <2>1, <2>2, <2>3
<1>11. ASSUME NEW m \in 1..n - 1 PROVE \E c \in U \ {b} : c.alloc_id = t[m]
  <2>1. PICK y \in 1..n : t[m] = l[y] /\ y # idx
    BY <1>8
  <2>2. PICK c \in U : c.alloc_id = l[y]
    BY <1>7
  <2>3. c # b
    BY <1>1, <1>7, <2>1, <2>2
  <2> QED BY <2>1, <2>2, <2>3
<1>12. ASSUME NEW c \in U \ {b} PROVE \E m \in 1..n - 1 : t[m] = c.alloc_id
  <2>1. PICK y \in 1..n : l[y] = c.alloc_id
    BY <1>7
  <2>2. y # idx
    BY <2>1
  <2> QED BY <1>9, <2>1, <2>2
<1>13. Agree(t, U \ {b}, x)
  BY <1>4, <1>7, <1>10, <1>11, <1>12 DEF Agree
<1> QED BY <1>1, <1>4, <1>13

\* The allocation with an id of its own is where the heap says.
LEMMA OwnerOf ==
  ASSUME IInv, NEW n \in 1..Len(live_ids)
  PROVE  \E k \in 1..Len(blocks) :
           /\ ~blocks[k].free /\ blocks[k].alloc_id = live_ids[n]
           /\ blocks[k] \in Used(blocks) /\ Owner(live_ids[n]) = {k}
<1>0. Heap(blocks) /\ Agree(live_ids, Used(blocks), next_alloc_id) /\ DOMAIN blocks = 1..Len(blocks)
  BY DEF IInv, Heap
<1>1. PICK b \in Used(blocks) : b.alloc_id = live_ids[n]
  BY <1>0 DEF Agree
<1>2. PICK k \in 1..Len(blocks) : blocks[k] = b /\ ~b.free
  BY DEF Used
<1>3. \A m \in 1..Len(blocks) : blocks[m].alloc_id = live_ids[n] => m = k
  BY <1>0, <1>1, <1>2 DEF Heap
<1>4. Owner(live_ids[n]) = {k}
  BY <1>0, <1>1, <1>2, <1>3 DEF Owner
<1> QED BY <1>1, <1>2, <1>4

\* Two blocks in use never have the same owner.
LEMMA OwnersDiffer ==
  ASSUME NEW s, Heap(s), NEW b \in Used(s), NEW c \in Used(s), c.alloc_id = b.alloc_id
  PROVE  c = b
<1>1. PICK k \in 1..Len(s) : s[k] = b /\ ~b.free
  BY DEF Used
<1>2. PICK m \in 1..Len(s) : s[m] = c /\ ~c.free
  BY DEF Used
<1> QED BY <1>1, <1>2 DEF Heap

\* What an operation of the workload does to the blocks in use.
LEMMA AllocStep ==
  ASSUME IInv, NEW size \in Sizes, Alloc(size)
  PROVE  IInv' /\ Used(blocks) \subseteq Used(blocks')
<1>0. /\ AllocTypeOK /\ Heap(blocks) /\ FreePairsIn(blocks, {})
      /\ Agree(live_ids, Used(blocks), next_alloc_id)
      /\ next_alloc_id \in Nat /\ live_ids \in Seq(Nat) /\ size \in Nat /\ size > 0
  BY Sane DEF IInv, AllocTypeOK
<1>1. PICK k \in Fitting(size) : blocks' = Carved(k, size)
  BY DEF Alloc
<1>2. k \in 1..Len(blocks) /\ blocks[k].free /\ blocks[k].size >= size
  BY <1>0, <1>1 DEF Fitting, Fits, Heap
<1>3. \A b \in Used(blocks) : b.alloc_id < next_alloc_id
  BY <1>0 DEF Agree
<1>4. /\ Heap(Carved(k, size)) /\ FreePairsIn(Carved(k, size), {})
      /\ \E e \in Block : /\ e.alloc_id = next_alloc_id /\ ~e.free
                          /\ Used(Carved(k, size)) = Used(blocks) \cup {e}
  BY <1>0, <1>2, <1>3, CarvedHeap
<1>5. Heap(blocks') /\ FreePairsIn(blocks', {})
  BY <1>1, <1>4, Zenon
<1>6. PICK e \in Block : e.alloc_id = next_alloc_id /\ Used(blocks') = Used(blocks) \cup {e}
  BY <1>1, <1>4, Zenon
<1>7. Agree(Append(live_ids, next_alloc_id), Used(blocks) \cup {e}, next_alloc_id + 1)
  <2>1. \A b \in Used(blocks) : b.alloc_id \in Nat
    BY <1>0, UsedBlocks
  <2> QED BY <1>0, <1>6, <2>1, AgreeAppend
<1>8. live_ids' = Append(live_ids, next_alloc_id) /\ next_alloc_id' = next_alloc_id + 1
  BY DEF Alloc
<1>9. Agree(live_ids', Used(blocks'), next_alloc_id')
  BY <1>6, <1>7, <1>8, Zenon
<1>10. live_ids' \in Seq(Nat) /\ Len(live_ids') <= MaxLive
  <2>1. Len(live_ids) < MaxLive
    BY <1>0, Sane DEF Alloc, MayAlloc
  <2>2. live_ids' \in Seq(Nat) /\ Len(live_ids') = Len(live_ids) + 1
    BY <1>0, <1>8
  <2>3. Len(live_ids) \in Nat
    BY <1>0
  <2> QED BY <2>1, <2>2, <2>3, Sane
<1>11. AllocTypeOK'
  <2>1. i < ops
    BY DEF Alloc, MayAlloc
  <2>2. ops' = ops /\ strategy' = strategy /\ failed_allocs' = failed_allocs
    BY DEF Alloc, EndOp
  <2>3. i' = i + 1 /\ status' \in {"running", "crashed", "done"}
    BY DEF Alloc, EndOp
  <2>4. ops \in Nat /\ i \in 0..ops
    BY <1>0, Sane DEF AllocTypeOK
  <2>5. i' \in 0..ops'
    BY <2>1, <2>2, <2>3, <2>4
  <2>6. blocks' \in Seq(Block) /\ next_alloc_id' \in Nat
    BY <1>0, <1>5, <1>8 DEF Heap
  <2> QED BY <1>0, <1>10, <2>2, <2>3, <2>5, <2>6 DEF AllocTypeOK
<1> QED BY <1>5, <1>6, <1>9, <1>11 DEF IInv

LEMMA FreeStep ==
  ASSUME IInv, NEW idx \in 1..Len(live_ids), Free(idx)
  PROVE  /\ IInv'
         /\ \A b \in Used(blocks) : b.alloc_id # live_ids[idx] => b \in Used(blocks')
         /\ \A n \in 1..Len(live_ids') : live_ids'[n] # live_ids[idx]
<1>0. /\ AllocTypeOK /\ Heap(blocks) /\ FreePairsIn(blocks, {})
      /\ Agree(live_ids, Used(blocks), next_alloc_id) /\ live_ids \in Seq(Nat)
  BY DEF IInv, AllocTypeOK
<1>1. PICK k \in 1..Len(blocks) :
        /\ ~blocks[k].free /\ blocks[k].alloc_id = live_ids[idx]
        /\ blocks[k] \in Used(blocks) /\ Owner(live_ids[idx]) = {k}
  BY OwnerOf
<1>2. blocks' = Freed(k)
  <2>1. (CHOOSE m \in {k} : \A o \in {k} : m <= o) = k
    <3>1. k <= k
      OBVIOUS
    <3> QED BY <3>1
  <2>2. HeapFree(live_ids[idx]) = Freed(k)
    BY <1>1, <2>1 DEF HeapFree
  <2> QED BY <2>2 DEF Free
<1>3. /\ Heap(Freed(k)) /\ FreePairsIn(Freed(k), {})
      /\ Used(Freed(k)) = Used(blocks) \ {blocks[k]}
  BY <1>0, <1>1, FreedHeap
<1>4. Heap(blocks') /\ FreePairsIn(blocks', {}) /\ Used(blocks') = Used(blocks) \ {blocks[k]}
  BY <1>2, <1>3, Zenon
<1>5. live_ids' = Removed(live_ids, idx)
  BY DEF Free, SwapRemove, Removed
<1>6. \A c \in Used(blocks) : c.alloc_id = blocks[k].alloc_id => c = blocks[k]
  BY <1>0, <1>1, OwnersDiffer
<1>7. /\ live_ids' \in Seq(Nat) /\ Len(live_ids') = Len(live_ids) - 1
      /\ Agree(live_ids', Used(blocks) \ {blocks[k]}, next_alloc_id)
  <2>1. \A t : t = Removed(live_ids, idx) =>
              /\ t \in Seq(Nat) /\ Len(t) = Len(live_ids) - 1
              /\ Agree(t, Used(blocks) \ {blocks[k]}, next_alloc_id)
    BY <1>0, <1>1, <1>6, AgreeRemove
  <2> QED BY <1>5, <2>1, Zenon
<1>8. next_alloc_id' = next_alloc_id
  BY DEF Free
<1>9. Agree(live_ids', Used(blocks'), next_alloc_id')
  BY <1>4, <1>7, <1>8, Zenon
<1>10. AllocTypeOK'
  <2>1. i < ops
    BY DEF Free
  <2>2. ops' = ops /\ strategy' = strategy /\ failed_allocs' = failed_allocs
    BY DEF Free, EndOp
  <2>3. i' = i + 1 /\ status' \in {"running", "crashed", "done"}
    BY DEF Free, EndOp
  <2>4. ops \in Nat /\ i \in 0..ops
    BY <1>0, Sane DEF AllocTypeOK
  <2>5. i' \in 0..ops'
    BY <2>1, <2>2, <2>3, <2>4
  <2>6. blocks' \in Seq(Block)
    BY <1>4 DEF Heap
  <2>7. Len(live_ids') <= MaxLive
    <3>1. Len(live_ids) \in Nat /\ Len(live_ids) <= MaxLive
      BY <1>0 DEF AllocTypeOK
    <3> QED BY <1>7, <3>1, Sane
  <2> QED BY <1>0, <1>7, <1>8, <2>2, <2>3, <2>5, <2>6, <2>7 DEF AllocTypeOK
<1>11. ASSUME NEW n \in 1..Len(live_ids') PROVE live_ids'[n] # live_ids[idx]
  <2>1. PICK c \in Used(blocks) \ {blocks[k]} : c.alloc_id = live_ids'[n]
    BY <1>7 DEF Agree
  <2> QED BY <1>1, <1>6, <2>1
<1>12. ASSUME NEW b \in Used(blocks), b.alloc_id # live_ids[idx] PROVE b \in Used(blocks')
  BY <1>1, <1>4, <1>12
<1> QED BY <1>4, <1>9, <1>10, <1>11, <1>12 DEF IInv

\* heap_alloc fails: only the counter of failures and the operation's number change.
LEMMA FailStep ==
  ASSUME IInv, NEW size \in Sizes, AllocFails(size)
  PROVE  IInv' /\ blocks' = blocks
<1>1. blocks' = blocks /\ next_alloc_id' = next_alloc_id /\ live_ids' = live_ids
  BY DEF AllocFails
<1>2. AllocTypeOK'
  <2>1. i < ops
    BY DEF AllocFails, MayAlloc
  <2>2. ops' = ops /\ strategy' = strategy /\ failed_allocs' = failed_allocs + 1
    BY DEF AllocFails, EndOp
  <2>3. i' = i + 1 /\ status' \in {"running", "crashed", "done"}
    BY DEF AllocFails, EndOp
  <2>4. ops \in Nat /\ i \in 0..ops /\ failed_allocs \in Nat /\ AllocTypeOK
    BY Sane DEF IInv, AllocTypeOK
  <2>5. i' \in 0..ops' /\ failed_allocs' \in Nat
    BY <2>1, <2>2, <2>3, <2>4
  <2> QED BY <1>1, <2>2, <2>3, <2>4, <2>5 DEF AllocTypeOK
<1> QED BY <1>1, <1>2 DEF IInv

LEMMA SecondStep ==
  ASSUME IInv, SecondWorkload
  PROVE  IInv'
<1>1. /\ blocks' = EmptyHeap /\ next_alloc_id' = 0 /\ live_ids' = <<>> /\ failed_allocs' = 0
      /\ i' = 0 /\ strategy' = "best_fit" /\ ops' = ops /\ status' = status
  BY DEF SecondWorkload
<1>2. Heap(blocks') /\ FreePairsIn(blocks', {}) /\ Used(blocks') = {}
  BY <1>1, EmptyHeapOK, Zenon
<1>3. Agree(<<>>, {}, 0)
  BY DEF Agree
<1>4. Agree(live_ids', Used(blocks'), next_alloc_id')
  BY <1>1, <1>2, <1>3, Zenon
<1>5. ops \in OpsChoices /\ ops \in Nat /\ status \in {"running", "crashed", "done"}
  BY Sane DEF IInv, AllocTypeOK
<1>6. AllocTypeOK'
  BY <1>1, <1>2, <1>5, Sane DEF AllocTypeOK, Heap
<1> QED BY <1>2, <1>4, <1>6 DEF IInv

LEMMA ExitStep ==
  ASSUME IInv, Exit \/ UNCHANGED vars
  PROVE  IInv' /\ blocks' = blocks
<1>1. /\ blocks' = blocks /\ next_alloc_id' = next_alloc_id /\ live_ids' = live_ids
      /\ failed_allocs' = failed_allocs /\ i' = i /\ strategy' = strategy /\ ops' = ops
      /\ status' = status \/ status' = "done"
  BY DEF Exit, vars
<1>2. AllocTypeOK'
  BY <1>1 DEF IInv, AllocTypeOK
<1> QED BY <1>1, <1>2 DEF IInv

LEMMA NextInv == IInv /\ [AllocNext]_vars => IInv'
<1> SUFFICES ASSUME IInv, [AllocNext]_vars PROVE IInv'
  OBVIOUS
<1>1. ASSUME NEW size \in Sizes, Alloc(size) PROVE IInv'
  BY <1>1, AllocStep
<1>2. ASSUME NEW size \in Sizes, AllocFails(size) PROVE IInv'
  BY <1>2, FailStep
<1>3. ASSUME NEW idx \in DOMAIN live_ids, Free(idx) PROVE IInv'
  <2>1. DOMAIN live_ids = 1..Len(live_ids)
    BY DEF IInv, AllocTypeOK
  <2> QED BY <1>3, <2>1, FreeStep
<1>4. CASE SecondWorkload
  BY <1>4, SecondStep
<1>5. CASE Exit \/ UNCHANGED vars
  BY <1>5, ExitStep
<1> QED BY <1>1, <1>2, <1>3, <1>4, <1>5 DEF AllocNext

-----------------------------------------------------------------------------
(* Theorems *)

\* The inductive invariant holds of every reachable state.
THEOREM AllocInductive == AllocSpec => []IInv
BY InitInv, NextInv, PTL DEF AllocSpec

\* Type correctness; in particular live_ids never outgrows its array and no split
\* leaves an empty block.
THEOREM AllocTypeCorrect == AllocSpec => []AllocTypeOK
<1>1. IInv => AllocTypeOK
  BY DEF IInv
<1> QED BY <1>1, AllocInductive, PTL

\* Splitting and coalescing lose no byte, count none twice and leave no two free
\* neighbours, for every heap size, every request and either strategy.
THEOREM HeapIsTiled == AllocSpec => []WellFormed
<1>1. IInv => WellFormed
  BY DEF IInv, Heap, FreePairsIn, WellFormed, Tiles, NoFreeNeighbours
<1> QED BY <1>1, AllocInductive, PTL

\* The workload's array and the heap agree: no id is freed twice and no block leaked.
THEOREM LiveIsOwned == AllocSpec => []LiveExactly
<1>1. IInv => LiveExactly
  <2> SUFFICES ASSUME IInv PROVE LiveExactly
    OBVIOUS
  <2>1. /\ AllocTypeOK /\ Heap(blocks) /\ Agree(live_ids, Used(blocks), next_alloc_id)
        /\ DOMAIN live_ids = 1..Len(live_ids) /\ DOMAIN blocks = 1..Len(blocks)
        /\ Len(live_ids) <= MaxLive
    BY DEF IInv, AllocTypeOK
  <2>2. \A m, n \in DOMAIN live_ids : live_ids[m] = live_ids[n] => m = n
    BY <2>1 DEF Agree
  <2>3. \A n \in DOMAIN live_ids : \E k \in DOMAIN blocks : Owner(live_ids[n]) = {k}
    BY <2>1, OwnerOf
  <2>4. ASSUME NEW k \in DOMAIN blocks
        PROVE  IF blocks[k].free THEN blocks[k].alloc_id = NoId
               ELSE \E n \in DOMAIN live_ids : live_ids[n] = blocks[k].alloc_id
    <3>1. CASE blocks[k].free
      BY <2>1, <3>1 DEF Heap, Inside
    <3>2. CASE ~blocks[k].free
      <4>1. blocks[k] \in Used(blocks)
        BY <2>1, <3>2, UsedBlocks
      <4> QED BY <2>1, <3>2, <4>1 DEF Agree
    <3> QED BY <3>1, <3>2
  <2> QED BY <2>1, <2>2, <2>3, <2>4 DEF LiveExactly
<1> QED BY <1>1, AllocInductive, PTL

\* A live allocation keeps its place and size until it is freed itself.
THEOREM AllocationsStayPut == AllocSpec => StaysPut
<1>1. ASSUME IInv, [AllocNext]_vars, strategy' = strategy, NEW k \in DOMAIN blocks, ~blocks[k].free,
             NEW n \in DOMAIN live_ids', live_ids'[n] = blocks[k].alloc_id
      PROVE  \E m \in DOMAIN blocks' : blocks'[m] = blocks[k]
  <2>0. Heap(blocks) /\ DOMAIN live_ids = 1..Len(live_ids) /\ k \in 1..Len(blocks)
    BY <1>1 DEF IInv, AllocTypeOK, Heap
  <2>1. blocks[k] \in Used(blocks)
    BY <1>1, <2>0, UsedBlocks
  <2>2. IInv'
    BY <1>1, NextInv
  <2>3. /\ DOMAIN blocks' = 1..Len(blocks') /\ DOMAIN live_ids' = 1..Len(live_ids')
        /\ \A b \in Used(blocks') : \E m \in 1..Len(blocks') : blocks'[m] = b
    BY <2>2 DEF IInv, AllocTypeOK, Used
  <2> SUFFICES blocks[k] \in Used(blocks')
    BY <2>3
  <2>4. ASSUME NEW size \in Sizes, Alloc(size) PROVE blocks[k] \in Used(blocks')
    BY <1>1, <2>1, <2>4, AllocStep
  <2>5. ASSUME NEW size \in Sizes, AllocFails(size) PROVE blocks[k] \in Used(blocks')
    BY <1>1, <2>1, <2>5, FailStep
  <2>6. ASSUME NEW idx \in DOMAIN live_ids, Free(idx) PROVE blocks[k] \in Used(blocks')
    <3>1. /\ \A b \in Used(blocks) : b.alloc_id # live_ids[idx] => b \in Used(blocks')
          /\ \A m \in 1..Len(live_ids') : live_ids'[m] # live_ids[idx]
      BY <1>1, <2>0, <2>6, FreeStep
    <3> QED BY <1>1, <2>1, <2>3, <3>1
  <2>7. ~SecondWorkload
    BY <1>1 DEF SecondWorkload
  <2>8. CASE Exit \/ UNCHANGED vars
    BY <1>1, <2>1, <2>8, ExitStep
  <2> QED BY <1>1, <2>4, <2>5, <2>6, <2>7, <2>8 DEF AllocNext
<1>2. IInv /\ [AllocNext]_vars =>
        (strategy' = strategy =>
           \A k \in DOMAIN blocks :
             (/\ ~blocks[k].free
              /\ \E n \in DOMAIN live_ids' : live_ids'[n] = blocks[k].alloc_id)
             => \E m \in DOMAIN blocks' : blocks'[m] = blocks[k])
  BY <1>1, Zenon
<1> QED BY <1>2, AllocInductive, PTL DEF AllocSpec, StaysPut

-----------------------------------------------------------------------------
(* The reports *)

\* A non-empty set of numbers has a smallest member.
LEMMA SmallestNumber ==
  ASSUME NEW T, T \subseteq Nat, T # {}
  PROVE  \E n \in T : \A m \in T : n <= m
<1>1. PICK n \in T : \A m \in T : <<m, n>> \notin OpToRel(<, Nat)
  BY NatLessThanWellFounded, WFMin
<1>2. \A m \in T : ~(m < n)
  BY <1>1 DEF OpToRel
<1> QED BY <1>2

Zero == [total |-> 0, count |-> 0, largest |-> 0]

\* g holds the figures after each of the first n blocks of s.
IsScan(g, s, n) ==
  g = [k \in 0..n |-> IF k = 0 THEN Zero ELSE Counted(g[k - 1], s[k])]

\* The recursion has a solution: a shortest prefix without one would get one from
\* the prefix before it.
LEMMA ScanExists ==
  ASSUME NEW s, NEW l \in Nat PROVE \E g : IsScan(g, s, l)
<1> DEFINE T == {n \in Nat : ~ \E g : IsScan(g, s, n)}
<1> SUFFICES ASSUME T # {} PROVE FALSE
  OBVIOUS
<1>1. PICK n \in T : \A m \in T : n <= m
  BY SmallestNumber
<1>2. n \in Nat /\ ~ \E g : IsScan(g, s, n)
  OBVIOUS
<1>3. n # 0
  <2> DEFINE g == [k \in 0..0 |-> Zero]
  <2>1. IsScan(g, s, 0)
    <3>1. g = [k \in 0..0 |-> IF k = 0 THEN Zero ELSE Counted(g[k - 1], s[k])]
      OBVIOUS
    <3> QED BY <3>1, Zenon DEF IsScan
  <2> QED BY <1>2, <2>1
<1>4. PICK h : IsScan(h, s, n - 1)
  <2>1. n - 1 \in Nat /\ n - 1 \notin T
    BY <1>1, <1>2, <1>3
  <2> QED BY <2>1
<1> DEFINE last == Counted(h[n - 1], s[n])
           g == [k \in 0..n |-> IF k = n THEN last ELSE h[k]]
<1>5. ASSUME NEW k \in 0..n PROVE g[k] = IF k = 0 THEN Zero ELSE Counted(g[k - 1], s[k])
  <2>1. CASE k = n
    <3>1. n - 1 \in 0..n /\ n - 1 # n
      BY <1>2, <1>3
    <3>2. g[n - 1] = h[n - 1] /\ g[n] = last
      BY <1>2, <3>1
    <3> HIDE DEF g
    <3> QED BY <1>3, <2>1, <3>2
  <2>2. CASE k # n
    <3>1. k \in 0..n - 1 /\ g[k] = h[k]
      BY <1>2, <2>2
    <3>2. h[k] = IF k = 0 THEN Zero ELSE Counted(h[k - 1], s[k])
      BY <1>4, <3>1 DEF IsScan
    <3>3. k # 0 => k - 1 \in 0..n /\ k - 1 # n
      BY <1>2, <3>1
    <3>4. k # 0 => g[k - 1] = h[k - 1]
      BY <3>3
    <3> HIDE DEF g
    <3> QED BY <3>1, <3>2, <3>4
  <2> QED BY <2>1, <2>2
<1>6. IsScan(g, s, n)
  <2>1. g = [k \in 0..n |-> g[k]]
    OBVIOUS
  <2> HIDE DEF g
  <2> QED BY <1>5, <2>1 DEF IsScan
<1> QED BY <1>2, <1>6

\* So the loop computes its figures block by block.
LEMMA ScanRecurs ==
  ASSUME Len(blocks) \in Nat
  PROVE  /\ Scan[0] = Zero
         /\ \A k \in 1..Len(blocks) : Scan[k] = Counted(Scan[k - 1], blocks[k])
<1>1. Scan = CHOOSE g : IsScan(g, blocks, Len(blocks))
  BY DEF Scan, IsScan, Zero
<1>2. IsScan(Scan, blocks, Len(blocks))
  BY <1>1, ScanExists
<1>3. \A k \in 0..Len(blocks) : Scan[k] = IF k = 0 THEN Zero ELSE Counted(Scan[k - 1], blocks[k])
  <2> HIDE DEF Scan
  <2> QED BY <1>2 DEF IsScan
<1> HIDE DEF Scan
<1>4. 0 \in 0..Len(blocks) /\ \A k \in 1..Len(blocks) : k \in 0..Len(blocks) /\ k # 0
  OBVIOUS
<1> QED BY <1>3, <1>4

\* The blocks lie in the order of their offsets.
LEMMA Ordered ==
  ASSUME NEW s, Heap(s), NEW k \in 1..Len(s), NEW m \in 1..Len(s), m < k
  PROVE  s[m].offset + s[m].size <= s[k].offset
<1> DEFINE Before(p, q) == s[p].offset + s[p].size <= s[q].offset
           T == {q \in 1..Len(s) : \E p \in 1..Len(s) : p < q /\ ~Before(p, q)}
<1>0. Len(s) \in Nat
  BY DEF Heap
<1> SUFFICES ASSUME T # {} PROVE FALSE
  OBVIOUS
<1>1. PICK q \in T : \A p \in T : q <= p
  <2>1. T \subseteq Nat
    BY <1>0
  <2> HIDE DEF T
  <2> QED BY <2>1, SmallestNumber
<1>2. PICK p \in 1..Len(s) : p < q /\ ~Before(p, q)
  OBVIOUS
<1>3. q \in 1..Len(s) /\ q - 1 \in 1..Len(s) /\ q - 1 \in 1..Len(s) - 1 /\ q - 1 + 1 = q
  BY <1>0, <1>2
<1>4. s[q].offset = s[q - 1].offset + s[q - 1].size
  BY <1>3 DEF Heap
<1>5. q - 1 \notin T
  <2>1. ~(q <= q - 1)
    BY <1>0, <1>3
  <2> HIDE DEF T
  <2> QED BY <1>1, <2>1
<1>6. /\ s[p].offset \in Nat /\ s[p].size \in Nat /\ s[q - 1].offset \in Nat /\ s[q - 1].size \in Nat
  BY <1>3, BlockFields DEF Heap, Inside
<1>7. p = q - 1 \/ Before(p, q - 1)
  BY <1>0, <1>2, <1>3, <1>5
<1> HIDE DEF T
<1> QED BY <1>2, <1>4, <1>6, <1>7

\* Byte o lies in the free block k of s.
InFree(s, k, o) == s[k].free /\ s[k].offset <= o /\ o < s[k].offset + s[k].size

\* The free bytes, and the offsets of the free blocks, among the first n blocks.
BytesTo(s, n) == {o \in 0..HeapSize - 1 : \E k \in 1..n : InFree(s, k, o)}
StartsTo(s, n) == {s[k].offset : k \in {m \in 1..n : s[m].free}}

\* What the figures r say of the first n blocks.
Figures(r, s, n) ==
  /\ r \in [total : Nat, count : Nat, largest : Nat]
  /\ IsFiniteSet(BytesTo(s, n)) /\ r.total = Cardinality(BytesTo(s, n))
  /\ IsFiniteSet(StartsTo(s, n)) /\ r.count = Cardinality(StartsTo(s, n))
  /\ \A k \in 1..n : s[k].free => s[k].size <= r.largest
  /\ r.largest = 0 \/ \E k \in 1..n : s[k].free /\ s[k].size = r.largest

LEMMA ZeroFigures == ASSUME NEW s PROVE Figures(Zero, s, 0)
<1>1. Zero \in [total : Nat, count : Nat, largest : Nat] /\ Zero.total = 0 /\ Zero.count = 0 /\ Zero.largest = 0
  BY DEF Zero
<1>2. 1..0 = {}
  OBVIOUS
<1>3. BytesTo(s, 0) = {} /\ StartsTo(s, 0) = {}
  BY <1>2 DEF BytesTo, StartsTo
<1> QED BY <1>1, <1>2, <1>3, FS_EmptySet DEF Figures

\* A free block adds its bytes, which no block before it has.
LEMMA BytesAdded ==
  ASSUME NEW s, Heap(s), NEW k \in 1..Len(s), IsFiniteSet(BytesTo(s, k - 1)), s[k].free
  PROVE  /\ IsFiniteSet(BytesTo(s, k))
         /\ Cardinality(BytesTo(s, k)) = Cardinality(BytesTo(s, k - 1)) + s[k].size
<1> DEFINE a == s[k].offset
           z == s[k].size
           A == BytesTo(s, k - 1)
           B == a..a + z - 1
<1>0. /\ Len(s) \in Nat /\ k \in Nat /\ a \in Nat /\ z \in Nat /\ z >= 1 /\ a + z <= HeapSize /\ HeapSize \in Nat
  BY Sane, BlockFields DEF Heap, Inside
<1>1. BytesTo(s, k) = A \cup B
  <2>1. 1..k = (1..k - 1) \cup {k}
    BY <1>0
  <2>2. \A o \in 0..HeapSize - 1 : InFree(s, k, o) <=> o \in B
    BY <1>0 DEF InFree
  <2>3. B \subseteq 0..HeapSize - 1
    BY <1>0
  <2> HIDE DEF B, a, z
  <2> QED BY <2>1, <2>2, <2>3 DEF BytesTo
<1>2. A \cap B = {}
  <2> SUFFICES ASSUME NEW o \in A, o \in B PROVE FALSE
    OBVIOUS
  <2>1. PICK m \in 1..k - 1 : InFree(s, m, o)
    BY DEF BytesTo
  <2>2. m \in 1..Len(s) /\ m < k
    BY <1>0
  <2>3. s[m].offset + s[m].size <= a
    BY <2>2, Ordered
  <2>4. s[m].offset \in Nat /\ s[m].size \in Nat /\ o \in Nat /\ a <= o
    BY <1>0, <2>2, BlockFields DEF Heap, Inside
  <2> QED BY <1>0, <2>1, <2>3, <2>4 DEF InFree
<1>3. IsFiniteSet(B) /\ Cardinality(B) = z
  <2>1. a \in Int /\ a + z - 1 \in Int /\ ~(a > a + z - 1) /\ (a + z - 1) - a + 1 = z
    BY <1>0
  <2> QED BY <2>1, FS_Interval
<1> HIDE DEF A, B, a, z
<1>4. IsFiniteSet(A) /\ Cardinality(A) \in Nat /\ z \in Nat
  BY <1>0, FS_CardinalityType DEF A
<1>5. IsFiniteSet(A \cup B) /\ Cardinality(A \cup B) = Cardinality(A) + Cardinality(B) - Cardinality(A \cap B)
  BY <1>3, <1>4, FS_Union
<1>6. Cardinality(A \cap B) = 0
  BY <1>2, FS_EmptySet
<1>7. Cardinality(A \cup B) = Cardinality(A) + z
  BY <1>3, <1>4, <1>5, <1>6
<1> QED BY <1>1, <1>5, <1>7 DEF A, z

\* It starts where no block before it does.
LEMMA StartAdded ==
  ASSUME NEW s, Heap(s), NEW k \in 1..Len(s), IsFiniteSet(StartsTo(s, k - 1)), s[k].free
  PROVE  /\ IsFiniteSet(StartsTo(s, k))
         /\ Cardinality(StartsTo(s, k)) = Cardinality(StartsTo(s, k - 1)) + 1
<1>0. Len(s) \in Nat /\ k \in Nat /\ 1..k = (1..k - 1) \cup {k}
  BY DEF Heap
<1>1. StartsTo(s, k) = StartsTo(s, k - 1) \cup {s[k].offset}
  BY <1>0 DEF StartsTo
<1>2. s[k].offset \notin StartsTo(s, k - 1)
  <2> SUFFICES ASSUME NEW m \in 1..k - 1, s[k].offset = s[m].offset PROVE FALSE
    BY DEF StartsTo
  <2>1. m \in 1..Len(s) /\ m < k
    BY <1>0
  <2>2. s[m].offset + s[m].size <= s[k].offset
    BY <2>1, Ordered
  <2>3. s[m].offset \in Nat /\ s[m].size \in Nat /\ s[m].size >= 1
    BY <2>1, BlockFields DEF Heap, Inside
  <2> QED BY <2>2, <2>3
<1> DEFINE A == StartsTo(s, k - 1)
<1> HIDE DEF A
<1>3. IsFiniteSet(A) /\ s[k].offset \notin A
  BY <1>2 DEF A
<1>4. /\ IsFiniteSet(A \cup {s[k].offset})
      /\ Cardinality(A \cup {s[k].offset}) = Cardinality(A) + 1
  BY <1>3, FS_AddElement
<1> QED BY <1>1, <1>4 DEF A

\* One turn of the loop keeps the figures right.
LEMMA FiguresStep ==
  ASSUME NEW s, Heap(s), NEW k \in 1..Len(s), NEW r, Figures(r, s, k - 1)
  PROVE  Figures(Counted(r, s[k]), s, k)
<1>0. /\ Len(s) \in Nat /\ k \in Nat /\ 1..k = (1..k - 1) \cup {k}
      /\ s[k].size \in Nat /\ s[k].size >= 1
  BY BlockFields DEF Heap, Inside
<1>1. /\ r \in [total : Nat, count : Nat, largest : Nat]
      /\ r.total \in Nat /\ r.count \in Nat /\ r.largest \in Nat
      /\ IsFiniteSet(BytesTo(s, k - 1)) /\ r.total = Cardinality(BytesTo(s, k - 1))
      /\ IsFiniteSet(StartsTo(s, k - 1)) /\ r.count = Cardinality(StartsTo(s, k - 1))
      /\ \A m \in 1..k - 1 : s[m].free => s[m].size <= r.largest
      /\ r.largest = 0 \/ \E m \in 1..k - 1 : s[m].free /\ s[m].size = r.largest
  BY DEF Figures
<1>2. CASE ~s[k].free
  <2>1. BytesTo(s, k) = BytesTo(s, k - 1) /\ StartsTo(s, k) = StartsTo(s, k - 1)
    BY <1>0, <1>2 DEF BytesTo, StartsTo, InFree
  <2>2. Counted(r, s[k]) = r
    BY <1>2 DEF Counted
  <2> QED BY <1>0, <1>1, <1>2, <2>1, <2>2 DEF Figures
<1>3. CASE s[k].free
  <2> DEFINE big == IF s[k].size > r.largest THEN s[k].size ELSE r.largest
             q == [total |-> r.total + s[k].size, count |-> r.count + 1, largest |-> big]
  <2>1. Counted(r, s[k]) = q
    BY <1>3 DEF Counted
  <2>2. /\ big \in Nat /\ big >= s[k].size /\ big >= r.largest /\ (big = s[k].size \/ big = r.largest)
        /\ r.total + s[k].size \in Nat /\ r.count + 1 \in Nat
    BY <1>0, <1>1
  <2> HIDE DEF big
  <2>3. /\ q \in [total : Nat, count : Nat, largest : Nat]
        /\ q.total = r.total + s[k].size /\ q.count = r.count + 1 /\ q.largest = big
    BY <2>2
  <2> HIDE DEF q
  <2>4. IsFiniteSet(BytesTo(s, k)) /\ q.total = Cardinality(BytesTo(s, k))
    BY <1>1, <1>3, <2>3, BytesAdded
  <2>5. IsFiniteSet(StartsTo(s, k)) /\ q.count = Cardinality(StartsTo(s, k))
    BY <1>1, <1>3, <2>3, StartAdded
  <2>6. ASSUME NEW m \in 1..k, s[m].free PROVE s[m].size <= q.largest
    <3>1. CASE m = k
      BY <2>2, <2>3, <3>1
    <3>2. CASE m \in 1..k - 1
      <4>1. m \in 1..Len(s) /\ s[m].size <= r.largest
        BY <1>0, <1>1, <2>6, <3>2
      <4>2. s[m].size \in Nat
        BY <4>1, BlockFields DEF Heap, Inside
      <4> QED BY <1>1, <2>2, <2>3, <4>1, <4>2
    <3> QED BY <1>0, <3>1, <3>2
  <2>7. q.largest = 0 \/ \E m \in 1..k : s[m].free /\ s[m].size = q.largest
    BY <1>0, <1>1, <1>3, <2>2, <2>3
  <2>8. Figures(q, s, k)
    BY <2>3, <2>4, <2>5, <2>6, <2>7 DEF Figures
  <2> QED BY <2>1, <2>8
<1> QED BY <1>2, <1>3

\* What the loop has computed when it ends: a shortest prefix with wrong figures would
\* follow one with the right ones.
LEMMA ScanFigures ==
  ASSUME Heap(blocks) PROVE Figures(Reported, blocks, Len(blocks))
<1> DEFINE T == {k \in 0..Len(blocks) : ~Figures(Scan[k], blocks, k)}
<1>0. Len(blocks) \in Nat
  BY DEF Heap
<1>1. /\ Scan[0] = Zero
      /\ \A k \in 1..Len(blocks) : Scan[k] = Counted(Scan[k - 1], blocks[k])
  BY <1>0, ScanRecurs
<1> HIDE DEF Scan
<1>2. ASSUME T # {} PROVE FALSE
  <2>1. PICK k \in T : \A m \in T : k <= m
    <3>1. T \subseteq Nat
      BY <1>0
    <3> HIDE DEF T
    <3> QED BY <1>2, <3>1, SmallestNumber
  <2>2. k \in 0..Len(blocks) /\ ~Figures(Scan[k], blocks, k)
    OBVIOUS
  <2>3. k # 0
    BY <1>1, <2>2, ZeroFigures
  <2>4. k \in 1..Len(blocks) /\ k - 1 \in 0..Len(blocks) /\ ~(k <= k - 1)
    BY <1>0, <2>2, <2>3
  <2>5. k - 1 \notin T
    <3> HIDE DEF T
    <3> QED BY <2>1, <2>4
  <2>6. Figures(Scan[k - 1], blocks, k - 1)
    BY <2>4, <2>5
  <2>7. Figures(Counted(Scan[k - 1], blocks[k]), blocks, k)
    BY <2>4, <2>6, FiguresStep
  <2> QED BY <1>1, <2>2, <2>4, <2>7
<1>3. Len(blocks) \in 0..Len(blocks)
  BY <1>0
<1> QED BY <1>2, <1>3 DEF Reported

\* The free bytes of the heap, without the blocks' numbers.
Bytes(s) == BytesTo(s, Len(s))

LEMMA BytesIn ==
  ASSUME NEW s, Heap(s), NEW k \in 1..Len(s), NEW o, o \in Int, InFree(s, k, o)
  PROVE  o \in Bytes(s)
<1>1. s[k].offset \in Nat /\ s[k].size \in Nat /\ s[k].offset + s[k].size <= HeapSize /\ HeapSize \in Nat
  BY Sane, BlockFields DEF Heap, Inside
<1>2. o \in 0..HeapSize - 1
  BY <1>1 DEF InFree
<1> QED BY <1>2 DEF Bytes, BytesTo

\* The bytes next to a free block are not free.
LEMMA Bordered ==
  ASSUME NEW s, Heap(s), FreePairsIn(s, {}), NEW k \in 1..Len(s), s[k].free
  PROVE  /\ s[k].offset - 1 \notin Bytes(s)
         /\ s[k].offset + s[k].size \notin Bytes(s)
<1>0. Len(s) \in Nat /\ \A m \in 1..Len(s) : s[m].offset \in Nat /\ s[m].size \in Nat /\ s[m].size >= 1
  BY BlockFields DEF Heap, Inside
<1>1. ASSUME NEW m \in 1..Len(s), InFree(s, m, s[k].offset - 1) PROVE FALSE
  <2>1. m # k
    BY <1>0, <1>1 DEF InFree
  <2>2. ~(k < m)
    <3> SUFFICES ASSUME k < m PROVE FALSE
      OBVIOUS
    <3>1. s[k].offset + s[k].size <= s[m].offset
      BY Ordered
    <3> QED BY <1>0, <1>1, <3>1 DEF InFree
  <2>3. m < k
    BY <1>0, <2>1, <2>2
  <2>4. CASE m = k - 1
    <3>1. m \in 1..Len(s) - 1 /\ m + 1 = k
      BY <1>0, <2>4
    <3> QED BY <1>1, <3>1 DEF FreePairsIn, InFree
  <2>5. CASE m # k - 1
    <3>1. PICK p \in 1..Len(s) : m < p /\ p < k
      BY <1>0, <2>3, <2>5
    <3>2. s[m].offset + s[m].size <= s[p].offset
      BY <3>1, Ordered
    <3>3. s[p].offset + s[p].size <= s[k].offset
      BY <3>1, Ordered
    <3>4. s[m].offset \in Nat /\ s[m].size \in Nat /\ s[p].offset \in Nat /\ s[p].size \in Nat
          /\ s[p].size >= 1 /\ s[k].offset \in Nat
      BY <1>0
    <3> QED BY <1>1, <3>2, <3>3, <3>4 DEF InFree
  <2> QED BY <2>4, <2>5
<1>2. ASSUME NEW m \in 1..Len(s), InFree(s, m, s[k].offset + s[k].size) PROVE FALSE
  <2>1. m # k
    BY <1>0, <1>2 DEF InFree
  <2>2. ~(m < k)
    <3> SUFFICES ASSUME m < k PROVE FALSE
      OBVIOUS
    <3>1. s[m].offset + s[m].size <= s[k].offset
      BY Ordered
    <3> QED BY <1>0, <1>2, <3>1 DEF InFree
  <2>3. k < m
    BY <1>0, <2>1, <2>2
  <2>4. CASE m = k + 1
    <3>1. k \in 1..Len(s) - 1
      BY <1>0, <2>4
    <3> QED BY <1>2, <2>4, <3>1 DEF FreePairsIn, InFree
  <2>5. CASE m # k + 1
    <3>1. k + 1 \in 1..Len(s) /\ k < k + 1 /\ k + 1 < m
      BY <1>0, <2>3, <2>5
    <3>2. s[k].offset + s[k].size <= s[k + 1].offset
      BY <3>1, Ordered
    <3>3. s[k + 1].offset + s[k + 1].size <= s[m].offset
      BY <3>1, Ordered
    <3>4. s[k].offset \in Nat /\ s[k].size \in Nat /\ s[k + 1].offset \in Nat /\ s[k + 1].size \in Nat
          /\ s[k + 1].size >= 1 /\ s[m].offset \in Nat
      BY <1>0, <3>1
    <3> QED BY <1>2, <3>2, <3>3, <3>4 DEF InFree
  <2> QED BY <2>4, <2>5
<1> QED BY <1>1, <1>2 DEF Bytes, BytesTo

\* The free blocks start where the runs of free bytes do.
LEMMA RunsStart ==
  ASSUME NEW s, Heap(s), FreePairsIn(s, {})
  PROVE  StartsTo(s, Len(s)) = {o \in Bytes(s) : o - 1 \notin Bytes(s)}
<1>0. \A m \in 1..Len(s) : s[m].offset \in Nat /\ s[m].size \in Nat /\ s[m].size >= 1
  BY BlockFields DEF Heap, Inside
<1>1. ASSUME NEW k \in 1..Len(s), s[k].free
      PROVE  s[k].offset \in Bytes(s) /\ s[k].offset - 1 \notin Bytes(s)
  <2>1. s[k].offset \in Int /\ InFree(s, k, s[k].offset)
    BY <1>0, <1>1 DEF InFree
  <2>2. s[k].offset \in Bytes(s)
    BY <2>1, BytesIn
  <2>3. s[k].offset - 1 \notin Bytes(s)
    BY <1>1, Bordered
  <2> QED BY <2>2, <2>3
<1>2. ASSUME NEW o \in Bytes(s), o - 1 \notin Bytes(s)
      PROVE  \E k \in 1..Len(s) : s[k].free /\ s[k].offset = o
  <2>1. PICK k \in 1..Len(s) : InFree(s, k, o)
    BY DEF Bytes, BytesTo
  <2>2. o \in Int /\ o - 1 \in Int
    BY Sane DEF Bytes, BytesTo
  <2>3. ~InFree(s, k, o - 1)
    BY <1>2, <2>2, BytesIn
  <2>4. s[k].offset = o
    BY <1>0, <2>1, <2>2, <2>3 DEF InFree
  <2> QED BY <2>1, <2>4 DEF InFree
<1>3. ASSUME NEW o PROVE o \in StartsTo(s, Len(s)) <=> o \in Bytes(s) /\ o - 1 \notin Bytes(s)
  <2>1. o \in StartsTo(s, Len(s)) <=> \E k \in 1..Len(s) : s[k].free /\ s[k].offset = o
    BY DEF StartsTo
  <2> QED BY <1>1, <1>2, <2>1
<1> QED BY <1>3

\* So many bytes in a row are free exactly when one block has them.
LEMMA RunsFit ==
  ASSUME NEW s, Heap(s), FreePairsIn(s, {}), NEW n \in Nat, n >= 1
  PROVE  (\E o \in Bytes(s) : o..o + n - 1 \subseteq Bytes(s))
           <=> \E k \in 1..Len(s) : s[k].free /\ n <= s[k].size
<1>0. \A m \in 1..Len(s) : s[m].offset \in Nat /\ s[m].size \in Nat /\ s[m].size >= 1
  BY BlockFields DEF Heap, Inside
<1>1. ASSUME NEW k \in 1..Len(s), s[k].free, n <= s[k].size
      PROVE  \E o \in Bytes(s) : o..o + n - 1 \subseteq Bytes(s)
  <2> DEFINE a == s[k].offset
  <2>1. a \in Nat /\ s[k].size \in Nat
    BY <1>0
  <2>2. ASSUME NEW x \in a..a + n - 1 PROVE x \in Bytes(s)
    <3>1. x \in Int /\ InFree(s, k, x)
      BY <1>1, <2>1 DEF InFree
    <3> QED BY <3>1, BytesIn
  <2> HIDE DEF a
  <2>3. a \in a..a + n - 1
    BY <2>1
  <2> QED BY <2>2, <2>3
<1>2. ASSUME NEW o \in Bytes(s), o..o + n - 1 \subseteq Bytes(s)
      PROVE  \E k \in 1..Len(s) : s[k].free /\ n <= s[k].size
  <2>1. PICK k \in 1..Len(s) : InFree(s, k, o)
    BY DEF Bytes, BytesTo
  <2>2. o \in Int /\ s[k].offset \in Nat /\ s[k].size \in Nat /\ s[k].free
    BY <1>0, <2>1, Sane DEF Bytes, BytesTo, InFree
  <2>3. s[k].offset + s[k].size \notin Bytes(s)
    BY <2>2, Bordered
  <2>4. s[k].offset + s[k].size \notin o..o + n - 1
    BY <1>2, <2>3
  <2>5. n <= s[k].size
    BY <2>1, <2>2, <2>4 DEF InFree
  <2> QED BY <2>2, <2>5
<1> QED BY <1>1, <1>2

LEMMA ReportsDescribe ==
  ASSUME Heap(blocks), FreePairsIn(blocks, {}) PROVE ReportExact
<1> DEFINE r == Reported
<1>0. Len(blocks) \in Nat /\ DOMAIN blocks = 1..Len(blocks)
  BY DEF Heap
<1>1. FreeBytes = Bytes(blocks)
  BY <1>0 DEF FreeBytes, FreeByte, Bytes, BytesTo, InFree
<1>2. Figures(r, blocks, Len(blocks))
  BY ScanFigures
<1> HIDE DEF r
<1>3. r.total = Cardinality(FreeBytes)
  BY <1>1, <1>2 DEF Figures, Bytes
<1>4. r.count = Cardinality({o \in FreeBytes : o - 1 \notin FreeBytes})
  BY <1>1, <1>2, RunsStart DEF Figures
<1>5. ASSUME NEW n \in 1..HeapSize
      PROVE  n <= r.largest <=> \E o \in FreeBytes : o..o + n - 1 \subseteq FreeBytes
  <2>0. n \in Nat /\ n >= 1
    BY Sane
  <2>1. (\E o \in FreeBytes : o..o + n - 1 \subseteq FreeBytes)
          <=> \E k \in 1..Len(blocks) : blocks[k].free /\ n <= blocks[k].size
    BY <1>1, <2>0, RunsFit
  <2>2. /\ r.largest \in Nat
        /\ \A k \in 1..Len(blocks) : blocks[k].free => blocks[k].size <= r.largest
        /\ r.largest = 0 \/ \E k \in 1..Len(blocks) : blocks[k].free /\ blocks[k].size = r.largest
    BY <1>2 DEF Figures
  <2>3. \A k \in 1..Len(blocks) : blocks[k].size \in Nat
    BY BlockFields DEF Heap, Inside
  <2>4. n <= r.largest <=> \E k \in 1..Len(blocks) : blocks[k].free /\ n <= blocks[k].size
    BY <2>0, <2>2, <2>3
  <2> QED BY <2>1, <2>4
<1> QED BY <1>3, <1>4, <1>5 DEF r, ReportExact

\* After every operation the fragmentation report describes the bytes of the heap: the
\* total is the number of free bytes, the count that of the runs they form, and the
\* largest block the longest run, so an allocation fails only when the heap has not that
\* many free bytes in a row (external_fragmentation_pct, count_free_blocks, find_fit).
THEOREM ReportsAreExact == AllocSpec => []ReportExact
<1>1. IInv => ReportExact
  BY ReportsDescribe DEF IInv
<1> QED BY <1>1, AllocInductive, PTL

-----------------------------------------------------------------------------
(* How the program ends *)

\* What its argument decides: with one to four operations the first one ends it.
Endings ==
  /\ ops \in 1..4 => status # "done" /\ (status = "running" => i = 0)
  /\ status = "crashed" => ops \in 1..4

LEMMA EndingsStep == IInv /\ Endings /\ [AllocNext]_vars => Endings'
<1> SUFFICES ASSUME IInv, Endings, [AllocNext]_vars PROVE Endings'
  OBVIOUS
<1>0. ops \in Nat /\ i \in 0..ops
  BY Sane DEF IInv, AllocTypeOK
<1>1. ASSUME EndOp, status = "running", i < ops PROVE Endings'
  <2>1. ops' = ops /\ status' = IF ops \div 5 = 0 THEN "crashed" ELSE "running"
    BY <1>1 DEF EndOp
  <2>2. ops \div 5 = 0 <=> ops \in 1..4
    BY <1>0, <1>1
  <2> QED BY <2>1, <2>2 DEF Endings
<1>2. ASSUME NEW size \in Sizes, Alloc(size) \/ AllocFails(size) PROVE Endings'
  BY <1>1, <1>2 DEF Alloc, AllocFails, MayAlloc
<1>3. ASSUME NEW idx \in DOMAIN live_ids, Free(idx) PROVE Endings'
  BY <1>1, <1>3 DEF Free
<1>4. ASSUME SecondWorkload PROVE Endings'
  BY <1>0, <1>4 DEF SecondWorkload, Endings
<1>5. ASSUME Exit PROVE Endings'
  <2>1. ops \notin 1..4
    BY <1>0, <1>5 DEF Exit, Endings
  <2> QED BY <1>5, <2>1 DEF Exit, Endings
<1>6. ASSUME UNCHANGED vars PROVE Endings'
  BY <1>6 DEF vars, Endings
<1> QED BY <1>2, <1>3, <1>4, <1>5, <1>6 DEF AllocNext

\* The program divides by zero only when it was started with one to four operations, and
\* started so it never reaches its end (ops / 5 in the report test of run_workload); the
\* run checks that it does come to one of the two.
THEOREM CrashNeedsTooFew ==
  AllocSpec => []((status = "crashed" => ops \in 1..4) /\ (status = "done" => ops \notin 1..4))
<1>1. AllocInit => Endings
  BY DEF AllocInit, Endings
<1>2. Endings => (status = "crashed" => ops \in 1..4) /\ (status = "done" => ops \notin 1..4)
  BY DEF Endings
<1> QED BY <1>1, <1>2, EndingsStep, AllocInductive, PTL DEF AllocSpec

=============================================================================
