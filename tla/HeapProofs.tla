----------------------------- MODULE HeapProofs -----------------------------
(***************************************************************************)
(* Proofs about the heap, for every ABI, arena and set of requests, and    *)
(* about thread creation on it.                                            *)
(***************************************************************************)
EXTENDS ThreadsOnHeap, SequenceTheorems, FunctionTheorems, FiniteSetTheorems, TLAPS

-----------------------------------------------------------------------------
(* What inserting into and removing from the free list does. *)

\* Inserting e before position i, as list_insert does, shifts the rest by one.
LEMMA InsertAtProperties ==
  ASSUME NEW S, NEW s \in Seq(S), NEW i \in 1 .. Len(s) + 1, NEW e \in S
  PROVE  /\ InsertAt(s, i, e) \in Seq(S)
         /\ Len(InsertAt(s, i, e)) = Len(s) + 1
         /\ \A j \in 1 .. Len(s) + 1 :
              InsertAt(s, i, e)[j] = IF j < i THEN s[j]
                                     ELSE IF j = i THEN e ELSE s[j - 1]
<1> DEFINE front == SubSeq(s, 1, i - 1)
           back == SubSeq(s, i, Len(s))
           mid == front \o <<e>>
<1>1. /\ front \in Seq(S) /\ Len(front) = i - 1
      /\ \A j \in 1 .. i - 1 : front[j] = s[j]
  BY SubSeqProperties, ElementOfSeq
<1>2. /\ back \in Seq(S) /\ Len(back) = Len(s) - i + 1
      /\ \A j \in 1 .. Len(s) - i + 1 : back[j] = s[i + j - 1]
  BY SubSeqProperties, ElementOfSeq
<1>3. /\ mid \in Seq(S) /\ Len(mid) = i
      /\ \A j \in 1 .. i : mid[j] = IF j < i THEN s[j] ELSE e
  <2>1. <<e>> \in Seq(S) /\ Len(<<e>>) = 1 /\ <<e>>[1] = e
    OBVIOUS
  <2> HIDE DEF front
  <2> QED
    BY <1>1, <2>1, ConcatProperties
<1>4. InsertAt(s, i, e) = mid \o back
  BY DEF InsertAt
<1> HIDE DEF front, back, mid
<1>5. /\ mid \o back \in Seq(S)
      /\ Len(mid \o back) = Len(mid) + Len(back)
      /\ \A j \in 1 .. Len(mid) + Len(back) :
           (mid \o back)[j] = IF j <= Len(mid) THEN mid[j] ELSE back[j - Len(mid)]
  BY <1>2, <1>3, ConcatProperties
<1>6. Len(s) \in Nat /\ Len(mid) + Len(back) = Len(s) + 1
  BY <1>2, <1>3
<1>7. ASSUME NEW j \in 1 .. Len(s) + 1
      PROVE  (mid \o back)[j] = IF j < i THEN s[j]
                                ELSE IF j = i THEN e ELSE s[j - 1]
  <2>1. CASE j <= i
    BY <1>3, <1>5, <1>6, <2>1
  <2>2. CASE j > i
    <3>1. (mid \o back)[j] = back[j - i]
      BY <1>3, <1>5, <1>6, <2>2
    <3>2. j - i \in 1 .. Len(s) - i + 1
      BY <1>6, <2>2
    <3>3. back[j - i] = s[i + (j - i) - 1]
      BY <1>2, <3>2
    <3>4. i + (j - i) - 1 = j - 1
      BY <1>6, <2>2
    <3> QED
      BY <3>1, <3>3, <3>4, <2>2
  <2> QED
    BY <1>6, <2>1, <2>2
<1> QED
  BY <1>4, <1>5, <1>6, <1>7

\* Removing position i, as list_del does, closes the gap.
LEMMA RemoveAtProperties ==
  ASSUME NEW S, NEW s \in Seq(S), NEW i \in 1 .. Len(s)
  PROVE  /\ RemoveAt(s, i) \in Seq(S)
         /\ Len(RemoveAt(s, i)) = Len(s) - 1
         /\ \A j \in 1 .. Len(s) - 1 :
              RemoveAt(s, i)[j] = IF j < i THEN s[j] ELSE s[j + 1]
<1> DEFINE front == SubSeq(s, 1, i - 1)
           back == SubSeq(s, i + 1, Len(s))
<1>1. /\ front \in Seq(S) /\ Len(front) = i - 1
      /\ \A j \in 1 .. i - 1 : front[j] = s[j]
  BY SubSeqProperties, ElementOfSeq
<1>2. /\ back \in Seq(S) /\ Len(back) = Len(s) - i
      /\ \A j \in 1 .. Len(s) - i : back[j] = s[i + j]
  BY SubSeqProperties, ElementOfSeq
<1>3. RemoveAt(s, i) = front \o back
  BY DEF RemoveAt
<1> HIDE DEF front, back
<1>4. Len(s) \in Nat /\ Len(front) + Len(back) = Len(s) - 1
  BY <1>1, <1>2, LenProperties
<1>5. /\ front \o back \in Seq(S)
      /\ Len(front \o back) = Len(front) + Len(back)
      /\ \A j \in 1 .. Len(front) + Len(back) :
           (front \o back)[j] = IF j <= Len(front) THEN front[j]
                                                  ELSE back[j - Len(front)]
  BY <1>1, <1>2, ConcatProperties
<1>6. ASSUME NEW j \in 1 .. Len(s) - 1
      PROVE  (front \o back)[j] = IF j < i THEN s[j] ELSE s[j + 1]
  <2>1. CASE j < i
    BY <1>1, <1>4, <1>5, <2>1
  <2>2. CASE ~ (j < i)
    <3>1. (front \o back)[j] = back[j - (i - 1)]
      BY <1>1, <1>4, <1>5, <2>2
    <3>2. j - (i - 1) \in 1 .. Len(s) - i
      BY <1>4, <2>2
    <3>3. back[j - (i - 1)] = s[i + (j - (i - 1))]
      BY <1>2, <3>2
    <3>4. i + (j - (i - 1)) = j + 1
      BY <1>4
    <3> QED
      BY <2>2, <3>1, <3>3, <3>4
  <2> QED
    BY <1>4, <2>1, <2>2
<1> QED
  BY <1>3, <1>4, <1>5, <1>6

\* Rounding down to a multiple of p loses less than p.
LEMMA RoundDown ==
  ASSUME NEW x \in Nat, NEW p \in Nat \ {0}
  PROVE  /\ (x \div p) * p \in Nat
         /\ (x \div p) * p <= x
         /\ x < (x \div p) * p + p
<1>1. x = p * (x \div p) + (x % p) /\ x % p \in 0 .. p - 1
  OBVIOUS
<1>2. x \div p \in Nat
  OBVIOUS
<1> QED
  BY <1>1, <1>2

\* heap_add_block's first block starts less than a pointer into the array.
LEMMA FirstBlockInArena ==
  /\ FirstBlock \in Nat
  /\ HEAP_ADDR <= FirstBlock /\ FirstBlock < HEAP_ADDR + PTR_SZ
<1>1. HEAP_ADDR + PTR_SZ - 1 \in Nat /\ PTR_SZ \in Nat \ {0}
  BY AbiAssumption, ArenaAssumption
<1>2. FirstBlock = ((HEAP_ADDR + PTR_SZ - 1) \div PTR_SZ) * PTR_SZ
  BY DEF FirstBlock, AlignAddr
<1> QED
  BY <1>1, <1>2, RoundDown, ArenaAssumption

\* The size heap_malloc looks for is never negative, even when align_up wraps.
LEMMA AlignSizeNat ==
  ASSUME NEW n \in Nat
  PROVE  AlignSize(n) \in Nat
<1>1. n + PTR_SZ - 1 \in Nat /\ SIZE_MOD \in Nat \ {0} /\ PTR_SZ \in Nat \ {0}
  BY AbiAssumption
<1>2. (n + PTR_SZ - 1) % SIZE_MOD \in Nat
  BY <1>1
<1> QED
  BY <1>1, <1>2, RoundDown DEF AlignSize

\* Sorted lists hold each block once, so list operations are set operations.
Sorted(s) == \A i, j \in 1 .. Len(s) : i < j => s[i] < s[j]

\* The members of a list after a node is linked in.
LEMMA InsertAtMembers ==
  ASSUME NEW S \in SUBSET Nat, NEW s \in Seq(S), NEW i \in 1 .. Len(s) + 1, NEW e \in S
  PROVE  ToSet(InsertAt(s, i, e)) = ToSet(s) \union {e}
<1> DEFINE t == InsertAt(s, i, e)
<1>0. Len(s) \in Nat
  BY LenProperties
<1>1. /\ t \in Seq(S) /\ Len(t) = Len(s) + 1
      /\ \A j \in 1 .. Len(s) + 1 :
           t[j] = IF j < i THEN s[j] ELSE IF j = i THEN e ELSE s[j - 1]
  <2>1. t \in Seq(S)
    BY InsertAtProperties
  <2>2. Len(t) = Len(s) + 1
    BY InsertAtProperties
  <2>3. ASSUME NEW j \in 1 .. Len(s) + 1
        PROVE  t[j] = IF j < i THEN s[j] ELSE IF j = i THEN e ELSE s[j - 1]
    BY <1>0, InsertAtProperties
  <2> QED
    BY <2>1, <2>2, <2>3
<1> HIDE DEF t
<1>2. DOMAIN t = 1 .. Len(s) + 1 /\ DOMAIN s = 1 .. Len(s)
  BY <1>1, LenProperties
<1>3. ASSUME NEW j \in 1 .. Len(s) + 1
      PROVE  t[j] \in ToSet(s) \union {e}
  <2>1. CASE j < i
    <3>1. t[j] = s[j] /\ j \in DOMAIN s
      BY <1>0, <1>1, <1>2, <2>1
    <3> QED
      BY <3>1 DEF ToSet
  <2>2. CASE j = i
    BY <1>1, <2>2
  <2>3. CASE j > i
    <3>1. t[j] = s[j - 1] /\ j - 1 \in DOMAIN s
      BY <1>0, <1>1, <1>2, <2>3
    <3> QED
      BY <3>1 DEF ToSet
  <2> QED
    BY <1>0, <2>1, <2>2, <2>3
<1>4. e \in ToSet(t)
  BY <1>0, <1>1, <1>2 DEF ToSet
<1>5. ASSUME NEW j \in 1 .. Len(s)
      PROVE  s[j] \in ToSet(t)
  <2>1. CASE j < i
    <3>1. t[j] = s[j] /\ j \in DOMAIN t
      BY <1>0, <1>1, <1>2, <2>1
    <3> QED
      BY <3>1 DEF ToSet
  <2>2. CASE ~ (j < i)
    <3>1. t[j + 1] = s[j + 1 - 1] /\ j + 1 \in DOMAIN t /\ j + 1 - 1 = j
      BY <1>0, <1>1, <1>2, <2>2
    <3> QED
      BY <3>1 DEF ToSet
  <2> QED
    BY <2>1, <2>2
<1> QED
  BY <1>2, <1>3, <1>4, <1>5 DEF ToSet, t

\* The members of a sorted list after the node at position i is unlinked.
LEMMA RemoveAtMembers ==
  ASSUME NEW S \in SUBSET Nat, NEW s \in Seq(S), Sorted(s), NEW i \in 1 .. Len(s)
  PROVE  ToSet(RemoveAt(s, i)) = ToSet(s) \ {s[i]}
<1> DEFINE t == RemoveAt(s, i)
<1>1. /\ t \in Seq(S) /\ Len(t) = Len(s) - 1 /\ Len(s) \in Nat
      /\ \A j \in 1 .. Len(s) - 1 : t[j] = IF j < i THEN s[j] ELSE s[j + 1]
  BY RemoveAtProperties, LenProperties
<1> HIDE DEF t
<1>2. DOMAIN t = 1 .. Len(s) - 1 /\ DOMAIN s = 1 .. Len(s)
  BY <1>1, LenProperties
<1>3. \A j \in 1 .. Len(s) : s[j] \in Nat
  BY ElementOfSeq
<1>4. ASSUME NEW j \in 1 .. Len(s) - 1
      PROVE  t[j] \in ToSet(s) \ {s[i]}
  <2>1. CASE j < i
    <3>1. t[j] = s[j] /\ j \in DOMAIN s /\ s[j] < s[i]
      BY <1>1, <1>2, <2>1 DEF Sorted
    <3> QED
      BY <1>2, <1>3, <3>1 DEF ToSet
  <2>2. CASE ~ (j < i)
    <3>1. t[j] = s[j + 1] /\ j + 1 \in DOMAIN s /\ s[i] < s[j + 1]
      BY <1>1, <1>2, <2>2 DEF Sorted
    <3> QED
      BY <1>2, <1>3, <3>1 DEF ToSet
  <2> QED
    BY <2>1, <2>2
<1>5. ASSUME NEW j \in 1 .. Len(s), s[j] # s[i]
      PROVE  s[j] \in ToSet(t)
  <2>1. CASE j < i
    <3>1. t[j] = s[j] /\ j \in DOMAIN t
      BY <1>1, <1>2, <2>1
    <3> QED
      BY <3>1 DEF ToSet
  <2>2. CASE ~ (j < i)
    <3>1. j > i
      BY <1>1, <1>5, <2>2
    <3>2. t[j - 1] = s[j - 1 + 1] /\ j - 1 \in DOMAIN t /\ j - 1 + 1 = j
      BY <1>1, <1>2, <3>1
    <3> QED
      BY <3>2 DEF ToSet
  <2> QED
    BY <2>1, <2>2
<1> QED
  BY <1>2, <1>4, <1>5 DEF ToSet, t

\* Replacing the node at position i leaves the others where they are.
LEMMA ReplaceAtProperties ==
  ASSUME NEW S, NEW s \in Seq(S), NEW i \in 1 .. Len(s), NEW e \in S
  PROVE  /\ ReplaceAt(s, i, e) \in Seq(S)
         /\ Len(ReplaceAt(s, i, e)) = Len(s)
         /\ \A j \in 1 .. Len(s) :
              ReplaceAt(s, i, e)[j] = IF j = i THEN e ELSE s[j]
BY LenProperties, ElementOfSeq DEF ReplaceAt

\* The members of a sorted list after the node at position i is replaced.
LEMMA ReplaceAtMembers ==
  ASSUME NEW S \in SUBSET Nat, NEW s \in Seq(S), Sorted(s), NEW i \in 1 .. Len(s),
         NEW e \in S
  PROVE  ToSet(ReplaceAt(s, i, e)) = (ToSet(s) \ {s[i]}) \union {e}
<1> DEFINE t == ReplaceAt(s, i, e)
<1>1. /\ Len(s) \in Nat /\ DOMAIN s = 1 .. Len(s)
      /\ \A j \in 1 .. Len(s) : s[j] \in Nat
  BY LenProperties, ElementOfSeq
<1>2. /\ DOMAIN t = 1 .. Len(s)
      /\ \A j \in 1 .. Len(s) : t[j] = IF j = i THEN e ELSE s[j]
  BY <1>1 DEF ReplaceAt
<1> HIDE DEF t
<1>3. \A j, k \in 1 .. Len(s) : j # k => s[j] # s[k]
  BY <1>1 DEF Sorted
<1> QED
  BY <1>1, <1>2, <1>3 DEF ToSet, t

\* Unlinking a node keeps a list sorted.
LEMMA RemoveAtSorted ==
  ASSUME NEW S \in SUBSET Nat, NEW s \in Seq(S), Sorted(s), NEW i \in 1 .. Len(s)
  PROVE  Sorted(RemoveAt(s, i))
<1> DEFINE t == RemoveAt(s, i)
           old(j) == IF j < i THEN j ELSE j + 1
<1>1. /\ Len(t) = Len(s) - 1 /\ Len(s) \in Nat
      /\ \A j \in 1 .. Len(s) - 1 : t[j] = IF j < i THEN s[j] ELSE s[j + 1]
  BY RemoveAtProperties, LenProperties
<1> HIDE DEF t
<1>2. ASSUME NEW j \in 1 .. Len(t), NEW k \in 1 .. Len(t), j < k
      PROVE  t[j] < t[k]
  <2>1. t[j] = s[old(j)] /\ t[k] = s[old(k)]
    BY <1>1
  <2>2. old(j) \in 1 .. Len(s) /\ old(k) \in 1 .. Len(s) /\ old(j) < old(k)
    BY <1>1, <1>2
  <2> HIDE DEF old
  <2> QED
    BY <2>1, <2>2 DEF Sorted
<1> QED
  BY <1>2 DEF Sorted, t

\* Linking in a node between smaller and larger ones keeps a list sorted.
LEMMA InsertAtSorted ==
  ASSUME NEW S \in SUBSET Nat, NEW s \in Seq(S), Sorted(s),
         NEW i \in 1 .. Len(s) + 1, NEW e \in S,
         \A j \in 1 .. Len(s) : IF j < i THEN s[j] < e ELSE e < s[j]
  PROVE  Sorted(InsertAt(s, i, e))
<1> DEFINE t == InsertAt(s, i, e)
<1>1. /\ Len(t) = Len(s) + 1 /\ Len(s) \in Nat
      /\ \A j \in 1 .. Len(s) + 1 :
           t[j] = IF j < i THEN s[j] ELSE IF j = i THEN e ELSE s[j - 1]
  <2>1. Len(s) \in Nat
    BY LenProperties
  <2> QED
    BY <2>1, InsertAtProperties
<1> HIDE DEF t
<1>2. ASSUME NEW j \in 1 .. Len(t), NEW k \in 1 .. Len(t), j < k
      PROVE  t[j] < t[k]
  <2>1. CASE k < i
    BY <1>1, <1>2, <2>1 DEF Sorted
  <2>2. CASE k = i
    BY <1>1, <1>2, <2>2
  <2>3. CASE k > i
    <3>1. t[k] = s[k - 1] /\ k - 1 \in 1 .. Len(s) /\ ~ (k - 1 < i)
      BY <1>1, <2>3
    <3>2. CASE j < i
      <4>1. t[j] = s[j] /\ j \in 1 .. Len(s) /\ j < k - 1
        BY <1>1, <3>1, <3>2
      <4>2. s[j] < s[k - 1]
        BY <3>1, <4>1 DEF Sorted
      <4> QED
        BY ONLY <3>1, <4>1, <4>2
    <3>3. CASE j = i
      BY <1>1, <3>1, <3>3
    <3>4. CASE j > i
      <4>1. t[j] = s[j - 1] /\ j - 1 \in 1 .. Len(s) /\ j - 1 < k - 1
        BY <1>1, <1>2, <3>4
      <4> QED
        BY <3>1, <4>1 DEF Sorted
    <3> QED
      BY <1>1, <3>2, <3>3, <3>4
  <2> QED
    BY <1>1, <2>1, <2>2, <2>3
<1> QED
  BY <1>2 DEF Sorted, t

-----------------------------------------------------------------------------
(***************************************************************************)
(* The inductive invariant.  Nothing can be said of a heap whose drift has *)
(* reached a header's size, and the drift never shrinks: so Core is asked  *)
(* for as long as the drift is low.  Core's parts need one another: the    *)
(* list operations keep the list sorted because a split's new header lies  *)
(* between its block and the next one (HeadersApart), which holds because  *)
(* no block claims a whole header of its neighbour (ClaimsBounded), and    *)
(* coalescing leaves no gap only because what it joins are neighbours.     *)
(***************************************************************************)
Core ==
  /\ TypeOK
  /\ FreeListSorted
  /\ EveryBlockHasOneOwner
  /\ HeadersApart
  /\ ClaimsBounded
  /\ ArenaCovered

IInv ==
  /\ drift \in Nat
  /\ LowDrift => Core

LEMMA DriftGrows ==
  ASSUME drift \in Nat, [Next]_vars
  PROVE  drift' \in Nat /\ drift <= drift'
BY AbiAssumption
   DEF Next, vars, HeapInit, Malloc, MallocFails, Free, Absorb, Advance, FreeReturns

\* What Core says of the members of the free list.
LEMMA ListFacts ==
  ASSUME Core
  PROVE  /\ Len(free_list) \in Nat
         /\ DOMAIN free_list = 1 .. Len(free_list)
         /\ Blocks \in SUBSET Nat
         /\ free_list \in Seq(Blocks)
         /\ Sorted(free_list)
         /\ \A i \in 1 .. Len(free_list) :
              /\ free_list[i] \in Blocks
              /\ free_list[i] \in Nat
              /\ free_list[i] \in ToSet(free_list)
              /\ free_list[i] \notin vended
<1>1. free_list \in Seq(Blocks) /\ Blocks \in SUBSET Nat
  BY DEF Core, TypeOK
<1>2. Len(free_list) \in Nat /\ DOMAIN free_list = 1 .. Len(free_list)
  BY <1>1, LenProperties
<1>3. \A i \in 1 .. Len(free_list) : free_list[i] \in Blocks
  BY <1>1, ElementOfSeq
<1>4. \A i \in 1 .. Len(free_list) : free_list[i] \in ToSet(free_list)
  BY <1>2 DEF ToSet
<1>5. Sorted(free_list)
  BY DEF Core, FreeListSorted, Sorted
<1> QED
  BY <1>1, <1>2, <1>3, <1>4, <1>5 DEF Core, EveryBlockHasOneOwner

\* What Core says of the headers and the claims.
LEMMA LayoutFacts ==
  ASSUME Core
  PROVE  /\ drift \in Nat /\ HeapEnd \in Nat /\ FirstBlock \in Nat
         /\ \A b \in Blocks :
              /\ b \in Nat /\ size[b] \in Nat /\ BlockEnd(b) \in Nat
              /\ BlockEnd(b) = b + ALLOC_HEADER_SZ + size[b]
              /\ FirstBlock <= b /\ b + ALLOC_HEADER_SZ <= HeapEnd
              /\ BlockEnd(b) <= HeapEnd + drift
         /\ \A b, c \in Blocks :
              b < c => b + ALLOC_HEADER_SZ <= c /\ BlockEnd(b) <= c + drift
<1>1. drift \in Nat /\ HeapEnd \in Nat /\ FirstBlock \in Nat
  BY FirstBlockInArena, ArenaAssumption DEF HeapEnd, Core, TypeOK
<1>2. \A b \in Blocks : b \in Nat /\ size[b] \in Nat
  BY DEF Core, TypeOK
<1>3. \A b \in Blocks : /\ BlockEnd(b) \in Nat
                         /\ BlockEnd(b) = b + ALLOC_HEADER_SZ + size[b]
  BY <1>2, AbiAssumption DEF BlockEnd
<1>4. \A b \in Blocks : /\ FirstBlock <= b /\ b + ALLOC_HEADER_SZ <= HeapEnd
                         /\ BlockEnd(b) <= HeapEnd + drift
  BY DEF Core, HeadersApart, ClaimsBounded
<1>5. \A b, c \in Blocks :
        b < c => b + ALLOC_HEADER_SZ <= c /\ BlockEnd(b) <= c + drift
  BY DEF Core, HeadersApart, ClaimsBounded
<1> QED
  BY <1>1, <1>2, <1>3, <1>4, <1>5

\* heap_init's one block fills the arena.
LEMMA HeapInitStep ==
  ASSUME Core, HeapInit
  PROVE  Core'
<1> DEFINE sz == HEAP_ADDR + HEAP_SIZE - FirstBlock - ALLOC_HEADER_SZ
<1>1. /\ FirstBlock \in Nat /\ sz \in Nat /\ HeapEnd \in Nat
      /\ FirstBlock + ALLOC_HEADER_SZ + sz = HeapEnd
      /\ FirstBlock + ALLOC_HEADER_SZ <= HeapEnd
  BY FirstBlockInArena, AbiAssumption, ArenaAssumption DEF HeapEnd
<1>2. size' = [b \in {FirstBlock} |-> sz] /\ free_list' = <<FirstBlock>>
  BY DEF HeapInit
<1> HIDE DEF sz
<1>3. /\ Blocks' = {FirstBlock} /\ size'[FirstBlock] = sz
      /\ size' \in [Blocks' -> Nat]
  BY <1>1, <1>2 DEF Blocks
<1>4. /\ free_list' \in Seq(Blocks') /\ Len(free_list') = 1
      /\ free_list'[1] = FirstBlock /\ ToSet(free_list') = {FirstBlock}
  BY <1>2, <1>3 DEF ToSet
<1>5. free_list = <<>> /\ vended = {}
  BY DEF Core, TypeOK, HeapInit
<1>6. /\ vended' = vended /\ want' = want /\ drift' = drift /\ cursor' = cursor
      /\ cursor \in 0 .. 1
  BY <1>5 DEF HeapInit, Core, TypeOK
<1>7. TypeOK'
  BY <1>1, <1>3, <1>4, <1>5, <1>6 DEF Core, TypeOK
<1>8. FreeListSorted'
  BY <1>4 DEF FreeListSorted
<1>9. EveryBlockHasOneOwner'
  BY <1>3, <1>4, <1>5, <1>6 DEF EveryBlockHasOneOwner
<1>10. HeadersApart'
  BY <1>1, <1>3 DEF HeadersApart
<1>11. ClaimsBounded'
  BY <1>1, <1>3, <1>6, AbiAssumption DEF ClaimsBounded, BlockEnd, Core, TypeOK
<1>12. ArenaCovered'
  BY <1>1, <1>3, AbiAssumption DEF ArenaCovered, BlockEnd
<1> QED
  BY <1>7, <1>8, <1>9, <1>10, <1>11, <1>12 DEF Core

\* The books a client's allocation changes besides the free list.
HandOut(blk, request) ==
  /\ vended' = vended \union {blk}
  /\ want' = [b \in vended' |-> IF b = blk THEN request ELSE want[b]]
  /\ UNCHANGED <<cursor, drift>>

\* Handing out a whole block.
LEMMA WholeBlockStep ==
  ASSUME Core, cursor = 0, NEW request \in Nat,
         NEW i \in 1 .. Len(free_list), NEW n \in Nat,
         WholeBlock(i, n), HandOut(free_list[i], request)
  PROVE  Core'
<1>1. /\ free_list[i] \in Blocks
      /\ size' = size /\ Blocks' = Blocks /\ drift' = drift /\ cursor' = 0
      /\ vended' = vended \union {free_list[i]}
  BY ListFacts DEF WholeBlock, HandOut, Blocks
<1>2. /\ free_list' \in Seq(Blocks) /\ Len(free_list') = Len(free_list) - 1
      /\ \A j \in 1 .. Len(free_list) - 1 :
           free_list'[j] = IF j < i THEN free_list[j] ELSE free_list[j + 1]
      /\ ToSet(free_list') = ToSet(free_list) \ {free_list[i]}
  BY ListFacts, RemoveAtProperties, RemoveAtMembers DEF WholeBlock
<1>3. TypeOK'
  <2>1. want' \in [vended' -> Nat]
    BY <1>1 DEF HandOut, Core, TypeOK
  <2>2. cursor' \in 0 .. Len(free_list') + 1
    BY <1>1, <1>2, LenProperties
  <2>3. /\ Blocks' \subseteq Nat /\ size' \in [Blocks' -> Nat]
        /\ vended' \in SUBSET Blocks' /\ drift' \in Nat
    BY <1>1 DEF Core, TypeOK
  <2> QED
    BY <1>1, <1>2, <2>1, <2>2, <2>3 DEF TypeOK
<1>4. FreeListSorted'
  <2>1. Sorted(free_list')
    BY ListFacts, RemoveAtSorted DEF WholeBlock
  <2> QED
    BY <2>1 DEF FreeListSorted, Sorted
<1>5. EveryBlockHasOneOwner'
  BY <1>1, <1>2, ListFacts DEF Core, EveryBlockHasOneOwner
<1>6. HeadersApart' /\ ClaimsBounded' /\ ArenaCovered'
  BY <1>1 DEF Core, HeadersApart, ClaimsBounded, ArenaCovered, BlockEnd
<1> QED
  BY <1>3, <1>4, <1>5, <1>6 DEF Core

\* SplitBlock with its two addresses named.
SplitAt(i, n, blk, new_blk) ==
  /\ SplitBlock(i, n)
  /\ blk = free_list[i]
  /\ new_blk = blk + ALLOC_HEADER_SZ + n

\* Splitting a block: the new header lies between the block's and the next one,
\* because the block claims less than a header of its neighbour.
LEMMA SplitFits ==
  ASSUME Core, LowDrift,
         NEW i \in 1 .. Len(free_list), NEW n \in Nat,
         NEW blk \in Nat, NEW new_blk \in Nat, SplitAt(i, n, blk, new_blk)
  PROVE  /\ blk \in Blocks /\ blk \notin vended
         /\ blk + ALLOC_HEADER_SZ <= new_blk
         /\ new_blk + ALLOC_HEADER_SZ <= HeapEnd
         /\ BlockEnd(blk) = blk + ALLOC_HEADER_SZ + size[blk]
         /\ new_blk + ALLOC_HEADER_SZ <= BlockEnd(blk) - ALLOC_HEADER_SZ
         /\ \A c \in Blocks : IF c <= blk THEN c + ALLOC_HEADER_SZ <= new_blk
                                          ELSE new_blk + ALLOC_HEADER_SZ <= c
         /\ new_blk \notin Blocks /\ new_blk # blk
         /\ Blocks' = Blocks \union {new_blk}
         /\ size'[new_blk] = size[blk] - n - ALLOC_HEADER_SZ
         /\ size'[blk] = n
         /\ \A b \in Blocks : b # blk => size'[b] = size[b]
         /\ size' \in [Blocks' -> Nat]
<1>1. /\ blk \in Blocks /\ blk \in Nat /\ blk \in ToSet(free_list)
      /\ size[blk] \in Nat /\ drift \in Nat /\ HeapEnd \in Nat
      /\ ALLOC_HEADER_SZ \in Nat \ {0} /\ MIN_PAYLOAD \in Nat
      /\ ALLOC_HEADER_SZ <= MIN_PAYLOAD /\ drift < ALLOC_HEADER_SZ
  <2>1. blk = free_list[i]
    BY DEF SplitAt
  <2>2. blk \in Blocks /\ blk \in ToSet(free_list)
    BY <2>1, ListFacts
  <2>3. size[blk] \in Nat /\ drift \in Nat
    BY <2>2 DEF Core, TypeOK
  <2>4. HeapEnd \in Nat
    BY ArenaAssumption DEF HeapEnd
  <2> QED
    BY <2>2, <2>3, <2>4, AbiAssumption DEF LowDrift
<1>2. /\ size[blk] - n >= ALLOC_HEADER_SZ + MIN_PAYLOAD
      /\ size' = [b \in Blocks \union {new_blk} |->
                    IF b = new_blk THEN size[blk] - n - ALLOC_HEADER_SZ
                    ELSE IF b = blk THEN n ELSE size[b]]
      /\ free_list' = ReplaceAt(free_list, i, new_blk)
  BY DEF SplitAt, SplitBlock, MIN_ALLOC_SZ
<1>4. /\ new_blk \in Nat /\ blk + ALLOC_HEADER_SZ <= new_blk
      /\ new_blk + ALLOC_HEADER_SZ <= HeapEnd
      /\ BlockEnd(blk) = blk + ALLOC_HEADER_SZ + size[blk]
      /\ new_blk + ALLOC_HEADER_SZ <= BlockEnd(blk) - ALLOC_HEADER_SZ
  <2>1. /\ BlockEnd(blk) = blk + ALLOC_HEADER_SZ + size[blk]
        /\ BlockEnd(blk) <= HeapEnd + drift
    BY <1>1, LayoutFacts
  <2>2. new_blk = blk + ALLOC_HEADER_SZ + n
    BY DEF SplitAt
  <2>3. size[blk] - n >= ALLOC_HEADER_SZ + MIN_PAYLOAD
    BY <1>2
  <2> QED
    BY <1>1, <2>1, <2>2, <2>3
<1>5. \A c \in Blocks : IF c <= blk THEN c + ALLOC_HEADER_SZ <= new_blk
                                     ELSE new_blk + ALLOC_HEADER_SZ <= c
  <2> SUFFICES ASSUME NEW c \in Blocks
               PROVE  IF c <= blk THEN c + ALLOC_HEADER_SZ <= new_blk
                                  ELSE new_blk + ALLOC_HEADER_SZ <= c
    OBVIOUS
  <2>1. c \in Nat /\ c + ALLOC_HEADER_SZ \in Nat
    BY <1>1, LayoutFacts
  <2>2. CASE c <= blk
    <3>1. c = blk \/ c + ALLOC_HEADER_SZ <= blk
      BY <1>1, <2>1, <2>2, LayoutFacts
    <3> QED
      BY <1>1, <1>4, <2>1, <2>2, <3>1
  <2>3. CASE c > blk
    <3>1. BlockEnd(blk) <= c + drift /\ BlockEnd(blk) \in Nat
      BY <1>1, <2>1, <2>3, LayoutFacts
    <3> QED
      BY <1>1, <1>4, <2>1, <2>3, <3>1
  <2> QED
    BY <1>1, <2>1, <2>2, <2>3
<1>6. new_blk \notin Blocks /\ new_blk # blk
  BY <1>1, <1>4, <1>5
<1>7. /\ Blocks' = Blocks \union {new_blk}
      /\ size'[new_blk] = size[blk] - n - ALLOC_HEADER_SZ
      /\ size'[blk] = n
      /\ \A b \in Blocks : b # blk => size'[b] = size[b]
      /\ size' \in [Blocks' -> Nat]
  <2>1. Blocks' = Blocks \union {new_blk}
    BY <1>2 DEF Blocks
  <2>2. size[blk] - n - ALLOC_HEADER_SZ \in Nat /\ \A b \in Blocks : size[b] \in Nat
    BY <1>1, <1>2 DEF Core, TypeOK
  <2> QED
    BY <1>1, <1>2, <1>6, <2>1, <2>2
<1>8. blk \notin vended
  BY ListFacts DEF SplitAt
<1> QED
  BY <1>1, <1>4, <1>5, <1>6, <1>7, <1>8

\* heap_malloc's split.
LEMMA SplitBlockStep ==
  ASSUME Core, LowDrift, cursor = 0, NEW request \in Nat,
         NEW i \in 1 .. Len(free_list), NEW n \in Nat,
         NEW blk \in Nat, NEW new_blk \in Nat,
         SplitAt(i, n, blk, new_blk), HandOut(blk, request)
  PROVE  Core'
<1>1. /\ blk \in Blocks /\ blk \in Nat /\ blk \in ToSet(free_list)
      /\ size[blk] \in Nat /\ drift \in Nat /\ HeapEnd \in Nat
      /\ ALLOC_HEADER_SZ \in Nat \ {0} /\ MIN_PAYLOAD \in Nat
      /\ ALLOC_HEADER_SZ <= MIN_PAYLOAD /\ drift < ALLOC_HEADER_SZ
  <2>1. blk = free_list[i]
    BY DEF SplitAt
  <2>2. blk \in Blocks /\ blk \in ToSet(free_list)
    BY <2>1, ListFacts
  <2>3. size[blk] \in Nat /\ drift \in Nat
    BY <2>2 DEF Core, TypeOK
  <2>4. HeapEnd \in Nat
    BY ArenaAssumption DEF HeapEnd
  <2> QED
    BY <2>2, <2>3, <2>4, AbiAssumption DEF LowDrift
<1>2. /\ size[blk] - n >= ALLOC_HEADER_SZ + MIN_PAYLOAD
      /\ size' = [b \in Blocks \union {new_blk} |->
                    IF b = new_blk THEN size[blk] - n - ALLOC_HEADER_SZ
                    ELSE IF b = blk THEN n ELSE size[b]]
      /\ free_list' = ReplaceAt(free_list, i, new_blk)
  BY DEF SplitAt, SplitBlock, MIN_ALLOC_SZ
<1>3. /\ vended' = vended \union {blk} /\ cursor' = 0 /\ drift' = drift
      /\ want' = [b \in vended' |-> IF b = blk THEN request ELSE want[b]]
  BY DEF HandOut
<1>4. /\ new_blk \in Nat /\ blk + ALLOC_HEADER_SZ <= new_blk
      /\ new_blk + ALLOC_HEADER_SZ <= HeapEnd
      /\ BlockEnd(blk) = blk + ALLOC_HEADER_SZ + size[blk]
      /\ new_blk + ALLOC_HEADER_SZ <= BlockEnd(blk) - ALLOC_HEADER_SZ
  BY SplitFits
<1>5. \A c \in Blocks : IF c <= blk THEN c + ALLOC_HEADER_SZ <= new_blk
                                     ELSE new_blk + ALLOC_HEADER_SZ <= c
  BY SplitFits
<1>6. new_blk \notin Blocks /\ new_blk # blk
  BY SplitFits
<1>7. /\ Blocks' = Blocks \union {new_blk}
      /\ size'[new_blk] = size[blk] - n - ALLOC_HEADER_SZ
      /\ size'[blk] = n
      /\ \A b \in Blocks : b # blk => size'[b] = size[b]
      /\ size' \in [Blocks' -> Nat]
  BY SplitFits
<1>8. /\ BlockEnd(new_blk)' = BlockEnd(blk)
      /\ BlockEnd(blk)' = new_blk
      /\ \A b \in Blocks : b # blk => BlockEnd(b)' = BlockEnd(b)
  <2>0. new_blk = blk + ALLOC_HEADER_SZ + n
    BY DEF SplitAt
  <2>1. BlockEnd(new_blk)' = BlockEnd(blk)
    <3>1. BlockEnd(new_blk)' = new_blk + ALLOC_HEADER_SZ + (size[blk] - n - ALLOC_HEADER_SZ)
      BY <1>7 DEF BlockEnd
    <3>2. BlockEnd(blk) = blk + ALLOC_HEADER_SZ + size[blk]
      BY <1>4
    <3>3. new_blk + ALLOC_HEADER_SZ + (size[blk] - n - ALLOC_HEADER_SZ)
            = blk + ALLOC_HEADER_SZ + size[blk]
      BY ONLY <1>1, <2>0, n \in Nat
    <3> QED
      BY ONLY <3>1, <3>2, <3>3
  <2>2. BlockEnd(blk)' = new_blk
    <3>1. BlockEnd(blk)' = blk + ALLOC_HEADER_SZ + n
      BY <1>7 DEF BlockEnd
    <3> QED
      BY ONLY <2>0, <3>1
  <2> QED
    BY <1>7, <2>1, <2>2 DEF BlockEnd
<1>9. /\ free_list' \in Seq(Blocks') /\ Len(free_list') = Len(free_list)
      /\ \A j \in 1 .. Len(free_list) :
           free_list'[j] = IF j = i THEN new_blk ELSE free_list[j]
      /\ ToSet(free_list') = (ToSet(free_list) \ {blk}) \union {new_blk}
  <2>1. /\ Blocks' \in SUBSET Nat /\ free_list \in Seq(Blocks') /\ Sorted(free_list)
        /\ new_blk \in Blocks' /\ blk = free_list[i]
    BY <1>4, <1>7, ListFacts DEF SplitAt
  <2>2. /\ free_list' \in Seq(Blocks') /\ Len(free_list') = Len(free_list)
        /\ \A j \in 1 .. Len(free_list) :
             free_list'[j] = IF j = i THEN new_blk ELSE free_list[j]
    <3> DEFINE T == Blocks'
    <3>1. free_list \in Seq(T) /\ new_blk \in T
      BY <2>1
    <3>2. free_list' = ReplaceAt(free_list, i, new_blk)
      BY <1>2
    <3> HIDE DEF T
    <3>3. /\ ReplaceAt(free_list, i, new_blk) \in Seq(T)
          /\ Len(ReplaceAt(free_list, i, new_blk)) = Len(free_list)
          /\ \A j \in 1 .. Len(free_list) :
               ReplaceAt(free_list, i, new_blk)[j] = IF j = i THEN new_blk ELSE free_list[j]
      BY <3>1, ReplaceAtProperties
    <3> QED
      BY <3>2, <3>3 DEF T
  <2>3. ToSet(free_list') = (ToSet(free_list) \ {blk}) \union {new_blk}
    BY <1>2, <2>1, ReplaceAtMembers
  <2> QED
    BY <2>2, <2>3
<1>10. TypeOK'
  <2>1. want' \in [vended' -> Nat]
    BY <1>3 DEF Core, TypeOK
  <2>2. Blocks' \subseteq Nat /\ vended' \in SUBSET Blocks'
    BY <1>1, <1>3, <1>4, <1>7 DEF Core, TypeOK
  <2>3. cursor' \in 0 .. Len(free_list') + 1
    BY <1>3, <1>9, ListFacts
  <2> QED
    BY <1>1, <1>3, <1>7, <1>9, <2>1, <2>2, <2>3 DEF TypeOK
<1>11. FreeListSorted'
  <2> SUFFICES ASSUME NEW j \in 1 .. Len(free_list), NEW k \in 1 .. Len(free_list), j < k
               PROVE  free_list'[j] < free_list'[k]
    BY <1>9 DEF FreeListSorted
  <2>1. free_list[j] < free_list[k] /\ free_list[j] \in Blocks /\ free_list[k] \in Blocks
        /\ free_list[j] \in Nat /\ free_list[k] \in Nat
    BY ListFacts DEF Sorted
  <2>0. blk = free_list[i]
    BY DEF SplitAt
  <2>2. CASE k = i
    <3>1. free_list'[k] = new_blk /\ free_list'[j] = free_list[j] /\ free_list[j] < blk
      BY <1>9, <2>0, <2>1, <2>2
    <3> QED
      BY ONLY <1>1, <1>4, <2>1, <3>1
  <2>3. CASE j = i
    <3>1. free_list'[j] = new_blk /\ free_list'[k] = free_list[k] /\ ~ free_list[k] <= blk
      BY <1>1, <1>9, <2>0, <2>1, <2>3
    <3>2. new_blk + ALLOC_HEADER_SZ <= free_list[k]
      BY <1>5, <2>1, <3>1
    <3> QED
      BY ONLY <1>1, <1>4, <2>1, <3>1, <3>2
  <2> QED
    BY <1>9, <2>1, <2>2, <2>3
<1>12. EveryBlockHasOneOwner'
  <2>1. /\ ToSet(free_list) \intersect vended = {}
        /\ ToSet(free_list) \union vended = Blocks
    BY DEF Core, EveryBlockHasOneOwner
  <2> QED
    BY <1>1, <1>3, <1>6, <1>7, <1>9, <2>1 DEF EveryBlockHasOneOwner
<1>13. HeadersApart'
  <2>1. \A b \in Blocks' : FirstBlock <= b /\ b + ALLOC_HEADER_SZ <= HeapEnd
    <3>1. FirstBlock <= new_blk
      BY <1>1, <1>4, LayoutFacts
    <3> QED
      BY <1>4, <1>7, <3>1, LayoutFacts
  <2>2. ASSUME NEW b \in Blocks', NEW c \in Blocks', b < c
        PROVE  b + ALLOC_HEADER_SZ <= c
    <3>1. CASE b \in Blocks /\ c \in Blocks
      BY <2>2, <3>1, LayoutFacts
    <3>2. CASE b \in Blocks /\ c = new_blk
      BY <1>1, <1>4, <1>5, <2>2, <3>2, LayoutFacts
    <3>3. CASE b = new_blk /\ c \in Blocks
      BY <1>1, <1>4, <1>5, <2>2, <3>3, LayoutFacts
    <3> QED
      BY <1>4, <1>7, <2>2, <3>1, <3>2, <3>3
  <2> QED
    BY <2>1, <2>2 DEF HeadersApart
<1>14. ClaimsBounded'
  <2>1. \A b \in Blocks' : BlockEnd(b)' <= HeapEnd + drift
    <3>1. ASSUME NEW b \in Blocks'
          PROVE  BlockEnd(b)' <= HeapEnd + drift
      <4>1. CASE b = new_blk
        BY <1>1, <1>8, <4>1, LayoutFacts
      <4>2. CASE b = blk
        BY <1>1, <1>4, <1>8, <4>2
      <4>3. CASE b \in Blocks /\ b # blk
        BY <1>8, <4>3, LayoutFacts
      <4> QED
        BY <1>7, <4>1, <4>2, <4>3
    <3> QED
      BY <3>1
  <2>2. ASSUME NEW b \in Blocks', NEW c \in Blocks', b < c
        PROVE  BlockEnd(b)' <= c + drift
    <3>1. CASE b = new_blk
      <4>1. c \in Blocks /\ c \in Nat /\ blk < c
        <5>1. c \in Blocks
          BY <1>4, <1>7, <2>2, <3>1
        <5> QED
          BY <1>1, <1>4, <1>5, <2>2, <3>1, <5>1, LayoutFacts
      <4> QED
        BY <1>1, <1>8, <3>1, <4>1, LayoutFacts
    <3>2. CASE b = blk
      <4>1. new_blk <= c /\ c \in Nat
        <5>1. CASE c = new_blk
          BY <1>4, <5>1
        <5>2. CASE c \in Blocks
          <6>1. c \in Nat /\ blk < c
            BY <2>2, <3>2, <5>2, LayoutFacts
          <6>2. new_blk + ALLOC_HEADER_SZ <= c
            BY <1>1, <1>5, <5>2, <6>1
          <6> QED
            BY <1>1, <1>4, <6>1, <6>2
        <5> QED
          BY <1>7, <5>1, <5>2
      <4> QED
        BY <1>1, <1>4, <1>8, <3>2, <4>1
    <3>3. CASE b \in Blocks /\ b # blk /\ c \in Blocks
      BY <1>8, <2>2, <3>3, LayoutFacts
    <3>4. CASE b \in Blocks /\ b # blk /\ c = new_blk
      <4>1. b < blk /\ b \in Nat
        <5>1. b \in Nat
          BY <3>4, LayoutFacts
        <5>2. ~ (new_blk + ALLOC_HEADER_SZ <= b)
          BY <1>1, <1>4, <2>2, <3>4, <5>1
        <5> QED
          BY <1>1, <1>5, <3>4, <5>1, <5>2
      <4>2. BlockEnd(b) <= blk + drift
        BY <1>1, <3>4, <4>1, LayoutFacts
      <4>3. BlockEnd(b) \in Nat
        BY <3>4, LayoutFacts
      <4> QED
        BY <1>1, <1>4, <1>8, <3>4, <4>2, <4>3
    <3> QED
      BY <1>7, <3>1, <3>2, <3>3, <3>4
  <2> QED
    BY <1>3, <2>1, <2>2 DEF ClaimsBounded
<1>15. ArenaCovered'
  <2>1. FirstBlock \in Blocks'
    BY <1>1, <1>7 DEF Core, ArenaCovered
  <2>2. ASSUME NEW b \in Blocks'
        PROVE  \/ HeapEnd <= BlockEnd(b)'
               \/ \E c \in Blocks' : b < c /\ c <= BlockEnd(b)'
    <3>1. CASE b = blk
      BY <1>1, <1>4, <1>7, <1>8, <3>1
    <3>2. CASE b = new_blk
      <4>1. CASE HeapEnd <= BlockEnd(blk)
        BY <1>8, <3>2, <4>1
      <4>2. CASE ~ (HeapEnd <= BlockEnd(blk))
        <5>1. PICK c \in Blocks : blk < c /\ c <= BlockEnd(blk)
          BY <1>1, <4>2 DEF Core, ArenaCovered
        <5>2. new_blk < c /\ c \in Blocks'
          BY <1>1, <1>4, <1>5, <1>7, <5>1, LayoutFacts
        <5> QED
          BY <1>8, <3>2, <5>1, <5>2
      <4> QED
        BY <4>1, <4>2
    <3>3. CASE b \in Blocks /\ b # blk
      <4>1. \/ HeapEnd <= BlockEnd(b)
            \/ \E c \in Blocks : b < c /\ c <= BlockEnd(b)
        BY <3>3 DEF Core, ArenaCovered
      <4>2. BlockEnd(b)' = BlockEnd(b) /\ Blocks \subseteq Blocks'
        BY <1>7, <1>8, <3>3
      <4>3. CASE HeapEnd <= BlockEnd(b)
        BY <4>2, <4>3
      <4>4. CASE \E c \in Blocks : b < c /\ c <= BlockEnd(b)
        BY <4>2, <4>4
      <4> QED
        BY <4>1, <4>3, <4>4
    <3> QED
      BY <1>7, <3>1, <3>2, <3>3
  <2> QED
    BY <2>1, <2>2 DEF ArenaCovered
<1> QED
  BY <1>10, <1>11, <1>12, <1>13, <1>14, <1>15 DEF Core

\* heap_malloc, whichever way it takes the block.
LEMMA MallocStep ==
  ASSUME Core, LowDrift, NEW request \in Requests, Malloc(request)
  PROVE  Core'
<1>1. request \in Nat /\ cursor = 0
  BY ArenaAssumption DEF Malloc
<1>2. AlignSize(request) \in Nat
  BY <1>1, AlignSizeNat
<1>3. PICK i \in 1 .. Len(free_list) :
        /\ SplitBlock(i, AlignSize(request)) \/ WholeBlock(i, AlignSize(request))
        /\ vended' = vended \union {free_list[i]}
        /\ want' = [b \in vended' |-> IF b = free_list[i] THEN request ELSE want[b]]
  BY DEF Malloc
<1>4. HandOut(free_list[i], request)
  BY <1>3 DEF HandOut, Malloc
<1>5. CASE WholeBlock(i, AlignSize(request))
  BY <1>1, <1>2, <1>4, <1>5, WholeBlockStep
<1>6. CASE SplitBlock(i, AlignSize(request))
  <2>1. PICK blk \in Nat : blk = free_list[i]
    BY ListFacts
  <2>2. PICK new_blk \in Nat : new_blk = blk + ALLOC_HEADER_SZ + AlignSize(request)
    BY <1>2, AbiAssumption
  <2>3. SplitAt(i, AlignSize(request), blk, new_blk) /\ HandOut(blk, request)
    BY <1>4, <1>6, <2>1, <2>2 DEF SplitAt
  <2> QED
    BY <1>1, <1>2, <2>3, SplitBlockStep
<1> QED
  BY <1>3, <1>5, <1>6

\* heap_free's insertion: between the last lower and the first higher address.
LEMMA FreeStep ==
  ASSUME Core, NEW blk \in vended, Free(blk)
  PROVE  Core'
<1>1. PICK i \in 1 .. Len(free_list) + 1 :
        InsertPosition(i, blk) /\ free_list' = InsertAt(free_list, i, blk)
  BY DEF Free
<1>2. /\ blk \in Blocks /\ blk \in Nat /\ blk \notin ToSet(free_list)
  BY DEF Core, TypeOK, EveryBlockHasOneOwner
<1>3. /\ size' = size /\ Blocks' = Blocks /\ drift' = drift /\ cursor' = 1
      /\ vended' = vended \ {blk} /\ want' = [b \in vended' |-> want[b]]
  BY DEF Free, Blocks
<1>4. /\ free_list' \in Seq(Blocks) /\ Len(free_list') = Len(free_list) + 1
      /\ ToSet(free_list') = ToSet(free_list) \union {blk}
  <2>1. /\ Blocks \in SUBSET Nat /\ free_list \in Seq(Blocks)
        /\ free_list' = InsertAt(free_list, i, blk)
    BY <1>1, ListFacts
  <2>2. free_list' \in Seq(Blocks) /\ Len(free_list') = Len(free_list) + 1
    BY <1>2, <2>1, InsertAtProperties
  <2>3. ToSet(free_list') = ToSet(free_list) \union {blk}
    BY <1>2, <2>1, InsertAtMembers
  <2> QED
    BY <2>2, <2>3
<1>5. ASSUME NEW j \in 1 .. Len(free_list)
      PROVE  IF j < i THEN free_list[j] < blk ELSE blk < free_list[j]
  <2>1. free_list[j] \in Nat /\ free_list[j] # blk /\ Len(free_list) \in Nat
    BY <1>2, ListFacts
  <2>2. CASE j < i
    BY <1>1, <1>2, <2>1, <2>2 DEF InsertPosition
  <2>3. CASE j = i
    BY <1>1, <1>2, <2>1, <2>3 DEF InsertPosition
  <2>4. CASE i < j
    <3>1. i \in 1 .. Len(free_list) /\ free_list[i] < free_list[j]
      BY <2>1, <2>4, ListFacts DEF Sorted
    <3>2. blk < free_list[i] /\ free_list[i] \in Nat
      BY <1>1, <2>1, <3>1, ListFacts DEF InsertPosition
    <3> QED
      BY <1>2, <2>1, <2>4, <3>1, <3>2
  <2> QED
    BY <2>1, <2>2, <2>3, <2>4
<1>6. TypeOK'
  <2>1. want' \in [vended' -> Nat]
    BY <1>3 DEF Core, TypeOK
  <2>2. cursor' \in 0 .. Len(free_list') + 1
    BY <1>3, <1>4, ListFacts
  <2>3. /\ Blocks' \subseteq Nat /\ size' \in [Blocks' -> Nat]
        /\ vended' \in SUBSET Blocks' /\ drift' \in Nat
    BY <1>3 DEF Core, TypeOK
  <2> QED
    BY <1>3, <1>4, <2>1, <2>2, <2>3 DEF TypeOK
<1>7. FreeListSorted'
  <2>1. Sorted(InsertAt(free_list, i, blk))
    BY <1>2, <1>5, ListFacts, InsertAtSorted
  <2> QED
    BY <1>1, <2>1 DEF FreeListSorted, Sorted
<1>8. EveryBlockHasOneOwner'
  BY <1>2, <1>3, <1>4 DEF Core, EveryBlockHasOneOwner
<1>9. HeadersApart' /\ ClaimsBounded' /\ ArenaCovered'
  BY <1>3 DEF Core, HeadersApart, ClaimsBounded, ArenaCovered, BlockEnd
<1> QED
  BY <1>6, <1>7, <1>8, <1>9 DEF Core

\* Absorb with its two blocks named.
AbsorbAt(lb, b) ==
  /\ Absorb
  /\ lb = free_list[cursor - 1]
  /\ b = free_list[cursor]

\* What the loop joins are neighbours: since lb claims less than a header beyond
\* its own, no header fits between it and the block that starts where it ends.
LEMMA AbsorbJoinsNeighbours ==
  ASSUME Core, LowDrift, NEW lb \in Nat, NEW b \in Nat, AbsorbAt(lb, b)
  PROVE  /\ lb \in Blocks /\ b \in Blocks /\ lb < b /\ BlockEnd(lb) = b
         /\ lb \notin vended /\ b \notin vended
         /\ \A c \in Blocks : c <= lb \/ b <= c
<1>1. cursor \in 2 .. Len(free_list) /\ lb = free_list[cursor - 1] /\ b = free_list[cursor]
  BY DEF AbsorbAt, Absorb
<1>2. cursor - 1 \in 1 .. Len(free_list) /\ cursor \in 1 .. Len(free_list)
      /\ cursor - 1 < cursor
  BY <1>1, ListFacts
<1>3. /\ lb \in Blocks /\ b \in Blocks /\ lb < b
      /\ lb \notin vended /\ b \notin vended
  BY <1>1, <1>2, ListFacts DEF Sorted
<1>4. BlockEnd(lb) = b
  BY DEF AbsorbAt, Absorb
<1>5. ASSUME NEW c \in Blocks
      PROVE  c <= lb \/ b <= c
  <2> SUFFICES ASSUME lb < c, c < b
               PROVE  FALSE
    BY <1>3, <1>5, LayoutFacts
  <2>1. b <= c + drift
    BY <1>3, <1>4, LayoutFacts
  <2>2. c + ALLOC_HEADER_SZ <= b
    BY <1>3, LayoutFacts
  <2>3. drift < ALLOC_HEADER_SZ /\ ALLOC_HEADER_SZ \in Nat /\ drift \in Nat /\ c \in Nat
    BY LayoutFacts, AbiAssumption DEF LowDrift
  <2> QED
    BY <2>1, <2>2, <2>3
<1> QED
  BY <1>3, <1>4, <1>5

\* heap_defrag_free_list's merge.
LEMMA AbsorbStep ==
  ASSUME Core, LowDrift, Absorb
  PROVE  Core'
<1>0. cursor \in 2 .. Len(free_list) /\ cursor \in 1 .. Len(free_list)
      /\ cursor - 1 \in 1 .. Len(free_list)
  BY ListFacts DEF Absorb
<1>1. PICK lb \in Nat : lb = free_list[cursor - 1]
  BY <1>0, ListFacts
<1>2. PICK b \in Nat : b = free_list[cursor]
  BY <1>0, ListFacts
<1>3. AbsorbAt(lb, b)
  BY <1>1, <1>2 DEF AbsorbAt
<1>4. /\ lb \in Blocks /\ b \in Blocks /\ lb < b /\ BlockEnd(lb) = b
      /\ lb \notin vended /\ b \notin vended
      /\ \A c \in Blocks : c <= lb \/ b <= c
  BY <1>3, AbsorbJoinsNeighbours
<1> DEFINE extra == ALLOC_NODE_SZ - ALLOC_HEADER_SZ
<1>5. /\ extra \in Nat /\ drift \in Nat /\ drift' = drift + extra /\ drift' \in Nat
      /\ ALLOC_HEADER_SZ \in Nat /\ ALLOC_NODE_SZ = ALLOC_HEADER_SZ + extra
  BY LayoutFacts, AbiAssumption DEF Absorb
<1> HIDE DEF extra
<1>6. /\ size' = [c \in Blocks \ {b} |->
                    IF c = lb THEN size[lb] + ALLOC_NODE_SZ + size[b] ELSE size[c]]
      /\ free_list' = RemoveAt(free_list, cursor)
      /\ vended' = vended /\ want' = want /\ cursor' = cursor
  BY <1>1, <1>2 DEF Absorb
<1>7. /\ Blocks' = Blocks \ {b}
      /\ size'[lb] = size[lb] + ALLOC_NODE_SZ + size[b]
      /\ \A c \in Blocks' : c # lb => size'[c] = size[c]
      /\ size' \in [Blocks' -> Nat]
  <2>1. Blocks' = Blocks \ {b}
    BY <1>6 DEF Blocks
  <2>2. size[lb] + ALLOC_NODE_SZ + size[b] \in Nat /\ \A c \in Blocks : size[c] \in Nat
    BY <1>4, LayoutFacts, AbiAssumption
  <2>3. lb \in Blocks \ {b}
    BY <1>4
  <2> QED
    BY <1>6, <2>1, <2>2, <2>3
<1>8. /\ BlockEnd(lb)' = BlockEnd(b) + extra
      /\ \A c \in Blocks' : c # lb => BlockEnd(c)' = BlockEnd(c)
  <2>1. BlockEnd(lb)' = lb + ALLOC_HEADER_SZ + (size[lb] + ALLOC_NODE_SZ + size[b])
    BY <1>7 DEF BlockEnd
  <2>2. /\ BlockEnd(lb) = lb + ALLOC_HEADER_SZ + size[lb] /\ size[lb] \in Nat
        /\ BlockEnd(b) = b + ALLOC_HEADER_SZ + size[b] /\ size[b] \in Nat
    BY <1>4, LayoutFacts
  <2>3. BlockEnd(lb)' = BlockEnd(b) + extra
    BY <1>4, <1>5, <2>1, <2>2
  <2> QED
    BY <1>7, <2>3 DEF BlockEnd
<1>9. /\ free_list' \in Seq(Blocks) /\ Len(free_list') = Len(free_list) - 1
      /\ ToSet(free_list') = ToSet(free_list) \ {b}
  BY <1>0, <1>2, <1>6, ListFacts, RemoveAtProperties, RemoveAtMembers
<1>10. TypeOK'
  <2>1. free_list' \in Seq(Blocks')
    <3>1. /\ Len(free_list') \in Nat /\ DOMAIN free_list' = 1 .. Len(free_list')
          /\ free_list' = [j \in 1 .. Len(free_list') |-> free_list'[j]]
      BY <1>9, LenProperties
    <3>2. \A j \in 1 .. Len(free_list') : free_list'[j] \in Blocks
      BY <1>9, ElementOfSeq
    <3>3. \A j \in 1 .. Len(free_list') : free_list'[j] \in ToSet(free_list')
      BY <3>1 DEF ToSet
    <3>4. \A j \in 1 .. Len(free_list') : free_list'[j] \in Blocks'
      BY <1>7, <1>9, <3>2, <3>3
    <3> QED
      BY <3>1, <3>4
  <2>2. cursor' \in 0 .. Len(free_list') + 1
    BY <1>0, <1>6, <1>9, ListFacts
  <2>3. Blocks' \subseteq Nat /\ vended' \in SUBSET Blocks' /\ want' \in [vended' -> Nat]
    BY <1>4, <1>6, <1>7 DEF Core, TypeOK
  <2> QED
    BY <1>5, <1>7, <2>1, <2>2, <2>3 DEF TypeOK
<1>11. FreeListSorted'
  <2>1. Sorted(RemoveAt(free_list, cursor))
    BY <1>0, ListFacts, RemoveAtSorted
  <2> QED
    BY <1>6, <2>1 DEF FreeListSorted, Sorted
<1>12. EveryBlockHasOneOwner'
  BY <1>4, <1>6, <1>7, <1>9 DEF Core, EveryBlockHasOneOwner
<1>13. HeadersApart'
  BY <1>7, LayoutFacts DEF HeadersApart
<1>14. ClaimsBounded'
  <2>1. ASSUME NEW c \in Blocks'
        PROVE  BlockEnd(c)' <= HeapEnd + drift'
    <3>1. CASE c = lb
      <4>1. BlockEnd(b) <= HeapEnd + drift /\ BlockEnd(b) \in Nat /\ HeapEnd \in Nat
        BY <1>4, LayoutFacts
      <4> QED
        BY <1>5, <1>8, <3>1, <4>1
    <3>2. CASE c # lb
      <4>1. BlockEnd(c) <= HeapEnd + drift /\ BlockEnd(c) \in Nat /\ HeapEnd \in Nat
        BY <1>7, LayoutFacts
      <4> QED
        BY <1>5, <1>8, <3>2, <4>1
    <3> QED
      BY <3>1, <3>2
  <2>2. ASSUME NEW c \in Blocks', NEW d \in Blocks', c < d
        PROVE  BlockEnd(c)' <= d + drift'
    <3>1. c \in Blocks /\ d \in Blocks /\ c # b /\ d # b
          /\ BlockEnd(c) \in Nat /\ BlockEnd(b) \in Nat /\ c \in Nat /\ d \in Nat
      BY <1>4, <1>7, LayoutFacts
    <3>2. CASE c = lb
      <4>1. b < d
        BY <1>4, <2>2, <3>1, <3>2
      <4>2. BlockEnd(b) <= d + drift
        BY <1>4, <3>1, <4>1, LayoutFacts
      <4> QED
        BY <1>5, <1>8, <3>1, <3>2, <4>2
    <3>3. CASE c # lb
      <4>1. BlockEnd(c) <= d + drift
        BY <2>2, <3>1, LayoutFacts
      <4> QED
        BY <1>5, <1>8, <3>1, <3>3, <4>1
    <3> QED
      BY <3>2, <3>3
  <2> QED
    BY <2>1, <2>2 DEF ClaimsBounded
<1>15. ArenaCovered'
  <2>1. FirstBlock \in Blocks'
    <3>1. FirstBlock \in Blocks
      BY <1>4 DEF Core, ArenaCovered
    <3>2. FirstBlock <= lb /\ FirstBlock \in Nat
      BY <1>4, LayoutFacts
    <3> QED
      BY <1>4, <1>7, <3>1, <3>2
  <2>2. ASSUME NEW c \in Blocks'
        PROVE  \/ HeapEnd <= BlockEnd(c)'
               \/ \E d \in Blocks' : c < d /\ d <= BlockEnd(c)'
    <3>1. c \in Blocks /\ c # b /\ c \in Nat /\ BlockEnd(c) \in Nat
          /\ BlockEnd(b) \in Nat /\ HeapEnd \in Nat
      BY <1>4, <1>7, LayoutFacts
    <3>2. CASE c = lb
      <4>1. CASE HeapEnd <= BlockEnd(b)
        BY <1>5, <1>8, <3>1, <3>2, <4>1
      <4>2. CASE \E d \in Blocks : b < d /\ d <= BlockEnd(b)
        <5>1. PICK d \in Blocks : b < d /\ d <= BlockEnd(b)
          BY <4>2
        <5>2. d \in Nat /\ d \in Blocks'
          BY <1>7, <5>1, LayoutFacts
        <5>3. lb < d /\ d <= BlockEnd(lb)'
          BY <1>4, <1>5, <1>8, <3>1, <5>1, <5>2
        <5> QED
          BY <3>2, <5>2, <5>3
      <4> QED
        BY <1>4, <4>1, <4>2 DEF Core, ArenaCovered
    <3>3. CASE c # lb
      <4>1. BlockEnd(c)' = BlockEnd(c)
        BY <1>8, <3>3
      <4>2. CASE HeapEnd <= BlockEnd(c)
        BY <4>1, <4>2
      <4>3. CASE \E d \in Blocks : c < d /\ d <= BlockEnd(c)
        <5>1. PICK d \in Blocks : c < d /\ d <= BlockEnd(c)
          BY <4>3
        <5>2. CASE d # b
          BY <1>7, <4>1, <5>1, <5>2
        <5>3. CASE d = b
          <6>1. c < lb /\ lb <= BlockEnd(c) /\ lb \in Blocks'
            BY <1>4, <1>7, <3>1, <3>3, <5>1, <5>3
          <6> QED
            BY <4>1, <6>1
        <5> QED
          BY <5>2, <5>3
      <4> QED
        BY <3>1, <4>2, <4>3 DEF Core, ArenaCovered
    <3> QED
      BY <3>2, <3>3
  <2> QED
    BY <2>1, <2>2 DEF ArenaCovered
<1> QED
  BY <1>10, <1>11, <1>12, <1>13, <1>14, <1>15 DEF Core

\* The loop of heap_defrag_free_list moves on, heap_free returns, heap_malloc
\* fails, or nothing happens: only the cursor may change.
LEMMA CursorStep ==
  ASSUME Core, Advance \/ FreeReturns \/ UNCHANGED vars
  PROVE  Core'
<1>1. /\ size' = size /\ free_list' = free_list /\ vended' = vended
      /\ want' = want /\ drift' = drift /\ Blocks' = Blocks
  BY DEF Advance, FreeReturns, vars, Blocks
<1>2. cursor' \in 0 .. Len(free_list) + 1
  BY ListFacts DEF Advance, FreeReturns, vars, Core, TypeOK
<1>3. TypeOK'
  BY <1>1, <1>2 DEF Core, TypeOK
<1> QED
  BY <1>1, <1>3 DEF Core, FreeListSorted, EveryBlockHasOneOwner, HeadersApart,
                    ClaimsBounded, ArenaCovered, BlockEnd

-----------------------------------------------------------------------------
(* The theorems. *)

\* Every heap operation keeps the inductive invariant: the code's steps are taken
\* one by one.
THEOREM InductiveInvariant == Spec => []IInv
<1>1. Init => IInv
  <2> SUFFICES ASSUME Init
               PROVE  Core
    BY DEF Init, IInv
  <2>1. Blocks = {} /\ vended = {} /\ free_list = <<>> /\ cursor = 0 /\ drift = 0
    BY DEF Init, Blocks
  <2>2. TypeOK
    BY <2>1 DEF Init, TypeOK
  <2>3. FreeListSorted /\ EveryBlockHasOneOwner
    BY <2>1 DEF FreeListSorted, EveryBlockHasOneOwner, ToSet
  <2>4. HeadersApart /\ ClaimsBounded /\ ArenaCovered
    BY <2>1 DEF HeadersApart, ClaimsBounded, ArenaCovered
  <2> QED
    BY <2>2, <2>3, <2>4 DEF Core
<1>2. IInv /\ [Next]_vars => IInv'
  <2> SUFFICES ASSUME IInv, [Next]_vars, LowDrift'
               PROVE  Core'
    BY DriftGrows DEF IInv
  <2>1. Core /\ LowDrift
    BY DriftGrows, AbiAssumption DEF IInv, LowDrift
  <2>2. CASE HeapInit
    BY <2>1, <2>2, HeapInitStep
  <2>3. ASSUME NEW request \in Requests, Malloc(request)
        PROVE  Core'
    BY <2>1, <2>3, MallocStep
  <2>4. ASSUME NEW request \in Requests, MallocFails(request)
        PROVE  Core'
    BY <2>1, <2>4, CursorStep DEF MallocFails
  <2>5. ASSUME NEW blk \in vended, Free(blk)
        PROVE  Core'
    BY <2>1, <2>5, FreeStep
  <2>6. CASE Absorb
    BY <2>1, <2>6, AbsorbStep
  <2>7. CASE Advance \/ FreeReturns \/ UNCHANGED vars
    BY <2>1, <2>7, CursorStep
  <2> QED
    BY <2>2, <2>3, <2>4, <2>5, <2>6, <2>7 DEF Next
<1> QED
  BY <1>1, <1>2, PTL DEF Spec

\* While the drift is low, every variable of the heap has its type.
THEOREM TypeCorrect == Spec => [](LowDrift => TypeOK)
<1>1. IInv => (LowDrift => TypeOK)
  BY DEF IInv, Core
<1> QED
  BY <1>1, InductiveInvariant, PTL

\* While the drift is low, no sequence of heap_malloc and heap_free calls, of any
\* sizes and in any order, makes headers overlap or leaves a gap in the arena.
THEOREM LayoutIsSound == Spec => []LayoutSound
<1>1. IInv => LayoutSound
  BY DEF IInv, Core, LayoutSound
<1> QED
  BY <1>1, InductiveInvariant, PTL

\* While the drift is low, the free list stays in address order and every block
\* has exactly one owner.
THEOREM ListIsSound ==
  Spec => [](LowDrift => ListSound)
<1>1. IInv => (LowDrift => ListSound)
  BY DEF IInv, Core, ListSound
<1> QED
  BY <1>1, InductiveInvariant, PTL

-----------------------------------------------------------------------------
(* Properties of steps, from the inductive invariant. *)

\* What a step does to the blocks that exist, whichever way the heap takes it.
LEMMA MallocCases ==
  ASSUME Core, NEW request \in Requests, Malloc(request)
  PROVE  \E i \in 1 .. Len(free_list), blk \in Nat :
           /\ blk = free_list[i] /\ blk \in Blocks \ vended
           /\ HandOut(blk, request)
           /\ size[blk] >= AlignSize(request)
           /\ \/ WholeBlock(i, AlignSize(request))
              \/ \E new_blk \in Nat : SplitAt(i, AlignSize(request), blk, new_blk)
<1>1. PICK i \in 1 .. Len(free_list) :
        /\ FirstFit(i, AlignSize(request))
        /\ SplitBlock(i, AlignSize(request)) \/ WholeBlock(i, AlignSize(request))
        /\ vended' = vended \union {free_list[i]}
        /\ want' = [b \in vended' |-> IF b = free_list[i] THEN request ELSE want[b]]
  BY DEF Malloc
<1>2. PICK blk \in Nat : blk = free_list[i]
  BY ListFacts
<1>3. HandOut(blk, request) /\ size[blk] >= AlignSize(request)
  BY <1>1, <1>2 DEF HandOut, Malloc, FirstFit
<1>4. blk \in Blocks \ vended
  BY <1>2, ListFacts
<1>5. AlignSize(request) \in Nat
  BY ArenaAssumption, AlignSizeNat
<1>6. CASE SplitBlock(i, AlignSize(request))
  <2>1. PICK new_blk \in Nat : new_blk = blk + ALLOC_HEADER_SZ + AlignSize(request)
    BY <1>5, AbiAssumption
  <2>2. SplitAt(i, AlignSize(request), blk, new_blk)
    BY <1>2, <1>6, <2>1 DEF SplitAt
  <2> QED
    BY <1>2, <1>3, <1>4, <2>2
<1>7. CASE WholeBlock(i, AlignSize(request))
  BY <1>2, <1>3, <1>4, <1>7
<1> QED
  BY <1>1, <1>6, <1>7

\* No step changes the header of a block that stays held: heap_malloc splits free
\* blocks only, and heap_defrag_free_list joins free blocks only.
LEMMA HeldStep ==
  ASSUME IInv, LowDrift, [Next]_vars
  PROVE  \A b \in vended \intersect vended' : b \in DOMAIN size' /\ size'[b] = size[b]
<1> SUFFICES ASSUME NEW b \in vended, b \in vended'
             PROVE  b \in Blocks' /\ size'[b] = size[b]
  BY DEF Blocks
<1>1. Core /\ b \in Blocks
  BY DEF IInv, Core, TypeOK
<1>2. CASE size' = size
  BY <1>1, <1>2 DEF Blocks
<1>3. CASE HeapInit
  BY <1>1, <1>3 DEF HeapInit
<1>4. ASSUME NEW request \in Requests, Malloc(request)
      PROVE  b \in Blocks' /\ size'[b] = size[b]
  <2>1. PICK i \in 1 .. Len(free_list), blk \in Nat :
          /\ blk = free_list[i] /\ blk \in Blocks \ vended
          /\ HandOut(blk, request)
          /\ size[blk] >= AlignSize(request)
          /\ \/ WholeBlock(i, AlignSize(request))
             \/ \E new_blk \in Nat : SplitAt(i, AlignSize(request), blk, new_blk)
    BY <1>1, <1>4, MallocCases
  <2>2. CASE WholeBlock(i, AlignSize(request))
    BY <1>2, <2>2 DEF WholeBlock
  <2>3. CASE \E new_blk \in Nat : SplitAt(i, AlignSize(request), blk, new_blk)
    <3>1. PICK new_blk \in Nat : SplitAt(i, AlignSize(request), blk, new_blk)
      BY <2>3
    <3>2. AlignSize(request) \in Nat
      BY ArenaAssumption, AlignSizeNat
    <3>3. /\ Blocks' = Blocks \union {new_blk}
          /\ \A c \in Blocks : c # blk => size'[c] = size[c]
      BY <1>1, <3>1, <3>2, SplitFits
    <3> QED
      BY <1>1, <2>1, <3>3
  <2> QED
    BY <2>1, <2>2, <2>3
<1>5. CASE Absorb
  <2>1. PICK lb \in Nat, c \in Nat : AbsorbAt(lb, c)
    <3>1. /\ cursor - 1 \in 1 .. Len(free_list) /\ cursor \in 1 .. Len(free_list)
      BY <1>1, <1>5, ListFacts DEF Absorb
    <3>2. free_list[cursor - 1] \in Nat /\ free_list[cursor] \in Nat
      BY <1>1, <3>1, ListFacts
    <3> QED
      BY <1>5, <3>2 DEF AbsorbAt
  <2>2. lb \notin vended /\ c \notin vended
    BY <1>1, <2>1, AbsorbJoinsNeighbours
  <2>3. size' = [d \in Blocks \ {c} |->
                   IF d = lb THEN size[lb] + ALLOC_NODE_SZ + size[c] ELSE size[d]]
    BY <2>1 DEF AbsorbAt, Absorb
  <2>4. Blocks' = Blocks \ {c}
    BY <2>3 DEF Blocks
  <2> QED
    BY <1>1, <2>2, <2>3, <2>4
<1> QED
  BY <1>2, <1>3, <1>4, <1>5
     DEF Next, vars, MallocFails, Free, Advance, FreeReturns

\* While the drift is low, a block that stays held over a step keeps its header.
THEOREM HeldBlocksAreUntouched == Spec => HeldBlocksUntouched
<1>1. IInv /\ [Next]_vars =>
        [LowDrift => \A b \in vended \intersect vended' :
                       b \in DOMAIN size' /\ size'[b] = size[b]]_vars
  BY HeldStep
<1> QED
  BY <1>1, InductiveInvariant, PTL DEF Spec, HeldBlocksUntouched

-----------------------------------------------------------------------------
(* The heap implements the abstract arena of regions. *)

\* heap_malloc hands out a free region, whole or by its front.
LEMMA MallocTakesRegion ==
  ASSUME Core, LowDrift, NEW request \in Requests, Malloc(request)
  PROVE  Regions!RNext
<1>1. PICK i \in 1 .. Len(free_list), blk \in Nat :
        /\ blk = free_list[i] /\ blk \in Blocks \ vended
        /\ HandOut(blk, request)
        /\ size[blk] >= AlignSize(request)
        /\ \/ WholeBlock(i, AlignSize(request))
           \/ \E new_blk \in Nat : SplitAt(i, AlignSize(request), blk, new_blk)
  BY MallocCases
<1>2. vended' = vended \union {blk}
  BY <1>1 DEF HandOut
<1>3. CASE WholeBlock(i, AlignSize(request))
  <2>1. Blocks' = Blocks
    BY <1>3 DEF WholeBlock, Blocks
  <2>2. Regions!Take(blk) /\ blk \in Regions!FreeRegions
    BY <1>1, <1>2, <2>1 DEF Regions!Take, Regions!FreeRegions
  <2> QED
    BY <2>2 DEF Regions!RNext
<1>4. CASE \E new_blk \in Nat : SplitAt(i, AlignSize(request), blk, new_blk)
  <2>1. PICK new_blk \in Nat : SplitAt(i, AlignSize(request), blk, new_blk)
    BY <1>4
  <2>2. AlignSize(request) \in Nat
    BY ArenaAssumption, AlignSizeNat
  <2>3. /\ blk + ALLOC_HEADER_SZ <= new_blk /\ new_blk + ALLOC_HEADER_SZ <= HeapEnd
        /\ \A c \in Blocks : IF c <= blk THEN c + ALLOC_HEADER_SZ <= new_blk
                                         ELSE new_blk + ALLOC_HEADER_SZ <= c
        /\ new_blk \notin Blocks /\ Blocks' = Blocks \union {new_blk}
    BY <2>1, <2>2, SplitFits
  <2>4. ALLOC_HEADER_SZ \in Nat \ {0} /\ HeapEnd \in Nat /\ HEAP_ADDR \in Nat
    BY AbiAssumption, ArenaAssumption DEF HeapEnd
  <2>5. ASSUME NEW c \in Blocks, blk < c
        PROVE  new_blk <= c
    <3>1. c \in Nat /\ new_blk + ALLOC_HEADER_SZ <= c
      BY <1>1, <2>3, <2>5, LayoutFacts
    <3> QED
      BY <2>4, <3>1
  <2>6. blk < new_blk /\ new_blk \in HEAP_ADDR .. HeapEnd
    <3>1. HEAP_ADDR <= blk
      BY <1>1, <2>4, LayoutFacts, FirstBlockInArena
    <3> QED
      BY <1>1, <2>3, <2>4, <3>1
  <2>7. Regions!NoneBetween(blk, new_blk)
    <3>1. \A c \in Blocks : ~ (blk < c /\ c < new_blk)
      BY <2>5, LayoutFacts
    <3> QED
      BY <3>1 DEF Regions!NoneBetween
  <2>8. Regions!TakeFront(blk, new_blk) /\ blk \in Regions!FreeRegions
    BY <1>1, <1>2, <2>3, <2>6, <2>7 DEF Regions!TakeFront, Regions!FreeRegions
  <2> QED
    BY <2>6, <2>8 DEF Regions!RNext
<1> QED
  BY <1>1, <1>3, <1>4

\* A merge of the coalescing loop joins two free regions that touch.
LEMMA AbsorbJoinsRegions ==
  ASSUME Core, LowDrift, Absorb
  PROVE  Regions!RNext
<1>1. PICK lb \in Nat, b \in Nat : AbsorbAt(lb, b)
  <2>1. /\ cursor - 1 \in 1 .. Len(free_list) /\ cursor \in 1 .. Len(free_list)
    BY ListFacts DEF Absorb
  <2>2. free_list[cursor - 1] \in Nat /\ free_list[cursor] \in Nat
    BY <2>1, ListFacts
  <2> QED
    BY <2>2 DEF AbsorbAt
<1>2. /\ lb \in Blocks \ vended /\ b \in Blocks \ vended /\ lb < b
      /\ \A c \in Blocks : c <= lb \/ b <= c
  BY <1>1, AbsorbJoinsNeighbours
<1>3. Blocks' = Blocks \ {b} /\ vended' = vended
  BY <1>1 DEF AbsorbAt, Absorb, Blocks
<1>4. Regions!NoneBetween(lb, b)
  <2>1. \A c \in Blocks : ~ (lb < c /\ c < b)
    BY <1>2, LayoutFacts
  <2> QED
    BY <2>1 DEF Regions!NoneBetween
<1>5. Regions!Join(lb, b)
  BY <1>2, <1>3, <1>4 DEF Regions!Join
<1> QED
  BY <1>2, <1>5 DEF Regions!RNext, Regions!FreeRegions

\* Every step of the heap is a step of the arena or leaves the regions alone.
LEMMA StepRefines ==
  ASSUME IInv, LowDrift, [Next]_vars
  PROVE  [Regions!RNext]_(Regions!rvars)
<1>1. Core
  BY DEF IInv
<1>2. CASE HeapInit
  <2>1. Blocks' = {FirstBlock} /\ Blocks = {} /\ vended' = vended
    BY <1>2 DEF HeapInit, Blocks
  <2>2. FirstBlock \in HEAP_ADDR .. HeapEnd
    BY FirstBlockInArena, AbiAssumption, ArenaAssumption DEF HeapEnd
  <2>3. Regions!Seed(FirstBlock)
    BY <2>1 DEF Regions!Seed
  <2> QED
    BY <2>2, <2>3 DEF Regions!RNext
<1>3. ASSUME NEW request \in Requests, Malloc(request)
      PROVE  Regions!RNext
  <2>1. LowDrift /\ Core
    BY <1>1
  <2> QED
    BY <1>3, <2>1, MallocTakesRegion
<1>4. ASSUME NEW blk \in vended, Free(blk)
      PROVE  Regions!RNext
  <2>1. Regions!Give(blk)
    BY <1>4 DEF Free, Blocks, Regions!Give
  <2> QED
    BY <2>1 DEF Regions!RNext
<1>5. CASE Absorb
  BY <1>1, <1>5, AbsorbJoinsRegions
<1>6. ASSUME UNCHANGED <<size, vended>>
      PROVE  UNCHANGED Regions!rvars
  BY <1>6 DEF Regions!rvars, Blocks
<1>7. CASE Advance \/ FreeReturns \/ UNCHANGED vars \/ \E r \in Requests : MallocFails(r)
  BY <1>6, <1>7 DEF Advance, FreeReturns, MallocFails, vars
<1> QED
  BY <1>2, <1>3, <1>4, <1>5, <1>7 DEF Next

\* As long as the drift stays low, the heap implements the arena of regions: it
\* hands out and takes back free regions, joins only free regions that touch, and
\* never moves, cuts or swallows one that is held.
THEOREM HeapImplementsRegions == Spec /\ []LowDrift => ImplementsRegions
<1>1. Init => Regions!RInit
  BY DEF Init, Regions!RInit, Blocks
<1>2. IInv /\ LowDrift /\ [Next]_vars => [Regions!RNext]_(Regions!rvars)
  BY StepRefines
<1> QED
  BY <1>1, <1>2, InductiveInvariant, PTL DEF Spec, ImplementsRegions, Regions!RSpec

-----------------------------------------------------------------------------
(* Clients get what they ask for, when align_up does not wrap. *)

RequestsFit == \A r \in Requests : r + PTR_SZ <= SIZE_MOD

LEMMA AlignSizeEnough ==
  ASSUME NEW r \in Nat, r + PTR_SZ <= SIZE_MOD
  PROVE  r <= AlignSize(r)
<1>1. r + PTR_SZ - 1 \in 0 .. SIZE_MOD - 1 /\ SIZE_MOD \in Nat \ {0}
      /\ PTR_SZ \in Nat \ {0}
  BY AbiAssumption
<1>2. (r + PTR_SZ - 1) % SIZE_MOD = r + PTR_SZ - 1
  BY <1>1
<1>3. AlignSize(r) = ((r + PTR_SZ - 1) \div PTR_SZ) * PTR_SZ
  BY <1>2 DEF AlignSize
<1>4. r + PTR_SZ - 1 < AlignSize(r) + PTR_SZ /\ AlignSize(r) \in Nat
  BY <1>1, <1>3, RoundDown
<1> QED
  BY <1>1, <1>4

\* A step keeps every held block at least as large as its client asked for.
LEMMA BigEnoughStep ==
  ASSUME RequestsFit, IInv, LowDrift, BigEnough, [Next]_vars
  PROVE  BigEnough'
<1> SUFFICES ASSUME NEW b \in vended'
             PROVE  size'[b] >= want'[b]
  BY DEF BigEnough
<1>1. Core
  BY DEF IInv
<1>2. ASSUME b \in vended, want'[b] = want[b]
      PROVE  size'[b] >= want'[b]
  <2>1. size'[b] = size[b]
    BY <1>2, HeldStep
  <2> QED
    BY <1>2, <2>1 DEF BigEnough
<1>3. ASSUME NEW request \in Requests, Malloc(request)
      PROVE  size'[b] >= want'[b]
  <2>1. PICK i \in 1 .. Len(free_list), blk \in Nat :
          /\ blk = free_list[i] /\ blk \in Blocks \ vended
          /\ HandOut(blk, request)
          /\ size[blk] >= AlignSize(request)
          /\ \/ WholeBlock(i, AlignSize(request))
             \/ \E new_blk \in Nat : SplitAt(i, AlignSize(request), blk, new_blk)
    BY <1>1, <1>3, MallocCases
  <2>2. vended' = vended \union {blk}
        /\ want' = [c \in vended' |-> IF c = blk THEN request ELSE want[c]]
    BY <2>1 DEF HandOut
  <2>3. CASE b # blk
    BY <1>2, <2>2, <2>3
  <2>4. CASE b = blk
    <3>1. want'[b] = request /\ request \in Nat
      BY <2>2, <2>4, ArenaAssumption
    <3>2. AlignSize(request) >= request /\ AlignSize(request) \in Nat
      BY <3>1, AlignSizeEnough, AlignSizeNat, AbiAssumption DEF RequestsFit
    <3>3. CASE WholeBlock(i, AlignSize(request))
      <4>1. size'[b] = size[b] /\ size[b] >= AlignSize(request) /\ size[b] \in Nat
        BY <1>1, <2>1, <2>4, <3>3, LayoutFacts DEF WholeBlock
      <4> QED
        BY <3>1, <3>2, <4>1
    <3>4. CASE \E new_blk \in Nat : SplitAt(i, AlignSize(request), blk, new_blk)
      <4>1. PICK new_blk \in Nat : SplitAt(i, AlignSize(request), blk, new_blk)
        BY <3>4
      <4>2. size'[blk] = AlignSize(request)
        BY <1>1, <3>2, <4>1, SplitFits
      <4> QED
        BY <2>4, <3>1, <3>2, <4>2
    <3> QED
      BY <2>1, <3>3, <3>4
  <2> QED
    BY <2>3, <2>4
<1>4. ASSUME NEW blk \in vended, Free(blk)
      PROVE  size'[b] >= want'[b]
  <2>1. b \in vended /\ want'[b] = want[b]
    BY <1>4 DEF Free
  <2> QED
    BY <1>2, <2>1
<1>5. CASE vended' = vended /\ want' = want
  BY <1>2, <1>5
<1> QED
  BY <1>3, <1>4, <1>5
     DEF Next, vars, HeapInit, MallocFails, Absorb, Advance, FreeReturns

\* While the drift is low, a client gets at least the bytes it asked for, if no
\* request is so large that align_up wraps.
THEOREM ClientsGetEnough ==
  ASSUME RequestsFit
  PROVE  Spec => [](LowDrift => BigEnough)
<1>1. Init => (LowDrift => BigEnough)
  BY DEF Init, BigEnough
<1>2. IInv /\ (LowDrift => BigEnough) /\ [Next]_vars => (LowDrift => BigEnough)'
  <2> SUFFICES ASSUME IInv, LowDrift => BigEnough, [Next]_vars, LowDrift'
               PROVE  BigEnough'
    OBVIOUS
  <2>1. LowDrift
    BY DriftGrows, AbiAssumption DEF IInv, LowDrift
  <2> QED
    BY <2>1, BigEnoughStep
<1> QED
  BY <1>1, <1>2, InductiveInvariant, PTL DEF Spec

-----------------------------------------------------------------------------
(* One pass of the coalescing loop is enough. *)

\* The pairs the loop has passed, all of them between two heap calls, are not adjacent.
PassedPairsApart ==
  \A i \in 1 .. Len(free_list) - 1 :
    cursor = 0 \/ i + 1 < cursor => BlockEnd(free_list[i]) # free_list[i + 1]

\* While the drift is low no block ends where a block beyond the next one starts.
LEMMA EndsBeforeNextButOne ==
  ASSUME Core, LowDrift, NEW b \in Blocks, NEW c \in Blocks, b < c,
         NEW d \in Nat, c + ALLOC_HEADER_SZ <= d
  PROVE  BlockEnd(b) # d
<1>1. BlockEnd(b) <= c + drift /\ c \in Nat /\ drift \in Nat /\ BlockEnd(b) \in Nat
  BY LayoutFacts
<1>2. drift < ALLOC_HEADER_SZ /\ ALLOC_HEADER_SZ \in Nat
  BY AbiAssumption DEF LowDrift
<1> QED
  BY <1>1, <1>2

LEMMA WholeBlockLeavesNoPair ==
  ASSUME Core, LowDrift, PassedPairsApart, cursor = 0, cursor' = 0,
         NEW i \in 1 .. Len(free_list), NEW n \in Nat, WholeBlock(i, n)
  PROVE  PassedPairsApart'
<1>1. /\ size' = size /\ free_list' = RemoveAt(free_list, i)
      /\ Len(free_list) \in Nat /\ free_list \in Seq(Blocks)
  BY ListFacts DEF WholeBlock
<1>2. /\ Len(free_list') = Len(free_list) - 1
      /\ \A j \in 1 .. Len(free_list) - 1 :
           free_list'[j] = IF j < i THEN free_list[j] ELSE free_list[j + 1]
  BY <1>1, RemoveAtProperties
<1>3. ASSUME NEW j \in 1 .. Len(free_list) - 2
      PROVE  BlockEnd(free_list[j])' # free_list'[j + 1]
  <2>1. /\ j \in 1 .. Len(free_list) - 1 /\ j + 1 \in 1 .. Len(free_list) - 1
        /\ j + 1 \in 1 .. Len(free_list) /\ j \in 1 .. Len(free_list)
        /\ j + 2 \in 1 .. Len(free_list) /\ (j + 1) + 1 = j + 2
    BY <1>1
  <2>2. PICK b : b = free_list'[j]
    OBVIOUS
  <2>3. BlockEnd(free_list[j])' = BlockEnd(b)
    BY <1>1, <2>2 DEF BlockEnd
  <2>4. CASE j + 1 < i
    <3>1. b = free_list[j] /\ free_list'[j + 1] = free_list[j + 1]
      BY <1>2, <2>1, <2>2, <2>4
    <3> QED
      BY <2>1, <2>3, <3>1 DEF PassedPairsApart
  <2>5. CASE j >= i
    <3>1. b = free_list[j + 1] /\ free_list'[j + 1] = free_list[j + 2]
      <4>1. ~ (j < i) /\ ~ (j + 1 < i)
        BY <1>1, <2>5
      <4> QED
        BY <1>2, <2>1, <2>2, <4>1
    <3> QED
      BY <2>1, <2>3, <3>1 DEF PassedPairsApart
  <2>6. CASE j + 1 = i
    <3>1. b = free_list[j] /\ free_list'[j + 1] = free_list[j + 2]
      <4>1. j < i /\ ~ (j + 1 < i)
        BY <1>1, <2>6
      <4> QED
        BY <1>2, <2>1, <2>2, <4>1
    <3>2. free_list[j] < free_list[j + 1] /\ free_list[j + 1] < free_list[j + 2]
      <4>1. j < j + 1 /\ j + 1 < j + 2
        BY <2>1
      <4> QED
        BY <2>1, <4>1, ListFacts DEF Sorted
    <3>3. free_list[j + 1] + ALLOC_HEADER_SZ <= free_list[j + 2]
      BY <2>1, <3>2, ListFacts, LayoutFacts
    <3> QED
      BY <2>1, <2>3, <3>1, <3>2, <3>3, ListFacts, EndsBeforeNextButOne
  <2> QED
    BY <1>1, <2>4, <2>5, <2>6
<1> QED
  BY <1>1, <1>2, <1>3 DEF PassedPairsApart

LEMMA SplitLeavesNoPair ==
  ASSUME Core, LowDrift, PassedPairsApart, cursor = 0, cursor' = 0,
         NEW i \in 1 .. Len(free_list), NEW n \in Nat,
         NEW blk \in Nat, NEW new_blk \in Nat, SplitAt(i, n, blk, new_blk)
  PROVE  PassedPairsApart'
<1>1. /\ blk = free_list[i] /\ new_blk = blk + ALLOC_HEADER_SZ + n
      /\ free_list' = ReplaceAt(free_list, i, new_blk)
      /\ Len(free_list) \in Nat
  BY ListFacts DEF SplitAt, SplitBlock
<1>2. /\ blk \in Blocks /\ new_blk \notin Blocks
      /\ blk + ALLOC_HEADER_SZ <= new_blk
      /\ size'[new_blk] = size[blk] - n - ALLOC_HEADER_SZ
      /\ \A b \in Blocks : b # blk => size'[b] = size[b]
  BY SplitFits
<1>3. /\ Len(free_list') = Len(free_list)
      /\ \A j \in 1 .. Len(free_list) :
           free_list'[j] = IF j = i THEN new_blk ELSE free_list[j]
  BY <1>1, LenProperties, ListFacts DEF ReplaceAt
<1>4. ASSUME NEW j \in 1 .. Len(free_list) - 1
      PROVE  BlockEnd(free_list[j])' # free_list'[j + 1]
  <2>1. /\ j \in 1 .. Len(free_list) /\ j + 1 \in 1 .. Len(free_list)
        /\ j < j + 1
    BY <1>1
  <2>2. PICK b : b = free_list'[j]
    OBVIOUS
  <2>3. BlockEnd(free_list[j])' = b + ALLOC_HEADER_SZ + size'[b]
    BY <2>2 DEF BlockEnd
  <2>4. CASE j # i /\ j + 1 # i
    <3>1. b = free_list[j] /\ free_list'[j + 1] = free_list[j + 1]
      BY <1>3, <2>1, <2>2, <2>4
    <3>2. b \in Blocks /\ b # blk
      <4>1. j < i \/ i < j
        BY <1>1, <2>4
      <4> QED
        BY <1>1, <2>1, <3>1, <4>1, ListFacts DEF Sorted
    <3>3. BlockEnd(free_list[j])' = BlockEnd(free_list[j])
      BY <1>2, <2>3, <3>1, <3>2 DEF BlockEnd
    <3> QED
      BY <3>1, <3>3 DEF PassedPairsApart
  <2>5. CASE j = i
    <3>1. b = new_blk /\ free_list'[j + 1] = free_list[j + 1]
      BY <1>3, <2>1, <2>2, <2>5
    <3>2. BlockEnd(free_list[j])' = BlockEnd(free_list[j])
      <4>1. /\ BlockEnd(blk) = blk + ALLOC_HEADER_SZ + size[blk] /\ size[blk] \in Nat
            /\ ALLOC_HEADER_SZ \in Nat
        BY <1>2, LayoutFacts, AbiAssumption
      <4>2. new_blk + ALLOC_HEADER_SZ + (size[blk] - n - ALLOC_HEADER_SZ)
              = blk + ALLOC_HEADER_SZ + size[blk]
        <5>1. \A x, h, k, z \in Nat : (x + h + k) + h + (z - k - h) = x + h + z
          OBVIOUS
        <5>2. new_blk = blk + ALLOC_HEADER_SZ + n
          BY <1>1
        <5> QED
          BY <4>1, <5>1, <5>2
      <4> QED
        BY <1>1, <1>2, <2>3, <2>5, <3>1, <4>1, <4>2
    <3> QED
      BY <3>1, <3>2 DEF PassedPairsApart
  <2>6. CASE j + 1 = i
    <3>1. b = free_list[j] /\ free_list'[j + 1] = new_blk
      BY <1>1, <1>3, <2>1, <2>2, <2>6
    <3>2. b \in Blocks /\ b < blk
      BY <1>1, <2>1, <2>6, <3>1, ListFacts DEF Sorted
    <3>3. BlockEnd(free_list[j])' = BlockEnd(b)
      <4>1. b # blk
        BY <3>2, ListFacts
      <4> QED
        BY <1>2, <2>3, <3>2, <4>1 DEF BlockEnd
    <3> QED
      BY <1>2, <3>1, <3>2, <3>3, EndsBeforeNextButOne
  <2> QED
    BY <2>4, <2>5, <2>6
<1> QED
  BY <1>3, <1>4 DEF PassedPairsApart

LEMMA AbsorbLeavesNoPair ==
  ASSUME Core, LowDrift, PassedPairsApart, Absorb
  PROVE  PassedPairsApart'
<1>1. /\ cursor \in 2 .. Len(free_list) /\ cursor' = cursor
      /\ free_list' = RemoveAt(free_list, cursor)
      /\ size' = [c \in Blocks \ {free_list[cursor]} |->
                    IF c = free_list[cursor - 1]
                    THEN size[free_list[cursor - 1]] + ALLOC_NODE_SZ + size[free_list[cursor]]
                    ELSE size[c]]
      /\ Len(free_list) \in Nat
  BY ListFacts DEF Absorb
<1>2. /\ Len(free_list') = Len(free_list) - 1
      /\ \A j \in 1 .. Len(free_list) - 1 :
           free_list'[j] = IF j < cursor THEN free_list[j] ELSE free_list[j + 1]
  <2>1. cursor \in 1 .. Len(free_list) /\ free_list \in Seq(Blocks)
    BY <1>1, ListFacts
  <2> QED
    BY <1>1, <2>1, RemoveAtProperties
<1>3. ASSUME NEW j \in 1 .. Len(free_list) - 2, cursor = 0 \/ j + 1 < cursor
      PROVE  BlockEnd(free_list[j])' # free_list'[j + 1]
  <2>1. /\ j \in 1 .. Len(free_list) - 1 /\ j + 1 \in 1 .. Len(free_list) - 1
        /\ j \in 1 .. Len(free_list) /\ cursor - 1 \in 1 .. Len(free_list)
        /\ cursor \in 1 .. Len(free_list)
        /\ j < cursor /\ j + 1 < cursor /\ j < cursor - 1
    BY <1>1, <1>3
  <2>2. free_list'[j] = free_list[j] /\ free_list'[j + 1] = free_list[j + 1]
    BY <1>2, <2>1
  <2>3. /\ free_list[j] \in Blocks /\ free_list[j] # free_list[cursor]
        /\ free_list[j] # free_list[cursor - 1]
    <3>1. \A k, l \in 1 .. Len(free_list) :
             /\ k < l => free_list[k] < free_list[l]
             /\ free_list[k] \in Nat /\ free_list[k] \in Blocks
      BY ListFacts DEF Sorted
    <3>2. free_list[j] < free_list[cursor] /\ free_list[j] < free_list[cursor - 1]
      BY <2>1, <3>1
    <3> QED
      BY <2>1, <3>1, <3>2
  <2>4. BlockEnd(free_list[j])' = BlockEnd(free_list[j])
    BY <1>1, <2>2, <2>3 DEF BlockEnd
  <2> QED
    BY <1>3, <2>1, <2>2, <2>4 DEF PassedPairsApart
<1> QED
  BY <1>1, <1>2, <1>3 DEF PassedPairsApart

LEMMA AdvanceLeavesNoPair ==
  ASSUME Core, PassedPairsApart, Advance \/ FreeReturns
  PROVE  PassedPairsApart'
<1>1. free_list' = free_list /\ size' = size /\ Len(free_list) \in Nat
  BY ListFacts DEF Advance, FreeReturns
<1>2. ASSUME NEW j \in 1 .. Len(free_list) - 1, cursor' = 0 \/ j + 1 < cursor'
      PROVE  BlockEnd(free_list[j]) # free_list[j + 1]
  <2>1. j + 1 < cursor \/ j + 1 = cursor
    BY <1>1, <1>2 DEF Advance, FreeReturns
  <2>2. CASE j + 1 < cursor
    BY <2>2 DEF PassedPairsApart
  <2>3. CASE j + 1 = cursor
    <3>1. cursor <= Len(free_list) /\ cursor > 1 /\ cursor - 1 = j
      BY <1>1, <2>3
    <3>2. Advance
      BY <1>1, <3>1 DEF FreeReturns
    <3> QED
      BY <2>3, <3>1, <3>2 DEF Advance
  <2> QED
    BY <2>1, <2>2, <2>3
<1>3. ASSUME NEW j \in 1 .. Len(free_list) - 1
      PROVE  BlockEnd(free_list[j])' = BlockEnd(free_list[j])
  BY <1>1 DEF BlockEnd
<1> QED
  BY <1>1, <1>2, <1>3 DEF PassedPairsApart

LEMMA PairsStep ==
  ASSUME IInv, LowDrift, PassedPairsApart, [Next]_vars
  PROVE  PassedPairsApart'
<1>1. Core
  BY DEF IInv
<1>2. CASE HeapInit
  BY <1>2, LenProperties DEF HeapInit, PassedPairsApart
<1>3. ASSUME NEW request \in Requests, Malloc(request)
      PROVE  PassedPairsApart'
  <2>1. PICK i \in 1 .. Len(free_list), blk \in Nat :
          /\ HandOut(blk, request)
          /\ \/ WholeBlock(i, AlignSize(request))
             \/ \E new_blk \in Nat : SplitAt(i, AlignSize(request), blk, new_blk)
    BY <1>1, <1>3, MallocCases
  <2>2. cursor = 0 /\ cursor' = 0 /\ AlignSize(request) \in Nat
    BY <1>3, ArenaAssumption, AlignSizeNat DEF Malloc
  <2> QED
    BY <1>1, <2>1, <2>2, WholeBlockLeavesNoPair, SplitLeavesNoPair
<1>4. ASSUME NEW blk \in vended, Free(blk)
      PROVE  PassedPairsApart'
  BY <1>4 DEF Free, PassedPairsApart
<1>5. CASE Absorb
  BY <1>1, <1>5, AbsorbLeavesNoPair
<1>6. CASE Advance \/ FreeReturns
  BY <1>1, <1>6, AdvanceLeavesNoPair
<1>7. CASE UNCHANGED vars
  BY <1>7 DEF vars, PassedPairsApart, BlockEnd
<1> QED
  BY <1>2, <1>3, <1>4, <1>5, <1>6, <1>7 DEF Next, MallocFails

\* While the drift is low, one pass of heap_defrag_free_list leaves no two free blocks
\* its own test would join, and no later heap_malloc brings two together.
THEOREM OnePassIsEnough == Spec => []NoAdjacentPairLeft
<1>1. Init => (LowDrift => PassedPairsApart)
  BY DEF Init, PassedPairsApart
<1>2. IInv /\ (LowDrift => PassedPairsApart) /\ [Next]_vars
        => (LowDrift => PassedPairsApart)'
  <2> SUFFICES ASSUME IInv, LowDrift => PassedPairsApart, [Next]_vars, LowDrift'
               PROVE  PassedPairsApart'
    OBVIOUS
  <2>1. LowDrift
    BY DriftGrows, AbiAssumption DEF IInv, LowDrift
  <2> QED
    BY <2>1, PairsStep
<1>3. (LowDrift => PassedPairsApart) => NoAdjacentPairLeft
  BY DEF PassedPairsApart, NoAdjacentPairLeft
<1> QED
  BY <1>1, <1>2, <1>3, InductiveInvariant, PTL DEF Spec

-----------------------------------------------------------------------------
(***************************************************************************)
(* What the blocks claim adds up.  Claims is ClaimedBytes for any set of   *)
(* blocks: counting one block at a time keeps the sum without an induction *)
(* over the set.                                                           *)
(***************************************************************************)
Run(b, m) == {b} \X (1 .. m)

Claims(bs, sz) == UNION {{b} \X (1 .. ALLOC_HEADER_SZ + sz[b]) : b \in bs}

LEMMA RunCardinality ==
  ASSUME NEW b, NEW m \in Nat
  PROVE  IsFiniteSet(Run(b, m)) /\ Cardinality(Run(b, m)) = m
<1>1. IsFiniteSet({b}) /\ Cardinality({b}) = 1
  BY FS_Singleton
<1>2. IsFiniteSet(1 .. m) /\ Cardinality(1 .. m) = m
  <2>1. 1 \in Int /\ m \in Int
    OBVIOUS
  <2>2. IsFiniteSet(1 .. m) /\ Cardinality(1 .. m) = IF 1 > m THEN 0 ELSE m - 1 + 1
    BY <2>1, FS_Interval
  <2> QED
    BY <2>2
<1>3. IsFiniteSet(Run(b, m)) /\ Cardinality(Run(b, m)) = Cardinality({b}) * Cardinality(1 .. m)
  BY <1>1, <1>2, FS_Product DEF Run
<1> QED
  BY <1>1, <1>2, <1>3

\* One block more claims what it claims.
LEMMA ClaimsAdd ==
  ASSUME NEW bs, NEW sz, NEW b, b \notin bs,
         sz[b] \in Nat, IsFiniteSet(Claims(bs, sz))
  PROVE  /\ IsFiniteSet(Claims(bs \union {b}, sz))
         /\ Cardinality(Claims(bs \union {b}, sz))
              = Cardinality(Claims(bs, sz)) + ALLOC_HEADER_SZ + sz[b]
<1> DEFINE m == ALLOC_HEADER_SZ + sz[b]
           old == Claims(bs, sz)
<1>1. Claims(bs \union {b}, sz) = old \union Run(b, m)
  BY DEF Claims, Run
<1>2. old \intersect Run(b, m) = {}
  BY DEF Claims, Run
<1>3. IsFiniteSet(Run(b, m)) /\ Cardinality(Run(b, m)) = m
  <2>1. m \in Nat
    BY AbiAssumption
  <2> QED
    BY <2>1, RunCardinality
<1>4. /\ IsFiniteSet(old \union Run(b, m))
      /\ Cardinality(old \union Run(b, m)) = Cardinality(old) + m - Cardinality({})
  BY <1>2, <1>3, FS_Union
<1>5. Cardinality({}) = 0
  BY FS_EmptySet
<1>6. Cardinality(old) \in Nat
  BY FS_CardinalityType
<1>7. m \in Nat /\ Cardinality(old) + m - 0 = Cardinality(old) + ALLOC_HEADER_SZ + sz[b]
  BY <1>6, AbiAssumption
<1> QED
  BY <1>1, <1>4, <1>5, <1>7

\* ... and one block less as much less.
LEMMA ClaimsRemove ==
  ASSUME NEW bs, NEW sz, NEW b \in bs, sz[b] \in Nat,
         IsFiniteSet(Claims(bs, sz))
  PROVE  /\ IsFiniteSet(Claims(bs \ {b}, sz))
         /\ Cardinality(Claims(bs, sz))
              = Cardinality(Claims(bs \ {b}, sz)) + ALLOC_HEADER_SZ + sz[b]
<1>1. Claims(bs \ {b}, sz) \subseteq Claims(bs, sz)
  BY DEF Claims
<1>2. IsFiniteSet(Claims(bs \ {b}, sz))
  BY <1>1, FS_Subset
<1>3. b \notin bs \ {b} /\ (bs \ {b}) \union {b} = bs
  OBVIOUS
<1> QED
  BY <1>2, <1>3, ClaimsAdd

\* Claims depends only on the sizes of its blocks.
LEMMA ClaimsSame ==
  ASSUME NEW bs, NEW sz, NEW tz, \A b \in bs : sz[b] = tz[b]
  PROVE  Claims(bs, sz) = Claims(bs, tz)
BY DEF Claims

\* The bytes of the arena are counted.
Counted ==
  IF Blocks = {} THEN drift = 0
  ELSE /\ IsFiniteSet(ClaimedBytes)
       /\ Cardinality(ClaimedBytes) = HeapEnd - FirstBlock + drift

LEMMA ClaimedBytesAreClaims ==
  /\ ClaimedBytes = Claims(Blocks, size)
  /\ ClaimedBytes' = Claims(Blocks', size')
BY DEF ClaimedBytes, Claims

LEMMA HeapInitCounts ==
  ASSUME HeapInit, Counted
  PROVE  Counted'
<1> DEFINE room == HEAP_ADDR + HEAP_SIZE - FirstBlock - ALLOC_HEADER_SZ
<1>1. PICK sz : sz = [b \in {FirstBlock} |-> room]
  OBVIOUS
<1>2. size' = sz /\ Blocks' = {FirstBlock} /\ drift' = drift /\ drift = 0
  BY <1>1 DEF HeapInit, Blocks, Counted
<1>3. /\ FirstBlock \in Nat /\ room \in Nat /\ HeapEnd \in Nat
      /\ ALLOC_HEADER_SZ + room = HeapEnd - FirstBlock
  BY FirstBlockInArena, AbiAssumption, ArenaAssumption DEF HeapEnd
<1> HIDE DEF room
<1>4. Claims({}, sz) = {}
  BY DEF Claims
<1>5. IsFiniteSet({}) /\ Cardinality({}) = 0
  BY FS_EmptySet
<1>6. sz[FirstBlock] = room /\ {} \union {FirstBlock} = {FirstBlock}
  BY <1>1
<1>7. /\ IsFiniteSet(Claims({FirstBlock}, sz))
      /\ Cardinality(Claims({FirstBlock}, sz)) = 0 + ALLOC_HEADER_SZ + room
  <2>1. /\ IsFiniteSet(Claims({} \union {FirstBlock}, sz))
        /\ Cardinality(Claims({} \union {FirstBlock}, sz))
             = Cardinality(Claims({}, sz)) + ALLOC_HEADER_SZ + sz[FirstBlock]
    BY <1>3, <1>4, <1>5, <1>6, ClaimsAdd
  <2> QED
    BY <1>4, <1>5, <1>6, <2>1
<1>8. 0 + ALLOC_HEADER_SZ + room = HeapEnd - FirstBlock + 0
  BY <1>3, AbiAssumption
<1>9. ClaimedBytes' = Claims({FirstBlock}, sz) /\ Blocks' # {}
  BY <1>2, ClaimedBytesAreClaims
<1>10. HeapEnd' = HeapEnd /\ FirstBlock' = FirstBlock
  BY DEF HeapEnd, FirstBlock, AlignAddr
<1> QED
  BY <1>2, <1>7, <1>8, <1>9, <1>10 DEF Counted

LEMMA SplitCounts ==
  ASSUME Core, LowDrift, Counted,
         NEW i \in 1 .. Len(free_list), NEW n \in Nat,
         NEW blk \in Nat, NEW new_blk \in Nat, SplitAt(i, n, blk, new_blk),
         drift' = drift
  PROVE  Counted'
<1>1. /\ blk \in Blocks /\ new_blk \notin Blocks /\ new_blk # blk
      /\ Blocks' = Blocks \union {new_blk}
      /\ size'[new_blk] = size[blk] - n - ALLOC_HEADER_SZ
      /\ size'[blk] = n
      /\ \A b \in Blocks : b # blk => size'[b] = size[b]
      /\ size' \in [Blocks' -> Nat]
  BY SplitFits
<1>2. PICK sz : sz = size'
  OBVIOUS
<1> DEFINE rest == Blocks \ {blk}
<1>3. /\ ALLOC_HEADER_SZ \in Nat /\ size[blk] \in Nat
      /\ sz[blk] = n /\ sz[new_blk] = size[blk] - n - ALLOC_HEADER_SZ
      /\ sz[new_blk] \in Nat
  BY <1>1, <1>2, LayoutFacts, AbiAssumption
<1>4. /\ IsFiniteSet(Claims(Blocks, size))
      /\ Cardinality(Claims(Blocks, size)) = HeapEnd - FirstBlock + drift
  BY <1>1, ClaimedBytesAreClaims DEF Counted
<1>5. PICK c : c = Cardinality(Claims(rest, sz))
  OBVIOUS
<1>6. /\ IsFiniteSet(Claims(rest, sz)) /\ c \in Nat
      /\ Cardinality(Claims(Blocks, size)) = c + ALLOC_HEADER_SZ + size[blk]
  <2>1. /\ IsFiniteSet(Claims(rest, size))
        /\ Cardinality(Claims(Blocks, size))
             = Cardinality(Claims(rest, size)) + ALLOC_HEADER_SZ + size[blk]
    BY <1>1, <1>3, <1>4, ClaimsRemove
  <2>2. Claims(rest, size) = Claims(rest, sz)
    BY <1>1, <1>2, ClaimsSame
  <2> QED
    BY <1>5, <2>1, <2>2, FS_CardinalityType
<1> HIDE DEF rest
<1>7. /\ IsFiniteSet(Claims(Blocks, sz))
      /\ Cardinality(Claims(Blocks, sz)) = c + ALLOC_HEADER_SZ + n
  <2>1. blk \notin rest /\ rest \union {blk} = Blocks /\ sz[blk] \in Nat
    BY <1>1, <1>3 DEF rest
  <2>2. /\ IsFiniteSet(Claims(rest \union {blk}, sz))
        /\ Cardinality(Claims(rest \union {blk}, sz))
             = Cardinality(Claims(rest, sz)) + ALLOC_HEADER_SZ + sz[blk]
    BY <1>6, <2>1, ClaimsAdd
  <2> QED
    BY <1>3, <1>5, <2>1, <2>2
<1>8. /\ IsFiniteSet(Claims(Blocks', sz))
      /\ Cardinality(Claims(Blocks', sz))
           = (c + ALLOC_HEADER_SZ + n) + ALLOC_HEADER_SZ + (size[blk] - n - ALLOC_HEADER_SZ)
  BY <1>1, <1>3, <1>7, ClaimsAdd
<1>9. (c + ALLOC_HEADER_SZ + n) + ALLOC_HEADER_SZ + (size[blk] - n - ALLOC_HEADER_SZ)
        = c + ALLOC_HEADER_SZ + size[blk]
  BY <1>3, <1>6
<1>10. HeapEnd' = HeapEnd /\ FirstBlock' = FirstBlock
  BY DEF HeapEnd, FirstBlock, AlignAddr
<1>11. ClaimedBytes' = Claims(Blocks', sz) /\ Blocks' # {}
  BY <1>1, <1>2, ClaimedBytesAreClaims
<1> QED
  BY <1>4, <1>6, <1>8, <1>9, <1>10, <1>11 DEF Counted

LEMMA AbsorbCounts ==
  ASSUME Core, LowDrift, Counted,
         NEW lb \in Nat, NEW b \in Nat, AbsorbAt(lb, b)
  PROVE  Counted'
<1>1. lb \in Blocks /\ b \in Blocks /\ lb # b
  BY AbsorbJoinsNeighbours
<1>2. /\ size' = [c \in Blocks \ {b} |->
                    IF c = lb THEN size[lb] + ALLOC_NODE_SZ + size[b] ELSE size[c]]
      /\ drift' = drift + ALLOC_NODE_SZ - ALLOC_HEADER_SZ
      /\ Blocks' = Blocks \ {b}
  BY DEF AbsorbAt, Absorb, Blocks
<1>3. PICK sz : sz = size'
  OBVIOUS
<1> DEFINE rest == (Blocks \ {b}) \ {lb}
<1>4. /\ ALLOC_HEADER_SZ \in Nat /\ ALLOC_NODE_SZ \in Nat
      /\ size[lb] \in Nat /\ size[b] \in Nat /\ drift \in Nat
      /\ HeapEnd \in Nat /\ FirstBlock \in Nat
      /\ sz[lb] = size[lb] + ALLOC_NODE_SZ + size[b] /\ sz[lb] \in Nat
      /\ \A c \in rest : sz[c] = size[c]
  BY <1>1, <1>2, <1>3, LayoutFacts, AbiAssumption
<1>5. /\ IsFiniteSet(Claims(Blocks, size))
      /\ Cardinality(Claims(Blocks, size)) = HeapEnd - FirstBlock + drift
  BY <1>1, ClaimedBytesAreClaims DEF Counted
<1>6. /\ IsFiniteSet(Claims(Blocks \ {b}, size))
      /\ Cardinality(Claims(Blocks, size))
           = Cardinality(Claims(Blocks \ {b}, size)) + ALLOC_HEADER_SZ + size[b]
  BY <1>1, <1>4, <1>5, ClaimsRemove
<1>7. PICK k : k = Cardinality(Claims(rest, size))
  OBVIOUS
<1>8. /\ IsFiniteSet(Claims(rest, size)) /\ k \in Nat
      /\ Cardinality(Claims(Blocks \ {b}, size)) = k + ALLOC_HEADER_SZ + size[lb]
  <2>1. lb \in Blocks \ {b}
    BY <1>1
  <2>2. /\ IsFiniteSet(Claims(rest, size))
        /\ Cardinality(Claims(Blocks \ {b}, size))
             = Cardinality(Claims(rest, size)) + ALLOC_HEADER_SZ + size[lb]
    BY <1>4, <1>6, <2>1, ClaimsRemove
  <2> QED
    BY <1>7, <2>2, FS_CardinalityType
<1>9. /\ IsFiniteSet(Claims(Blocks', sz))
      /\ Cardinality(Claims(Blocks', sz))
           = k + ALLOC_HEADER_SZ + (size[lb] + ALLOC_NODE_SZ + size[b])
  <2>1. Claims(rest, sz) = Claims(rest, size)
    BY <1>4, ClaimsSame
  <2>2. lb \notin rest /\ rest \union {lb} = Blocks'
    BY <1>1, <1>2
  <2>3. IsFiniteSet(Claims(rest, sz)) /\ Cardinality(Claims(rest, sz)) = k
    BY <1>7, <1>8, <2>1
  <2> HIDE DEF rest
  <2>4. /\ IsFiniteSet(Claims(rest \union {lb}, sz))
        /\ Cardinality(Claims(rest \union {lb}, sz))
             = Cardinality(Claims(rest, sz)) + ALLOC_HEADER_SZ + sz[lb]
    BY <1>4, <2>2, <2>3, ClaimsAdd
  <2>5. k + ALLOC_HEADER_SZ + sz[lb]
          = k + ALLOC_HEADER_SZ + (size[lb] + ALLOC_NODE_SZ + size[b])
    BY <1>4
  <2> QED
    BY <2>2, <2>3, <2>4, <2>5
<1>10. k + ALLOC_HEADER_SZ + (size[lb] + ALLOC_NODE_SZ + size[b])
         = HeapEnd - FirstBlock + drift'
  <2>1. HeapEnd - FirstBlock + drift
          = (k + ALLOC_HEADER_SZ + size[lb]) + ALLOC_HEADER_SZ + size[b]
    BY <1>5, <1>6, <1>8
  <2>2. PICK t \in Int, x \in Int, y \in Int :
          t = HeapEnd - FirstBlock /\ x = size[lb] /\ y = size[b]
    BY <1>4
  <2>3. t + drift = (k + ALLOC_HEADER_SZ + x) + ALLOC_HEADER_SZ + y
    BY <2>1, <2>2
  <2>4. k + ALLOC_HEADER_SZ + (x + ALLOC_NODE_SZ + y)
          = t + (drift + ALLOC_NODE_SZ - ALLOC_HEADER_SZ)
    BY <1>4, <1>8, <2>3
  <2> QED
    BY <1>2, <2>2, <2>4
<1>11. HeapEnd' = HeapEnd /\ FirstBlock' = FirstBlock
  BY DEF HeapEnd, FirstBlock, AlignAddr
<1>12. ClaimedBytes' = Claims(Blocks', sz) /\ Blocks' # {}
  BY <1>1, <1>2, <1>3, ClaimedBytesAreClaims
<1> QED
  BY <1>9, <1>10, <1>11, <1>12 DEF Counted

LEMMA CountedStep ==
  ASSUME IInv, LowDrift, Counted, [Next]_vars
  PROVE  Counted'
<1>1. Core
  BY DEF IInv
<1>2. CASE HeapInit
  BY <1>2, HeapInitCounts
<1>3. CASE size' = size /\ drift' = drift
  BY <1>3 DEF Counted, ClaimedBytes, Blocks, HeapEnd, FirstBlock, AlignAddr
<1>4. ASSUME NEW request \in Requests, Malloc(request)
      PROVE  Counted'
  <2>1. PICK i \in 1 .. Len(free_list), blk \in Nat :
          /\ HandOut(blk, request)
          /\ \/ WholeBlock(i, AlignSize(request))
             \/ \E new_blk \in Nat : SplitAt(i, AlignSize(request), blk, new_blk)
    BY <1>1, <1>4, MallocCases
  <2>2. drift' = drift /\ AlignSize(request) \in Nat
    BY <1>4, ArenaAssumption, AlignSizeNat DEF Malloc
  <2>3. CASE WholeBlock(i, AlignSize(request))
    BY <1>3, <2>2, <2>3 DEF WholeBlock
  <2>4. CASE \E new_blk \in Nat : SplitAt(i, AlignSize(request), blk, new_blk)
    BY <1>1, <2>2, <2>4, SplitCounts
  <2> QED
    BY <2>1, <2>3, <2>4
<1>5. CASE Absorb
  <2>1. PICK lb \in Nat, b \in Nat : AbsorbAt(lb, b)
    <3>1. cursor - 1 \in 1 .. Len(free_list) /\ cursor \in 1 .. Len(free_list)
      BY <1>1, <1>5, ListFacts DEF Absorb
    <3>2. free_list[cursor - 1] \in Nat /\ free_list[cursor] \in Nat
      BY <1>1, <3>1, ListFacts
    <3> QED
      BY <1>5, <3>2 DEF AbsorbAt
  <2> QED
    BY <1>1, <2>1, AbsorbCounts
<1> QED
  BY <1>2, <1>3, <1>4, <1>5
     DEF Next, vars, MallocFails, Free, Advance, FreeReturns

\* Counted holds as long as the drift is low.
LEMMA CountedAlways == Spec => [](LowDrift => Counted)
<1>1. Init => (LowDrift => Counted)
  BY DEF Init, Counted, Blocks
<1>2. IInv /\ (LowDrift => Counted) /\ [Next]_vars => (LowDrift => Counted)'
  <2> SUFFICES ASSUME IInv, LowDrift => Counted, [Next]_vars, LowDrift'
               PROVE  Counted'
    OBVIOUS
  <2>1. LowDrift
    BY DriftGrows, AbiAssumption DEF IInv, LowDrift
  <2> QED
    BY <2>1, CountedStep
<1> QED
  BY <1>1, <1>2, InductiveInvariant, PTL DEF Spec

\* While the drift is low, splitting, handing out, freeing and coalescing conserve the
\* arena: the claims of its blocks add up to what heap_add_block was given plus what the
\* coalescing has over-counted.
THEOREM SpaceIsConserved == Spec => [](LowDrift => SpaceConserved)
<1>1. Counted => SpaceConserved
  BY DEF Counted, SpaceConserved
<1> QED
  BY <1>1, CountedAlways, PTL

-----------------------------------------------------------------------------
(* Thread creation on the allocator, for every number of threads.  Every    *)
(* step is a step of the heap, so what is shown above of the heap holds;    *)
(* added to it is who holds which block.                                    *)

\* A creation under way holds a struct.
UnderWay == thread # 0 <=> step \in {"malloc stack", "out"}

\* The blocks of threads were asked for in the sizes of structs and stacks.
AskedFor ==
  /\ \A t \in Structs : /\ want[t] = THREAD_SZ
                        /\ want[stack_of[t]] = THREAD_DEFAULT_STACK_SIZE
  /\ thread # 0 => want[thread] = THREAD_SZ

TCore ==
  /\ step \in Steps
  /\ stack_of = [t \in Structs |-> stack_of[t]]
  /\ ThreadsHoldTheHeap
  /\ UnderWay
  /\ AskedFor

\* Creations, and what threads do with the heap, are steps of the heap.
LEMMA StepOfHeap == [TNext]_allVars => [Next]_vars
<1> SUFFICES ASSUME [TNext]_allVars PROVE [Next]_vars
  OBVIOUS
<1>1. OtherRequests \subseteq Requests /\ THREAD_SZ \in Requests
      /\ THREAD_DEFAULT_STACK_SIZE \in Requests
  BY ThreadSizeAssumption
<1>2. CASE BootHeap
  BY <1>2 DEF BootHeap, Next
<1>3. CASE MallocStruct \/ MallocStructFails
  BY <1>1, <1>3 DEF MallocStruct, MallocStructFails, Next
<1>4. CASE MallocStack \/ MallocStackFails
  BY <1>1, <1>4 DEF MallocStack, MallocStackFails, Next
<1>5. ASSUME NEW request \in OtherRequests, OtherMalloc(request)
      PROVE  Next
  BY <1>1, <1>5 DEF OtherMalloc, Next
<1>6. ASSUME NEW b, Free(b)
      PROVE  Next
  BY <1>6 DEF Free, Next
<1>7. CASE Out \/ Defragments \/ FreeEnds
  BY <1>6, <1>7 DEF Out, Defragments, FreeEnds, Next
<1>8. CASE UNCHANGED allVars
  BY <1>8 DEF allVars
<1>9. ASSUME NEW b \in others, OtherFree(b)
      PROVE  Next
  BY <1>6, <1>9 DEF OtherFree
<1> QED
  BY <1>2, <1>3, <1>4, <1>5, <1>7, <1>8, <1>9 DEF TNext

LEMMA HeapHolds == TSpec => Spec
<1>1. TInit => Init
  BY DEF TInit
<1> QED
  BY <1>1, StepOfHeap, PTL DEF TSpec, Spec

\* What heap_malloc hands out is one new block.
LEMMA MallocVends ==
  ASSUME Core, NEW request \in Requests, Malloc(request)
  PROVE  /\ Vended \notin vended /\ Vended # 0
         /\ vended' = vended \union {Vended}
         /\ want' = [b \in vended' |-> IF b = Vended THEN request ELSE want[b]]
<1>1. PICK i \in 1 .. Len(free_list), blk \in Nat :
        blk \in Blocks \ vended /\ HandOut(blk, request)
  BY MallocCases
<1>2. /\ vended' = vended \union {blk}
      /\ want' = [b \in vended' |-> IF b = blk THEN request ELSE want[b]]
  BY <1>1 DEF HandOut
<1>3. vended' \ vended = {blk}
  BY <1>1, <1>2
<1>4. Vended = blk
  BY <1>3 DEF Vended
<1>5. blk # 0
  BY <1>1, LayoutFacts, FirstBlockInArena, ArenaAssumption
<1> QED
  BY <1>1, <1>2, <1>4, <1>5

\* What TCore says of who holds what.
LEMMA HoldersFacts ==
  ASSUME Core, TCore
  PROVE  /\ vended \subseteq Blocks
         /\ 0 \notin Blocks
         /\ vended = Structs \union Stacks \union others \union ({thread} \ {0})
         /\ \A t \in Structs : stack_of[t] \in Stacks
         /\ (Structs \union Stacks) \intersect (others \union {thread}) = {}
         /\ thread \notin others
<1>1. vended \subseteq Blocks
  BY DEF Core, TypeOK
<1>2. 0 \notin Blocks
  BY LayoutFacts, FirstBlockInArena, ArenaAssumption
<1> QED
  BY <1>1, <1>2 DEF TCore, ThreadsHoldTheHeap, Stacks

LEMMA TypesFollow ==
  ASSUME Core, TCore
  PROVE  TTypeOK
<1>1. TypeOK
  BY DEF Core
<1>2. stack_of \in [Structs -> Blocks]
  <2>1. \A t \in Structs : stack_of[t] \in Blocks
    BY HoldersFacts
  <2> QED
    BY <2>1 DEF TCore
<1>3. thread \in Blocks \union {0} /\ others \subseteq Blocks
  BY HoldersFacts
<1> QED
  BY <1>1, <1>2, <1>3 DEF TTypeOK, TCore

-----------------------------------------------------------------------------
(* Every step keeps it. *)

LEMMA QuietStep ==
  ASSUME TCore, vended' = vended, want' = want, step' \in Steps,
         UNCHANGED <<thread, stack_of, others>>,
         step' \in {"malloc stack", "out"} <=> step \in {"malloc stack", "out"}
  PROVE  TCore'
<1>1. Structs' = Structs /\ Stacks' = Stacks
  BY DEF Structs, Stacks
<1>2. ThreadsHoldTheHeap'
  BY <1>1 DEF TCore, ThreadsHoldTheHeap
<1>3. AskedFor'
  BY <1>1 DEF TCore, AskedFor
<1>4. UnderWay'
  BY DEF TCore, UnderWay
<1>5. (stack_of = [t \in Structs |-> stack_of[t]])'
  BY <1>1 DEF TCore
<1> QED
  BY <1>2, <1>3, <1>4, <1>5 DEF TCore, Steps

LEMMA MallocStructStep ==
  ASSUME Core, TCore, MallocStruct
  PROVE  TCore'
<1>1. /\ step = "none" /\ step' = "malloc stack" /\ thread' = Vended
      /\ stack_of' = stack_of /\ others' = others
      /\ Malloc(THREAD_SZ) /\ THREAD_SZ \in Requests
  BY ThreadSizeAssumption DEF MallocStruct
<1>2. PICK blk : blk = Vended
  OBVIOUS
<1>3. /\ blk \notin vended /\ blk # 0 /\ vended' = vended \union {blk}
      /\ want' = [b \in vended' |-> IF b = blk THEN THREAD_SZ ELSE want[b]]
  BY <1>1, <1>2, MallocVends
<1>4. thread = 0
  BY <1>1 DEF TCore, UnderWay
<1>5. ThreadsHoldTheHeap'
  <2>1. Structs' = Structs /\ Stacks' = Stacks
    BY <1>1 DEF Structs, Stacks
  <2>2. /\ Structs \union Stacks \subseteq vended /\ others \subseteq vended
        /\ vended = Structs \union Stacks \union others
        /\ (Structs \union Stacks) \intersect others = {}
    BY <1>4, HoldersFacts
  <2>3. /\ vended' = Structs' \union Stacks' \union others' \union ({thread'} \ {0})
        /\ (Structs' \union Stacks') \intersect (others' \union {thread'}) = {}
        /\ thread' \notin others'
    BY <1>1, <1>2, <1>3, <2>1, <2>2
  <2> QED
    BY <1>1, <2>1, <2>3 DEF TCore, ThreadsHoldTheHeap
<1>6. AskedFor'
  <2>1. ASSUME NEW t \in Structs
        PROVE  t \in vended /\ stack_of[t] \in vended
    BY HoldersFacts
  <2> QED
    BY <1>1, <1>2, <1>3, <2>1 DEF TCore, AskedFor, Structs
<1> QED
  BY <1>1, <1>2, <1>3, <1>5, <1>6 DEF TCore, UnderWay, Steps, Structs

LEMMA MallocStackStep ==
  ASSUME Core, TCore, MallocStack
  PROVE  TCore'
<1>1. /\ step = "malloc stack" /\ step' = "none" /\ thread' = 0 /\ others' = others
      /\ stack_of' = [t \in Structs \union {thread} |->
                        IF t = thread THEN Vended ELSE stack_of[t]]
      /\ Malloc(THREAD_DEFAULT_STACK_SIZE) /\ THREAD_DEFAULT_STACK_SIZE \in Requests
  BY ThreadSizeAssumption DEF MallocStack
<1>2. PICK blk : blk = Vended
  OBVIOUS
<1>3. /\ blk \notin vended /\ blk # 0 /\ vended' = vended \union {blk}
      /\ want' = [b \in vended' |->
                    IF b = blk THEN THREAD_DEFAULT_STACK_SIZE ELSE want[b]]
  BY <1>1, <1>2, MallocVends
<1>4. /\ thread # 0 /\ thread \in vended /\ thread \notin Structs \union Stacks
      /\ thread \notin others
  BY <1>1, HoldersFacts DEF TCore, UnderWay
<1>5. /\ Structs' = Structs \union {thread}
      /\ stack_of'[thread] = blk
      /\ \A t \in Structs : stack_of'[t] = stack_of[t]
  BY <1>1, <1>2, <1>4 DEF Structs
<1>6. Stacks' = Stacks \union {blk}
  BY <1>5 DEF Stacks
<1>7. ThreadsHoldTheHeap'
  <2>1. vended' = Structs' \union Stacks' \union others' \union ({thread'} \ {0})
    BY <1>1, <1>3, <1>4, <1>5, <1>6, HoldersFacts
  <2>2. (Structs' \union Stacks') \intersect (others' \union {thread'}) = {}
    <3>1. /\ 0 \notin vended
          /\ Structs \union Stacks \subseteq vended /\ others \subseteq vended
          /\ (Structs \union Stacks) \intersect others = {}
      BY HoldersFacts
    <3> QED
      BY <1>1, <1>3, <1>4, <1>5, <1>6, <3>1
  <2>3. thread' \notin others'
    <3>1. 0 \notin others
      BY HoldersFacts
    <3> QED
      BY <1>1, <3>1
  <2>4. ASSUME NEW t \in Structs', NEW u \in Structs'
        PROVE  stack_of'[t] # u /\ (t # u => stack_of'[t] # stack_of'[u])
    <3>1. \A v \in Structs : v \in vended /\ stack_of[v] \in vended /\ stack_of[v] # thread
      BY <1>4, HoldersFacts
    <3>2. \A v, w \in Structs : stack_of[v] # w /\ (v # w => stack_of[v] # stack_of[w])
      BY DEF TCore, ThreadsHoldTheHeap
    <3> QED
      BY <1>3, <1>4, <1>5, <3>1, <3>2
  <2> QED
    BY <2>1, <2>2, <2>3, <2>4 DEF ThreadsHoldTheHeap
<1>8. AskedFor'
  <2>1. ASSUME NEW t \in Structs'
        PROVE  /\ want'[t] = THREAD_SZ
               /\ want'[stack_of'[t]] = THREAD_DEFAULT_STACK_SIZE
    <3>1. CASE t = thread
      BY <1>3, <1>4, <1>5, <3>1 DEF TCore, AskedFor
    <3>2. CASE t \in Structs
      <4>1. t \in vended /\ stack_of[t] \in vended
        BY <3>2, HoldersFacts
      <4> QED
        BY <1>3, <1>5, <3>2, <4>1 DEF TCore, AskedFor
    <3> QED
      BY <1>5, <3>1, <3>2
  <2> QED
    BY <1>1, <2>1 DEF AskedFor
<1>9. stack_of' = [t \in Structs' |-> stack_of'[t]]
  BY <1>1, <1>5
<1> QED
  BY <1>1, <1>7, <1>8, <1>9 DEF TCore, UnderWay, Steps

LEMMA OtherMallocStep ==
  ASSUME Core, TCore, NEW request \in OtherRequests, OtherMalloc(request)
  PROVE  TCore'
<1>1. /\ step = "none" /\ step' = step /\ thread' = thread
      /\ stack_of' = stack_of /\ others' = others \union {Vended}
      /\ Malloc(request) /\ request \in Requests
  BY ThreadSizeAssumption DEF OtherMalloc
<1>2. PICK blk : blk = Vended
  OBVIOUS
<1>3. /\ blk \notin vended /\ blk # 0 /\ vended' = vended \union {blk}
      /\ want' = [b \in vended' |-> IF b = blk THEN request ELSE want[b]]
  BY <1>1, <1>2, MallocVends
<1>4. thread = 0
  BY <1>1 DEF TCore, UnderWay
<1>5. ThreadsHoldTheHeap'
  BY <1>1, <1>2, <1>3, <1>4 DEF TCore, ThreadsHoldTheHeap, Structs, Stacks
<1>6. AskedFor'
  <2>1. ASSUME NEW t \in Structs
        PROVE  t \in vended /\ stack_of[t] \in vended
    BY HoldersFacts
  <2> QED
    BY <1>1, <1>3, <1>4, <2>1 DEF TCore, AskedFor, Structs
<1> QED
  BY <1>1, <1>4, <1>5, <1>6 DEF TCore, UnderWay, Steps, Structs

\* heap_free takes a block from its holder, whoever that is.
LEMMA FreeingStep ==
  ASSUME Core, TCore, NEW b, Free(b),
         step' = "in heap_free", thread' = 0, stack_of' = stack_of,
         \/ b = thread /\ thread # 0 /\ others' = others
         \/ b \in others /\ thread = 0 /\ others' = others \ {b}
  PROVE  TCore'
<1>1. vended' = vended \ {b} /\ want' = [c \in vended' |-> want[c]]
  BY DEF Free
<1>2. b \notin Structs \union Stacks /\ 0 \notin vended
  BY HoldersFacts
<1>3. Structs' = Structs /\ Stacks' = Stacks
  BY DEF Structs, Stacks
<1>4. vended' = Structs' \union Stacks' \union others' \union ({thread'} \ {0})
  BY <1>1, <1>2, <1>3, HoldersFacts
<1>5. ThreadsHoldTheHeap'
  <2>1. /\ (Structs' \union Stacks') \intersect (others' \union {thread'}) = {}
        /\ thread' \notin others'
    BY <1>2, <1>3, HoldersFacts
  <2> QED
    BY <1>3, <1>4, <2>1 DEF TCore, ThreadsHoldTheHeap
<1>6. AskedFor'
  <2>1. ASSUME NEW t \in Structs
        PROVE  t \in vended' /\ stack_of[t] \in vended'
    BY <1>1, <1>2, HoldersFacts
  <2> QED
    BY <1>1, <1>3, <2>1 DEF TCore, AskedFor
<1> QED
  BY <1>3, <1>5, <1>6 DEF TCore, UnderWay, Steps

LEMMA TInitTCore == TInit => TCore
<1> SUFFICES ASSUME TInit PROVE TCore
  OBVIOUS
<1>1. /\ step = "none" /\ thread = 0 /\ stack_of = <<>> /\ others = {} /\ vended = {}
  BY DEF TInit, Init
<1>2. Structs = {} /\ Stacks = {} /\ stack_of = [t \in Structs |-> stack_of[t]]
  BY <1>1 DEF Structs, Stacks
<1> QED
  BY <1>1, <1>2 DEF TCore, ThreadsHoldTheHeap, UnderWay, AskedFor, Steps

LEMMA TCoreStep ==
  ASSUME Core, TCore, [TNext]_allVars
  PROVE  TCore'
<1>1. step \in Steps
  BY DEF TCore
<1>2. CASE BootHeap \/ MallocStructFails \/ MallocStackFails \/ Defragments \/ FreeEnds
           \/ UNCHANGED allVars
  <2>1. /\ vended' = vended /\ want' = want
        /\ UNCHANGED <<thread, stack_of, others>>
        /\ step' \in Steps
        /\ step' \in {"malloc stack", "out"} <=> step \in {"malloc stack", "out"}
    BY <1>1, <1>2 DEF BootHeap, HeapInit, MallocStructFails, MallocStackFails, MallocFails,
                      Defragments, Absorb, Advance, FreeEnds, FreeReturns, allVars, tvars,
                      vars, Steps
  <2> QED
    BY <2>1, QuietStep
<1>3. CASE MallocStruct
  BY <1>3, MallocStructStep
<1>4. CASE MallocStack
  BY <1>4, MallocStackStep
<1>5. ASSUME NEW request \in OtherRequests, OtherMalloc(request)
      PROVE  TCore'
  BY <1>5, OtherMallocStep
<1>6. ASSUME NEW b \in others, OtherFree(b)
      PROVE  TCore'
  <2>1. thread = 0
    BY <1>6 DEF OtherFree, TCore, UnderWay
  <2> QED
    BY <1>6, <2>1, FreeingStep DEF OtherFree
<1>7. CASE Out
  <2>1. thread # 0
    BY <1>7 DEF Out, TCore, UnderWay
  <2> QED
    BY <1>7, <2>1, FreeingStep DEF Out
<1> QED
  BY <1>2, <1>3, <1>4, <1>5, <1>6, <1>7 DEF TNext

LEMMA TInductiveInvariant == TSpec => [](LowDrift => TCore)
<1>1. TInit => (LowDrift => TCore)
  BY TInitTCore
<1>2. IInv /\ (LowDrift => TCore) /\ [TNext]_allVars => (LowDrift => TCore)'
  <2> SUFFICES ASSUME IInv, LowDrift => TCore, [TNext]_allVars, LowDrift'
               PROVE  TCore'
    OBVIOUS
  <2>1. [Next]_vars
    BY StepOfHeap
  <2>2. LowDrift
    BY <2>1, DriftGrows, AbiAssumption DEF IInv, LowDrift
  <2> QED
    BY <2>2, TCoreStep DEF IInv
<1> QED
  BY <1>1, <1>2, HeapHolds, InductiveInvariant, PTL DEF TSpec

-----------------------------------------------------------------------------
(* So many threads, and no more. *)

\* The bytes of a struct and of a stack are different bytes of the arena.
LEMMA ThreadsFit ==
  ASSUME Core, TCore, Counted, BigEnough
  PROVE  ThreadsFitTheHeap
<1> DEFINE k == ALLOC_HEADER_SZ + THREAD_SZ
           m == ALLOC_HEADER_SZ + THREAD_DEFAULT_STACK_SIZE
           claim == [x \in Structs \X (1 .. k + m) |->
                       IF x[2] <= k THEN <<x[1], x[2]>>
                       ELSE <<stack_of[x[1]], x[2] - k>>]
<1>1. /\ THREAD_SZ \in Nat /\ THREAD_DEFAULT_STACK_SIZE \in Nat /\ ALLOC_HEADER_SZ \in Nat
      /\ k \in Nat /\ m \in Nat /\ k + m \in Nat
  <2>1. THREAD_SZ \in Requests /\ THREAD_DEFAULT_STACK_SIZE \in Requests
    BY ThreadSizeAssumption
  <2>2. THREAD_SZ \in 0 .. SIZE_MOD - 1 /\ THREAD_DEFAULT_STACK_SIZE \in 0 .. SIZE_MOD - 1
    BY <2>1, ArenaAssumption
  <2>3. THREAD_SZ \in Nat /\ THREAD_DEFAULT_STACK_SIZE \in Nat /\ ALLOC_HEADER_SZ \in Nat
    BY <2>2, AbiAssumption
  <2> QED
    BY <2>3
<1>2. ASSUME NEW t \in Structs
      PROVE  /\ t \in Blocks /\ stack_of[t] \in Blocks
             /\ size[t] \in Nat /\ size[stack_of[t]] \in Nat
             /\ k <= ALLOC_HEADER_SZ + size[t]
             /\ m <= ALLOC_HEADER_SZ + size[stack_of[t]]
  <2>1. t \in vended /\ stack_of[t] \in vended /\ t \in Blocks /\ stack_of[t] \in Blocks
    BY HoldersFacts
  <2>2. size[t] >= THREAD_SZ /\ size[stack_of[t]] >= THREAD_DEFAULT_STACK_SIZE
    BY <2>1 DEF BigEnough, TCore, AskedFor
  <2> QED
    BY <1>1, <2>1, <2>2, LayoutFacts
<1>3. CASE Structs = {}
  <2>1. Cardinality(Structs) = 0
    BY <1>3, FS_EmptySet
  <2>2. 2 * ALLOC_HEADER_SZ + THREAD_SZ + THREAD_DEFAULT_STACK_SIZE \in Nat
        /\ HEAP_SIZE + drift \in Nat
    BY <1>1, LayoutFacts, ArenaAssumption
  <2> QED
    BY <2>1, <2>2 DEF ThreadsFitTheHeap
<1>4. CASE Structs # {}
  <2>1. /\ IsFiniteSet(ClaimedBytes)
        /\ Cardinality(ClaimedBytes) = HeapEnd - FirstBlock + drift
    BY <1>2, <1>4 DEF Counted
  <2>2. ASSUME NEW t \in Structs, NEW i \in 1 .. k + m
        PROVE  /\ claim[<<t, i>>] = IF i <= k THEN <<t, i>> ELSE <<stack_of[t], i - k>>
               /\ claim[<<t, i>>] \in ClaimedBytes
    <3>1. claim[<<t, i>>] = IF i <= k THEN <<t, i>> ELSE <<stack_of[t], i - k>>
      OBVIOUS
    <3>2. CASE i <= k
      <4>1. i \in 1 .. ALLOC_HEADER_SZ + size[t]
        BY <1>1, <1>2, <3>2
      <4>2. <<t, i>> \in {t} \X (1 .. ALLOC_HEADER_SZ + size[t])
        BY <4>1
      <4>3. <<t, i>> \in ClaimedBytes
        BY <1>2, <4>2 DEF ClaimedBytes
      <4>4. claim[<<t, i>>] = <<t, i>>
        BY <3>1, <3>2
      <4> HIDE DEF claim, k, m
      <4> QED
        BY <3>1, <4>3, <4>4
    <3>3. CASE ~ (i <= k)
      <4>1. i - k \in 1 .. ALLOC_HEADER_SZ + size[stack_of[t]]
        BY <1>1, <1>2, <3>3
      <4>2. <<stack_of[t], i - k>>
              \in {stack_of[t]} \X (1 .. ALLOC_HEADER_SZ + size[stack_of[t]])
        BY <4>1
      <4>3. <<stack_of[t], i - k>> \in ClaimedBytes
        BY <1>2, <4>2 DEF ClaimedBytes
      <4>4. claim[<<t, i>>] = <<stack_of[t], i - k>>
        BY <3>1, <3>3
      <4> HIDE DEF claim, k, m
      <4> QED
        BY <3>1, <4>3, <4>4
    <3> HIDE DEF claim, k, m
    <3> QED
      BY <3>2, <3>3, Zenon
  <2>3. ASSUME NEW t \in Structs, NEW i \in 1 .. k + m,
               NEW u \in Structs, NEW j \in 1 .. k + m,
               claim[<<t, i>>] = claim[<<u, j>>]
        PROVE  <<t, i>> = <<u, j>>
    <3>1. /\ stack_of[t] # u /\ stack_of[u] # t
          /\ t # u => stack_of[t] # stack_of[u]
      BY DEF TCore, ThreadsHoldTheHeap
    <3>2. (IF i <= k THEN <<t, i>> ELSE <<stack_of[t], i - k>>)
            = (IF j <= k THEN <<u, j>> ELSE <<stack_of[u], j - k>>)
      BY <2>2, <2>3
    <3>3. i - k = j - k => i = j
      BY <1>1
    <3> QED
      BY <3>1, <3>2, <3>3
  <2>4. claim \in Injection(Structs \X (1 .. k + m), ClaimedBytes)
    <3>1. ASSUME NEW x \in Structs \X (1 .. k + m)
          PROVE  claim[x] \in ClaimedBytes
      <4>1. x = <<x[1], x[2]>> /\ x[1] \in Structs /\ x[2] \in 1 .. k + m
        OBVIOUS
      <4> HIDE DEF claim
      <4> QED
        BY <2>2, <4>1
    <3>2. ASSUME NEW x \in Structs \X (1 .. k + m), NEW y \in Structs \X (1 .. k + m),
                 claim[x] = claim[y]
          PROVE  x = y
      <4>1. /\ x = <<x[1], x[2]>> /\ x[1] \in Structs /\ x[2] \in 1 .. k + m
            /\ y = <<y[1], y[2]>> /\ y[1] \in Structs /\ y[2] \in 1 .. k + m
        OBVIOUS
      <4> HIDE DEF claim
      <4> QED
        BY <2>3, <3>2, <4>1
    <3>3. claim \in [Structs \X (1 .. k + m) -> ClaimedBytes]
      BY <3>1
    <3> HIDE DEF claim
    <3>4. DOMAIN claim = Structs \X (1 .. k + m)
      BY <3>3
    <3>5. IsInjective(claim)
      BY <3>2, <3>4 DEF IsInjective
    <3> QED
      BY <3>3, <3>5 DEF Injection
  <2>5. IsFiniteSet(Structs)
    <3>1. Structs \subseteq 0 .. HeapEnd
      <4>1. ASSUME NEW t \in Structs PROVE t \in 0 .. HeapEnd
        BY <1>1, <1>2, LayoutFacts
      <4> QED
        BY <4>1
    <3>2. IsFiniteSet(0 .. HeapEnd)
      BY LayoutFacts, FS_Interval
    <3> QED
      BY <3>1, <3>2, FS_Subset
  <2>6. /\ Cardinality(Structs \X (1 .. k + m)) = Cardinality(Structs) * (k + m)
        /\ Cardinality(Structs) \in Nat
    <3>1. IsFiniteSet(1 .. k + m) /\ Cardinality(1 .. k + m) = k + m
      <4>1. 1 \in Int /\ k + m \in Int
        BY <1>1
      <4>2. /\ IsFiniteSet(1 .. k + m)
            /\ Cardinality(1 .. k + m) = IF 1 > k + m THEN 0 ELSE (k + m) - 1 + 1
        BY <4>1, FS_Interval
      <4> QED
        BY <1>1, <4>2
    <3> QED
      BY <2>5, <3>1, FS_Product, FS_CardinalityType
  <2>7. Cardinality(Structs \X (1 .. k + m)) <= Cardinality(ClaimedBytes)
    <3> HIDE DEF claim
    <3> QED
      BY <2>1, <2>4, FS_Injection
  <2>8. HeapEnd - FirstBlock + drift <= HEAP_SIZE + drift
    BY FirstBlockInArena, ArenaAssumption, LayoutFacts DEF HeapEnd
  <2>9. 2 * ALLOC_HEADER_SZ + THREAD_SZ + THREAD_DEFAULT_STACK_SIZE = k + m
    BY <1>1
  <2>10. HeapEnd - FirstBlock + drift \in Int /\ HEAP_SIZE + drift \in Int
    BY LayoutFacts, ArenaAssumption
  <2>11. Cardinality(Structs) * (k + m) <= HeapEnd - FirstBlock + drift
    BY <2>1, <2>6, <2>7
  <2>12. Cardinality(Structs) * (k + m) \in Int
    BY <1>1, <2>6
  <2>13. Cardinality(Structs) * (k + m) <= HEAP_SIZE + drift
    <3>1. \A p, q, r \in Int : p <= q /\ q <= r => p <= r
      OBVIOUS
    <3> QED
      BY <2>8, <2>10, <2>11, <2>12, <3>1
  <2> QED
    BY <2>9, <2>13 DEF ThreadsFitTheHeap
<1> QED
  BY <1>3, <1>4

-----------------------------------------------------------------------------
(* The theorems. *)

\* While the drift is low, every block of the kernel's memory has its holder, whichever
\* allocation of a creation fails, and there are never more threads than fit the arena.
THEOREM MemoryIsSound ==
  ASSUME RequestsFit
  PROVE  TSpec => [](LowDrift => MemorySound)
<1>1. IInv /\ (LowDrift => TCore) /\ (LowDrift => Counted) /\ (LowDrift => BigEnough)
        => (LowDrift => MemorySound)
  BY TypesFollow, ThreadsFit DEF IInv, TCore, MemorySound
<1>2. Spec => [](LowDrift => BigEnough)
  BY ClientsGetEnough
<1> QED
  BY <1>1, <1>2, HeapHolds, InductiveInvariant, TInductiveInvariant, CountedAlways, PTL

\* While the drift is low, structs and stacks overrun their blocks by at most the drift.
THEOREM OverrunIsAtMostDrift ==
  ASSUME RequestsFit
  PROVE  TSpec => []OverrunAtMostDrift
<1>1. IInv /\ (LowDrift => BigEnough) => OverrunAtMostDrift
  <2> SUFFICES ASSUME IInv, BigEnough, LowDrift, NEW b \in vended
               PROVE  LET end == b + ALLOC_HEADER_SZ + want[b]
                      IN  /\ end <= HeapEnd + drift
                          /\ \A c \in Blocks : b < c => end <= c + drift
    BY DEF OverrunAtMostDrift
  <2>1. Core
    BY DEF IInv
  <2>2. /\ b \in Blocks /\ want[b] \in Nat /\ size[b] \in Nat /\ want[b] <= size[b]
        /\ b \in Nat /\ ALLOC_HEADER_SZ \in Nat /\ drift \in Nat /\ HeapEnd \in Nat
    BY <2>1, LayoutFacts, AbiAssumption DEF BigEnough, Core, TypeOK
  <2>3. b + ALLOC_HEADER_SZ + want[b] <= BlockEnd(b) /\ BlockEnd(b) \in Nat
    BY <2>1, <2>2, LayoutFacts
  <2>4. ASSUME NEW c \in Blocks, b < c
        PROVE  b + ALLOC_HEADER_SZ + want[b] <= c + drift
    <3>1. BlockEnd(b) <= c + drift /\ c \in Nat
      BY <2>1, <2>2, <2>4, LayoutFacts
    <3> QED
      BY <2>2, <2>3, <3>1
  <2>5. b + ALLOC_HEADER_SZ + want[b] <= HeapEnd + drift
    <3>1. BlockEnd(b) <= HeapEnd + drift
      BY <2>1, <2>2, LayoutFacts
    <3> QED
      BY <2>2, <2>3, <3>1
  <2> QED
    BY <2>4, <2>5
<1>2. Spec => [](LowDrift => BigEnough)
  BY ClientsGetEnough
<1> QED
  BY <1>1, <1>2, HeapHolds, InductiveInvariant, PTL

\* While the drift is low, the rest of the kernel sees a creation add a struct and a
\* stack that nobody had, or nothing at all.
THEOREM CreationIsAtomic == TSpec /\ []LowDrift => CreationsAreAtomic
<1>1. ASSUME IInv, IInv', LowDrift, LowDrift', TCore, [TNext]_allVars
      PROVE  [\/ stack_of' = stack_of
              \/ \E t, s \in Blocks' \ (Structs \union Stacks \union others) :
                   /\ t # s
                   /\ stack_of' = [u \in Structs \union {t} |->
                                     IF u = t THEN s ELSE stack_of[u]]]_allVars
  <2>1. CASE MallocStack
    <3>1. Core
      BY <1>1 DEF IInv
    <3>2. /\ step = "malloc stack"
          /\ stack_of' = [t \in Structs \union {thread} |->
                            IF t = thread THEN Vended ELSE stack_of[t]]
          /\ Malloc(THREAD_DEFAULT_STACK_SIZE) /\ THREAD_DEFAULT_STACK_SIZE \in Requests
      BY <2>1, ThreadSizeAssumption DEF MallocStack
    <3>3. PICK blk : blk = Vended
      OBVIOUS
    <3>4. blk \notin vended /\ vended' = vended \union {blk}
      BY <3>1, <3>2, <3>3, MallocVends
    <3>5. /\ thread # 0 /\ thread \in vended /\ thread \notin Structs \union Stacks
          /\ thread \notin others
      BY <1>1, <3>1, <3>2, HoldersFacts DEF TCore, UnderWay
    <3>6. Structs \union Stacks \union others \subseteq vended
      BY <1>1, <3>1, HoldersFacts
    <3>7. vended' \subseteq Blocks'
      BY <1>1 DEF IInv, Core, TypeOK
    <3>8. /\ thread \in Blocks' \ (Structs \union Stacks \union others)
          /\ blk \in Blocks' \ (Structs \union Stacks \union others)
          /\ thread # blk
      BY <3>4, <3>5, <3>6, <3>7
    <3> QED
      BY <3>2, <3>3, <3>8
  <2>2. CASE ~ MallocStack
    BY <1>1, <2>2
       DEF TNext, BootHeap, MallocStruct, MallocStructFails, MallocStackFails, OtherMalloc,
           OtherFree, Out, Defragments, FreeEnds, allVars, tvars
  <2> QED
    BY <2>1, <2>2
<1> QED
  BY <1>1, HeapHolds, InductiveInvariant, TInductiveInvariant, PTL
     DEF TSpec, CreationsAreAtomic

==============================================================================
