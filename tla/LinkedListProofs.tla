--------------------------- MODULE LinkedListProofs ---------------------------
(***************************************************************************)
(* Proofs about the linked list, for any number of nodes: the pointer      *)
(* operations of list.h do what the sequence operations of its clients do, *)
(* and a loop that unlinks nodes on its way meets every one of them.       *)
(***************************************************************************)
EXTENDS LinkedList, SequenceTheorems, TLAPS

-----------------------------------------------------------------------------
(* The ring of a sequence of nodes. *)

\* The place i on the ring of s, with the head before its first node and behind its
\* last.
Place(s, i) == IF i \in 1 .. Len(s) THEN s[i] ELSE head

Distinct(s) == \A i, j \in 1 .. Len(s) : s[i] = s[j] => i = j

\* The fields nx and pv make a ring of s.
Chain(s, nx, pv) ==
  /\ Distinct(s)
  /\ \A i \in 0 .. Len(s) : /\ nx[Place(s, i)] = Place(s, i + 1)
                            /\ pv[Place(s, i + 1)] = Place(s, i)

Field == [Ring -> Ring \union {NULL, Garbage}]

LEMMA PlaceOnRing ==
  ASSUME NEW s \in Seq(Node), NEW i \in Int
  PROVE  /\ Place(s, i) \in Ring
         /\ i \in 1 .. Len(s) => Place(s, i) = s[i] /\ Place(s, i) \in Node
BY ElementOfSeq DEF Place, Ring

\* Linked is stated with the head written at both ends.
LEMMA LinkedIsChain ==
  ASSUME TypeOK
  PROVE  Linked <=> Chain(contents, next, prev)
<1> DEFINE ring == <<head>> \o contents \o <<head>>
<1>1. contents \in Seq(Node) /\ contents \in Seq(Ring) /\ Len(contents) \in Nat
  BY SeqMonotonic DEF TypeOK, Ring
<1>2. <<head>> \in Seq(Ring) /\ Len(<<head>>) = 1 /\ <<head>>[1] = head
  BY DEF Ring
<1> HIDE DEF ring
<1>3. ASSUME NEW i \in 1 .. Len(contents) + 2
      PROVE  ring[i] = Place(contents, i - 1)
  <2> DEFINE front == <<head>> \o contents
  <2>1. /\ front \in Seq(Ring) /\ Len(front) = Len(contents) + 1
        /\ \A j \in 1 .. Len(contents) + 1 :
             front[j] = IF j <= 1 THEN <<head>>[j] ELSE contents[j - 1]
    BY <1>1, <1>2, ConcatProperties
  <2> HIDE DEF front
  <2>2. ring = front \o <<head>>
    BY DEF ring, front
  <2>3. \A j \in 1 .. Len(contents) + 2 :
          ring[j] = IF j <= Len(contents) + 1 THEN front[j]
                    ELSE <<head>>[j - (Len(contents) + 1)]
    BY <1>1, <1>2, <2>1, <2>2, ConcatProperties
  <2> QED
    BY <1>1, <1>2, <2>1, <2>3 DEF Place
<1>4. IsInjective(contents) <=> Distinct(contents)
  BY <1>1, LenProperties DEF IsInjective, Distinct
<1>5. (\A i \in 1 .. Len(contents) + 1 :
         next[ring[i]] = ring[i + 1] /\ prev[ring[i + 1]] = ring[i])
      <=> (\A i \in 0 .. Len(contents) :
             /\ next[Place(contents, i)] = Place(contents, i + 1)
             /\ prev[Place(contents, i + 1)] = Place(contents, i))
  <2>1. ASSUME NEW i \in 0 .. Len(contents)
        PROVE  ring[i + 1] = Place(contents, i) /\ ring[i + 2] = Place(contents, i + 1)
    BY <1>1, <1>3
  <2>2. ASSUME NEW i \in 1 .. Len(contents) + 1
        PROVE  ring[i] = Place(contents, i - 1) /\ ring[i + 1] = Place(contents, i)
    BY <1>1, <1>3
  <2>3. ASSUME \A i \in 1 .. Len(contents) + 1 :
                 next[ring[i]] = ring[i + 1] /\ prev[ring[i + 1]] = ring[i],
               NEW i \in 0 .. Len(contents)
        PROVE  /\ next[Place(contents, i)] = Place(contents, i + 1)
               /\ prev[Place(contents, i + 1)] = Place(contents, i)
    <3>1. i + 1 \in 1 .. Len(contents) + 1 /\ (i + 1) + 1 = i + 2
      BY <1>1
    <3> QED
      BY <2>1, <2>3, <3>1
  <2>4. ASSUME \A i \in 0 .. Len(contents) :
                 /\ next[Place(contents, i)] = Place(contents, i + 1)
                 /\ prev[Place(contents, i + 1)] = Place(contents, i),
               NEW i \in 1 .. Len(contents) + 1
        PROVE  next[ring[i]] = ring[i + 1] /\ prev[ring[i + 1]] = ring[i]
    <3>1. i - 1 \in 0 .. Len(contents) /\ (i - 1) + 1 = i
      BY <1>1
    <3> QED
      BY <2>2, <2>4, <3>1
  <2> QED
    BY <2>3, <2>4
<1> QED
  BY <1>4, <1>5 DEF Linked, Chain, ring

-----------------------------------------------------------------------------
(* The two pointer operations. *)

\* list_insert puts x between the places k and k + 1 of the ring.
LEMMA InsertKeepsChain ==
  ASSUME NEW s \in Seq(Node), NEW nx \in Field, NEW pv \in Field, Chain(s, nx, pv),
         NEW k \in 0 .. Len(s), NEW x \in Node, \A i \in 1 .. Len(s) : s[i] # x,
         NEW t \in Seq(Node), Len(t) = Len(s) + 1,
         \A i \in 1 .. Len(t) :
           t[i] = IF i <= k THEN s[i] ELSE IF i = k + 1 THEN x ELSE s[i - 1]
  PROVE  Chain(t, [nx EXCEPT ![x] = Place(s, k + 1), ![Place(s, k)] = x],
                  [pv EXCEPT ![Place(s, k + 1)] = x, ![x] = Place(s, k)])
<1> DEFINE nx2 == [nx EXCEPT ![x] = Place(s, k + 1), ![Place(s, k)] = x]
           pv2 == [pv EXCEPT ![Place(s, k + 1)] = x, ![x] = Place(s, k)]
<1>1. Len(s) \in Nat /\ x \in Ring /\ x # head
  BY PointerAssumption DEF Ring
<1>2. \A i \in Int : Place(s, i) \in Ring /\ Place(s, i) # x
  BY <1>1, PlaceOnRing DEF Place
<1>3. /\ nx2[x] = Place(s, k + 1) /\ nx2[Place(s, k)] = x
      /\ pv2[Place(s, k + 1)] = x /\ pv2[x] = Place(s, k)
      /\ \A y \in Ring \ {x, Place(s, k)} : nx2[y] = nx[y]
      /\ \A y \in Ring \ {x, Place(s, k + 1)} : pv2[y] = pv[y]
  BY <1>1, <1>2 DEF Field
<1> HIDE DEF nx2, pv2
\* The head is at both ends of the ring, every node at one place.
<1>4. ASSUME NEW i \in 0 .. Len(s), NEW j \in 0 .. Len(s), i # j
      PROVE  Place(s, i) # Place(s, j) /\ Place(s, i + 1) # Place(s, j + 1)
  <2>1. \A l \in 1 .. Len(s) : s[l] \in Node /\ s[l] # head
    BY ElementOfSeq, PointerAssumption
  <2> QED
    BY <1>1, <1>4, <2>1 DEF Chain, Distinct, Place
<1>5. \A i \in 0 .. Len(t) + 1 :
        Place(t, i) = IF i <= k THEN Place(s, i)
                      ELSE IF i = k + 1 THEN x ELSE Place(s, i - 1)
  BY <1>1 DEF Place
<1>6. Distinct(t)
  <2>1. Distinct(s)
    BY DEF Chain
  <2>2. ASSUME NEW i \in 1 .. Len(t), NEW j \in 1 .. Len(t), i < j, t[i] = t[j]
        PROVE  FALSE
    <3>1. ASSUME NEW m \in 1 .. Len(t), m # k + 1
          PROVE  \E l \in 1 .. Len(s) : t[m] = s[l] /\ l = IF m <= k THEN m ELSE m - 1
      BY <1>1, <3>1
    <3>2. t[k + 1] = x /\ k + 1 \in 1 .. Len(t)
      BY <1>1
    <3>3. i # k + 1 /\ j # k + 1
      <4>1. \A m \in 1 .. Len(t) : m # k + 1 => t[m] # x
        BY <3>1
      <4>2. i # j
        BY <2>2
      <4> QED
        BY <2>2, <3>2, <4>1, <4>2
    <3>4. PICK l \in 1 .. Len(s) : t[i] = s[l] /\ l = IF i <= k THEN i ELSE i - 1
      BY <3>1, <3>3
    <3>5. PICK m \in 1 .. Len(s) : t[j] = s[m] /\ m = IF j <= k THEN j ELSE j - 1
      BY <3>1, <3>3
    <3>6. l = m
      BY <2>1, <2>2, <3>4, <3>5 DEF Distinct
    <3> QED
      BY <1>1, <2>2, <3>3, <3>4, <3>5, <3>6
  <2>3. \A i, j \in 1 .. Len(t) : i < j \/ j < i \/ i = j
    BY <1>1
  <2> QED
    BY <2>2, <2>3 DEF Distinct
<1>7. ASSUME NEW i \in 0 .. Len(t)
      PROVE  /\ nx2[Place(t, i)] = Place(t, i + 1)
             /\ pv2[Place(t, i + 1)] = Place(t, i)
  <2>1. CASE i < k
    <3>1. Place(t, i) = Place(s, i) /\ Place(t, i + 1) = Place(s, i + 1)
      BY <1>1, <1>5, <2>1
    <3>2. i \in 0 .. Len(s) /\ Place(s, i) # Place(s, k) /\ Place(s, i + 1) # Place(s, k + 1)
      BY <1>1, <1>4, <2>1
    <3>3. /\ nx[Place(s, i)] = Place(s, i + 1)
          /\ pv[Place(s, i + 1)] = Place(s, i)
      BY <3>2 DEF Chain
    <3>4. /\ Place(s, i) \in Ring \ {x, Place(s, k)}
          /\ Place(s, i + 1) \in Ring \ {x, Place(s, k + 1)}
      BY <1>2, <3>2
    <3> QED
      BY <1>3, <3>1, <3>3, <3>4
  <2>2. CASE i = k
    <3>1. Place(t, i) = Place(s, k) /\ Place(t, i + 1) = x
      BY <1>1, <1>5, <2>2
    <3> QED
      BY <1>3, <3>1
  <2>3. CASE i = k + 1
    <3>1. Place(t, i) = x /\ Place(t, i + 1) = Place(s, k + 1)
      <4>1. i + 1 \in 0 .. Len(t) + 1 /\ (i + 1) - 1 = k + 1
        BY <1>1, <2>3
      <4> QED
        BY <1>1, <1>5, <2>3, <4>1
    <3> QED
      BY <1>3, <3>1
  <2>4. CASE i > k + 1
    <3>1. PICK j \in 0 .. Len(s) : i = j + 1
      BY <1>1, <2>4
    <3>2. Place(t, i) = Place(s, j) /\ Place(t, i + 1) = Place(s, j + 1)
      <4>1. i + 1 \in 0 .. Len(t) + 1 /\ (i + 1) - 1 = j + 1 /\ i - 1 = j
        BY <1>1, <2>4, <3>1
      <4> QED
        BY <1>1, <1>5, <2>4, <4>1
    <3>3. Place(s, j) # Place(s, k) /\ Place(s, j + 1) # Place(s, k + 1)
      BY <1>1, <1>4, <2>4, <3>1
    <3>4. /\ nx[Place(s, j)] = Place(s, j + 1)
          /\ pv[Place(s, j + 1)] = Place(s, j)
      BY DEF Chain
    <3>5. /\ Place(s, j) \in Ring \ {x, Place(s, k)}
          /\ Place(s, j + 1) \in Ring \ {x, Place(s, k + 1)}
      BY <1>2, <3>3
    <3> QED
      BY <1>3, <3>2, <3>4, <3>5
  <2> QED
    BY <1>1, <2>1, <2>2, <2>3, <2>4
<1> QED
  BY <1>6, <1>7 DEF Chain, nx2, pv2

\* A field once list_del has made it bypass x: g is the field of the other direction.
Bypass(f, g, x) == [f EXCEPT ![g[x]] = f[x], ![x] = NULL]

\* list_del takes the node at place k out of the ring.
LEMMA DeleteKeepsChain ==
  ASSUME NEW s \in Seq(Node), NEW nx \in Field, NEW pv \in Field, Chain(s, nx, pv),
         NEW k \in 1 .. Len(s), NEW x, x = s[k],
         NEW t \in Seq(Node), Len(t) = Len(s) - 1,
         \A i \in 1 .. Len(t) : t[i] = IF i < k THEN s[i] ELSE s[i + 1]
  PROVE  Chain(t, Bypass(nx, pv, x), Bypass(pv, nx, x))
<1> DEFINE nx2 == [nx EXCEPT ![pv[x]] = nx[x], ![x] = NULL]
           pv2 == [pv EXCEPT ![nx[x]] = pv[x], ![x] = NULL]
<1>1. Len(s) \in Nat /\ x \in Ring /\ x # head /\ x = Place(s, k)
  BY PointerAssumption, ElementOfSeq DEF Ring, Place
<1>2. nx[x] = Place(s, k + 1) /\ pv[x] = Place(s, k - 1)
  <2>1. k \in 0 .. Len(s) /\ k - 1 \in 0 .. Len(s) /\ (k - 1) + 1 = k
    BY <1>1
  <2> QED
    BY <1>1, <2>1 DEF Chain
<1>3. \A i \in Int : Place(s, i) \in Ring
  BY PlaceOnRing
\* The head is at both ends of the ring, every node at one place.
<1>4. ASSUME NEW i \in 0 .. Len(s), NEW j \in 0 .. Len(s), i # j
      PROVE  Place(s, i) # Place(s, j) /\ Place(s, i + 1) # Place(s, j + 1)
  <2>1. \A l \in 1 .. Len(s) : s[l] \in Node /\ s[l] # head
    BY ElementOfSeq, PointerAssumption
  <2> QED
    BY <1>1, <1>4, <2>1 DEF Chain, Distinct, Place
<1>5. Place(s, k - 1) # x /\ Place(s, k + 1) # x
  <2>1. k \in 0 .. Len(s) /\ k - 1 \in 0 .. Len(s) /\ (k - 1) + 1 = k
    BY <1>1
  <2> QED
    BY <1>1, <1>4, <2>1
<1>6. /\ nx2[Place(s, k - 1)] = Place(s, k + 1)
      /\ pv2[Place(s, k + 1)] = Place(s, k - 1)
      /\ \A y \in Ring \ {x, Place(s, k - 1)} : nx2[y] = nx[y]
      /\ \A y \in Ring \ {x, Place(s, k + 1)} : pv2[y] = pv[y]
  BY <1>1, <1>2, <1>3, <1>5 DEF Field
<1> HIDE DEF nx2, pv2
<1>7. \A i \in 0 .. Len(t) + 1 : Place(t, i) = IF i < k THEN Place(s, i) ELSE Place(s, i + 1)
  BY <1>1 DEF Place
<1>8. Distinct(t)
  <2>1. Distinct(s)
    BY DEF Chain
  <2>2. ASSUME NEW i \in 1 .. Len(t), NEW j \in 1 .. Len(t), i < j, t[i] = t[j]
        PROVE  FALSE
    BY <1>1, <2>1, <2>2 DEF Distinct
  <2>3. \A i, j \in 1 .. Len(t) : i < j \/ j < i \/ i = j
    BY <1>1
  <2> QED
    BY <2>2, <2>3 DEF Distinct
<1>9. ASSUME NEW i \in 0 .. Len(t)
      PROVE  /\ nx2[Place(t, i)] = Place(t, i + 1)
             /\ pv2[Place(t, i + 1)] = Place(t, i)
  <2>1. CASE i < k - 1
    <3>1. Place(t, i) = Place(s, i) /\ Place(t, i + 1) = Place(s, i + 1)
      BY <1>1, <1>7, <2>1
    <3>2. /\ i \in 0 .. Len(s)
          /\ Place(s, i) # Place(s, k) /\ Place(s, i) # Place(s, k - 1)
          /\ Place(s, i + 1) # Place(s, k) /\ Place(s, i + 1) # Place(s, k + 1)
      <4>1. /\ i \in 0 .. Len(s) /\ k \in 0 .. Len(s) /\ k - 1 \in 0 .. Len(s)
            /\ (k - 1) + 1 = k
        BY <1>1, <2>1
      <4> QED
        BY <1>4, <2>1, <4>1
    <3> QED
      BY <1>1, <1>3, <1>6, <3>1, <3>2 DEF Chain
  <2>2. CASE i = k - 1
    <3>1. Place(t, i) = Place(s, k - 1) /\ Place(t, i + 1) = Place(s, k + 1)
      BY <1>1, <1>7, <2>2
    <3> QED
      BY <1>6, <3>1
  <2>3. CASE i > k - 1
    <3>1. PICK j \in 0 .. Len(s) : j = i + 1
      BY <1>1, <2>3
    <3>2. Place(t, i) = Place(s, j) /\ Place(t, i + 1) = Place(s, j + 1)
      <4>1. i + 1 \in 0 .. Len(t) + 1 /\ (i + 1) + 1 = j + 1
        BY <1>1, <2>3, <3>1
      <4> QED
        BY <1>1, <1>7, <2>3, <3>1, <4>1
    <3>3. /\ Place(s, j) # Place(s, k) /\ Place(s, j) # Place(s, k - 1)
          /\ Place(s, j + 1) # Place(s, k) /\ Place(s, j + 1) # Place(s, k + 1)
      <4>1. k \in 0 .. Len(s) /\ k - 1 \in 0 .. Len(s) /\ (k - 1) + 1 = k
        BY <1>1
      <4> QED
        BY <1>4, <2>3, <3>1, <4>1
    <3>4. /\ Place(s, j) \in Ring /\ Place(s, j + 1) \in Ring
          /\ nx[Place(s, j)] = Place(s, j + 1) /\ pv[Place(s, j + 1)] = Place(s, j)
      BY <1>3, <3>1 DEF Chain
    <3> QED
      BY <1>1, <1>6, <3>2, <3>3, <3>4
  <2> QED
    BY <1>1, <2>1, <2>2, <2>3
<1> QED
  BY <1>8, <1>9 DEF Chain, nx2, pv2, Bypass

\* What happens to a node that is not on the ring does not matter to it.
LEMMA OffRingKeepsChain ==
  ASSUME NEW s \in Seq(Node), NEW nx \in Field, NEW pv \in Field, Chain(s, nx, pv),
         NEW x \in Node, \A i \in 1 .. Len(s) : s[i] # x, NEW v
  PROVE  Chain(s, [nx EXCEPT ![x] = v], [pv EXCEPT ![x] = v])
<1>1. Len(s) \in Nat /\ x # head
  BY PointerAssumption
<1>2. \A i \in 0 .. Len(s) : /\ Place(s, i) \in Ring /\ Place(s, i) # x
                             /\ Place(s, i + 1) \in Ring /\ Place(s, i + 1) # x
  <2>1. \A i \in Int : Place(s, i) \in Ring /\ Place(s, i) # x
    BY <1>1, PlaceOnRing DEF Place
  <2> QED
    BY <1>1, <2>1
<1> QED
  BY <1>2 DEF Chain, Field

-----------------------------------------------------------------------------
(* The sequence operations. *)

LEMMA InsertAtFacts ==
  ASSUME NEW s \in Seq(Node), NEW i \in 1 .. Len(s) + 1, NEW x \in Node
  PROVE  /\ InsertAt(s, i, x) \in Seq(Node)
         /\ Len(InsertAt(s, i, x)) = Len(s) + 1
         /\ \A j \in 1 .. Len(s) + 1 :
              InsertAt(s, i, x)[j] = IF j < i THEN s[j] ELSE IF j = i THEN x ELSE s[j - 1]
<1> DEFINE front == SubSeq(s, 1, i - 1)
           back == SubSeq(s, i, Len(s))
<1>1. Len(s) \in Nat /\ \A j \in 1 .. Len(s) : s[j] \in Node
  BY ElementOfSeq
<1>2. /\ front \in Seq(Node) /\ Len(front) = i - 1
      /\ \A j \in 1 .. i - 1 : front[j] = s[j]
  BY <1>1, SubSeqProperties
<1>3. /\ back \in Seq(Node) /\ Len(back) = Len(s) - i + 1
      /\ \A j \in 1 .. Len(s) - i + 1 : back[j] = s[i + j - 1]
  BY <1>1, SubSeqProperties
<1> DEFINE middle == <<x>>
<1>4. middle \in Seq(Node) /\ Len(middle) = 1 /\ middle[1] = x
  OBVIOUS
<1> HIDE DEF front, middle, back
<1> DEFINE most == front \o middle
<1>5. /\ most \in Seq(Node) /\ Len(most) = i
      /\ \A j \in 1 .. i : most[j] = IF j < i THEN s[j] ELSE x
  <2>1. /\ most \in Seq(Node) /\ Len(most) = Len(front) + Len(middle)
        /\ \A j \in 1 .. Len(front) + Len(middle) :
             most[j] = IF j <= Len(front) THEN front[j] ELSE middle[j - Len(front)]
    BY <1>2, <1>4, ConcatProperties
  <2>2. Len(front) + Len(middle) = i /\ i \in Nat
    BY <1>1, <1>2, <1>4
  <2>3. ASSUME NEW j \in 1 .. i
        PROVE  most[j] = IF j < i THEN s[j] ELSE x
    <3>1. most[j] = IF j <= i - 1 THEN front[j] ELSE middle[j - (i - 1)]
      BY <1>2, <2>1, <2>2
    <3>2. CASE j < i
      BY <1>2, <2>2, <3>1, <3>2
    <3>3. CASE j = i
      <4>1. ~ (j <= i - 1) /\ j - (i - 1) = 1
        BY <2>2, <3>3
      <4> QED
        BY <1>4, <3>1, <3>3, <4>1
    <3> QED
      BY <2>2, <3>2, <3>3
  <2> QED
    BY <2>1, <2>2, <2>3
<1> HIDE DEF most
<1>6. InsertAt(s, i, x) = most \o back
  BY DEF InsertAt, front, middle, most, back
<1>7. /\ most \o back \in Seq(Node) /\ Len(most \o back) = Len(s) + 1
      /\ \A j \in 1 .. Len(s) + 1 :
           (most \o back)[j] = IF j <= i THEN most[j] ELSE back[j - i]
  <2>1. /\ most \o back \in Seq(Node) /\ Len(most \o back) = Len(most) + Len(back)
        /\ \A j \in 1 .. Len(most) + Len(back) :
             (most \o back)[j] = IF j <= Len(most) THEN most[j] ELSE back[j - Len(most)]
    BY <1>3, <1>5, ConcatProperties
  <2>2. Len(most) + Len(back) = Len(s) + 1 /\ Len(most) = i
    BY <1>1, <1>3, <1>5
  <2> QED
    BY <2>1, <2>2
<1>8. ASSUME NEW j \in 1 .. Len(s) + 1, j > i PROVE back[j - i] = s[j - 1]
  <2>1. j - i \in 1 .. Len(s) - i + 1 /\ i + (j - i) - 1 = j - 1
    BY <1>1, <1>8
  <2> QED
    BY <1>3, <2>1
<1> QED
  BY <1>1, <1>5, <1>6, <1>7, <1>8

LEMMA RemoveAtFacts ==
  ASSUME NEW s \in Seq(Node), NEW i \in 1 .. Len(s)
  PROVE  /\ RemoveAt(s, i) \in Seq(Node)
         /\ Len(RemoveAt(s, i)) = Len(s) - 1
         /\ \A j \in 1 .. Len(s) - 1 :
              RemoveAt(s, i)[j] = IF j < i THEN s[j] ELSE s[j + 1]
<1> DEFINE front == SubSeq(s, 1, i - 1)
           back == SubSeq(s, i + 1, Len(s))
<1>1. Len(s) \in Nat /\ \A j \in 1 .. Len(s) : s[j] \in Node
  BY ElementOfSeq
<1>2. /\ front \in Seq(Node) /\ Len(front) = i - 1
      /\ \A j \in 1 .. i - 1 : front[j] = s[j]
  BY <1>1, SubSeqProperties
<1>3. /\ back \in Seq(Node) /\ Len(back) = Len(s) - i
      /\ \A j \in 1 .. Len(s) - i : back[j] = s[i + j]
  <2>1. /\ back \in Seq(Node)
        /\ Len(back) = IF i + 1 <= Len(s) THEN Len(s) - (i + 1) + 1 ELSE 0
        /\ \A j \in 1 .. Len(s) - (i + 1) + 1 : back[j] = s[(i + 1) + j - 1]
    BY <1>1, SubSeqProperties
  <2> HIDE DEF back
  <2> QED
    BY <1>1, <2>1
<1> HIDE DEF front, back
<1>4. RemoveAt(s, i) = front \o back
  BY DEF RemoveAt, front, back
<1>5. /\ front \o back \in Seq(Node) /\ Len(front \o back) = Len(s) - 1
      /\ \A j \in 1 .. Len(s) - 1 :
           (front \o back)[j] = IF j <= i - 1 THEN front[j] ELSE back[j - (i - 1)]
  <2>1. /\ front \o back \in Seq(Node) /\ Len(front \o back) = Len(front) + Len(back)
        /\ \A j \in 1 .. Len(front) + Len(back) :
             (front \o back)[j] = IF j <= Len(front) THEN front[j]
                                  ELSE back[j - Len(front)]
    BY <1>2, <1>3, ConcatProperties
  <2>2. Len(front) + Len(back) = Len(s) - 1 /\ Len(front) = i - 1
    BY <1>1, <1>2, <1>3
  <2> QED
    BY <2>1, <2>2
<1>6. ASSUME NEW j \in 1 .. Len(s) - 1, j >= i PROVE back[j - (i - 1)] = s[j + 1]
  <2>1. j - (i - 1) \in 1 .. Len(s) - i /\ i + (j - (i - 1)) = j + 1
    BY <1>1, <1>6
  <2> QED
    BY <1>3, <2>1
<1>7. ASSUME NEW j \in 1 .. Len(s) - 1
      PROVE  (front \o back)[j] = IF j < i THEN s[j] ELSE s[j + 1]
  <2>1. CASE j < i
    <3>1. j <= i - 1 /\ j \in 1 .. i - 1
      BY <1>1, <2>1
    <3> QED
      BY <1>2, <1>5, <2>1, <3>1
  <2>2. CASE j >= i
    <3>1. ~ (j <= i - 1) /\ ~ (j < i)
      BY <1>1, <2>2
    <3> QED
      BY <1>5, <1>6, <2>2, <3>1
  <2>3. j < i \/ j >= i
    BY <1>1
  <2> QED
    BY <2>1, <2>2, <2>3
<1> QED
  BY <1>4, <1>5, <1>7

-----------------------------------------------------------------------------
(* The inductive invariant. *)

\* What a loop has still to meet is the end of the list; the node it has unlinked in
\* its present turn came before that.
RestInv ==
  LET l == Len(contents)
      r == Len(rest)
  IN  /\ loop \in {"each", "found", "safe"} =>
           r <= l /\ \A i \in 1 .. r : rest[i] = contents[l - r + i]
      /\ loop = "found" => rest # <<>>
      /\ loop = "split" => \E i \in 1 .. l : contents[i] = pos
      /\ loop = "unlinked" =>
           r \in 1 .. l + 1 /\ \A i \in 2 .. r : rest[i] = contents[l - r + i]

IInv == RingSound /\ LoopMeetsEveryNode /\ RestInv

\* The ring, in the terms of the lemmas above.
LEMMA RingFacts ==
  ASSUME IInv
  PROVE  /\ contents \in Seq(Node) /\ Len(contents) \in Nat
         /\ rest \in Seq(Node) /\ Len(rest) \in Nat
         /\ next \in Field /\ prev \in Field
         /\ Chain(contents, next, prev)
         /\ \A k \in 0 .. Len(contents) :
              /\ next[Place(contents, k)] = Place(contents, k + 1)
              /\ prev[Place(contents, k + 1)] = Place(contents, k)
         /\ next[head] = Place(contents, 1)
         /\ prev[head] = Place(contents, Len(contents))
         /\ \A x \in Unlinked : x \in Node /\ \A i \in 1 .. Len(contents) : contents[i] # x
<1>1. TypeOK /\ Linked
  BY DEF IInv, RingSound
<1>2. /\ contents \in Seq(Node) /\ Len(contents) \in Nat
      /\ rest \in Seq(Node) /\ Len(rest) \in Nat
      /\ next \in Field /\ prev \in Field
  BY <1>1 DEF TypeOK, Field
<1>3. Chain(contents, next, prev)
  BY <1>1, LinkedIsChain
<1>4. /\ Place(contents, 0) = head /\ 0 \in 0 .. Len(contents) /\ 0 + 1 = 1
      /\ Place(contents, Len(contents) + 1) = head /\ Len(contents) \in 0 .. Len(contents)
  BY <1>2 DEF Place
<1>5. next[head] = Place(contents, 1) /\ prev[head] = Place(contents, Len(contents))
  BY <1>3, <1>4 DEF Chain
<1>6. \A x \in Unlinked : x \in Node /\ \A i \in 1 .. Len(contents) : contents[i] # x
  BY <1>2, LenProperties DEF Unlinked, ToSet
<1> QED
  BY <1>2, <1>3, <1>5, <1>6 DEF Chain

\* Where the cursors are.
LEMMA CursorFacts ==
  ASSUME IInv
  PROVE  LET l == Len(contents)
             r == Len(rest)
         IN  /\ loop \in {"each", "found", "safe"} =>
                  /\ r <= l /\ pos = Place(contents, l - r + 1)
                  /\ pos # head <=> rest # <<>>
                  /\ rest # <<>> <=> r > 0
             /\ loop = "safe" /\ rest # <<>> => n = Place(contents, l - r + 2)
             /\ loop = "unlinked" => r \in 1 .. l + 1 /\ n = Place(contents, l - r + 2)
<1> DEFINE l == Len(contents)
           r == Len(rest)
<1>1. l \in Nat /\ r \in Nat /\ rest \in Seq(Node) /\ contents \in Seq(Node)
  BY RingFacts
<1>2. rest # <<>> <=> r > 0
  BY <1>1, EmptySeq
<1>3. \A i \in 1 .. r : rest[i] \in Node /\ rest[i] # head
  BY <1>1, ElementOfSeq, PointerAssumption
<1>4. First(rest) = IF r > 0 THEN rest[1] ELSE head
  BY <1>2 DEF First
<1>5. r > 0 => First(Tail(rest)) = IF r > 1 THEN rest[2] ELSE head
  <2>1. ASSUME r > 0
        PROVE  /\ Tail(rest) \in Seq(Node) /\ Len(Tail(rest)) = r - 1
               /\ \A i \in 1 .. r - 1 : Tail(rest)[i] = rest[i + 1]
    BY <1>1, <1>2, <2>1, HeadTailProperties
  <2>2. ASSUME r > 0 PROVE Tail(rest) # <<>> <=> r > 1
    <3>1. \A q \in Seq(Node) : q # <<>> <=> Len(q) > 0
      BY EmptySeq
    <3>2. Tail(rest) # <<>> <=> Len(Tail(rest)) > 0
      BY <2>1, <2>2, <3>1
    <3> QED
      BY <1>1, <2>1, <2>2, <3>2
  <2> QED
    BY <1>1, <2>1, <2>2 DEF First
<1>6. ASSUME loop \in {"each", "found", "safe"}
      PROVE  /\ r <= l /\ pos = Place(contents, l - r + 1)
             /\ pos # head <=> rest # <<>>
  <2>1. r <= l /\ pos = First(rest) /\ \A i \in 1 .. r : rest[i] = contents[l - r + i]
    BY <1>6 DEF IInv, LoopMeetsEveryNode, RestInv
  <2>2. r > 0 => l - r + 1 \in 1 .. l
    BY <1>1, <2>1
  <2>3. r = 0 => l - r + 1 \notin 1 .. l
    BY <1>1, <2>1
  <2> QED
    BY <1>1, <1>2, <1>3, <1>4, <2>1, <2>2, <2>3 DEF Place
<1>7. ASSUME loop \in {"safe", "unlinked"}, r > 0,
             r <= l + 1, \A i \in 2 .. r : rest[i] = contents[l - r + i]
      PROVE  n = Place(contents, l - r + 2)
  <2>1. n = First(Tail(rest))
    BY <1>2, <1>7 DEF IInv, LoopMeetsEveryNode
  <2>2. r > 1 => l - r + 2 \in 1 .. l
    BY <1>1, <1>7
  <2>3. r = 1 => l - r + 2 \notin 1 .. l
    BY <1>1
  <2> QED
    BY <1>1, <1>5, <1>7, <2>1, <2>2, <2>3 DEF Place
<1>8. ASSUME loop = "safe", rest # <<>> PROVE n = Place(contents, l - r + 2)
  <2>1. r <= l /\ r > 0 /\ \A i \in 1 .. r : rest[i] = contents[l - r + i]
    BY <1>2, <1>8 DEF IInv, RestInv
  <2> QED
    BY <1>1, <1>7, <1>8, <2>1
<1>9. ASSUME loop = "unlinked" PROVE r \in 1 .. l + 1 /\ n = Place(contents, l - r + 2)
  <2>1. r \in 1 .. l + 1 /\ \A i \in 2 .. r : rest[i] = contents[l - r + i]
    BY <1>9 DEF IInv, RestInv
  <2> QED
    BY <1>1, <1>7, <1>9, <2>1
<1> QED
  BY <1>2, <1>6, <1>8, <1>9

LEMMA IndexOfPlace ==
  ASSUME IInv, NEW k \in 1 .. Len(contents)
  PROVE  IndexOf(contents[k]) = k
<1>1. Distinct(contents)
  BY RingFacts DEF Chain
<1> QED
  BY <1>1 DEF IndexOf, Distinct

\* What the steps that change the ring have in common.
LEMMA InsertStep ==
  ASSUME IInv, NEW k \in 0 .. Len(contents), NEW x \in Unlinked,
         ListInsert(x, Place(contents, k), Place(contents, k + 1)),
         contents' \in Seq(Node), Len(contents') = Len(contents) + 1,
         \A i \in 1 .. Len(contents) + 1 :
           contents'[i] = IF i <= k THEN contents[i]
                          ELSE IF i = k + 1 THEN x ELSE contents[i - 1]
  PROVE  /\ next' \in Field /\ prev' \in Field
         /\ Chain(contents', next', prev')
<1>1. /\ prev' = [prev EXCEPT ![Place(contents, k + 1)] = x, ![x] = Place(contents, k)]
      /\ next' = [next EXCEPT ![x] = Place(contents, k + 1), ![Place(contents, k)] = x]
  BY DEF ListInsert
<1>2. /\ contents \in Seq(Node) /\ next \in Field /\ prev \in Field
      /\ Chain(contents, next, prev)
      /\ x \in Node /\ \A i \in 1 .. Len(contents) : contents[i] # x
  BY RingFacts
<1>3. Chain(contents', next', prev')
  <2>1. PICK t : t = contents'
    OBVIOUS
  <2>2. /\ t \in Seq(Node) /\ Len(t) = Len(contents) + 1
        /\ \A i \in 1 .. Len(t) : t[i] = IF i <= k THEN contents[i]
                                       ELSE IF i = k + 1 THEN x ELSE contents[i - 1]
    BY <2>1
  <2>3. Chain(t, [next EXCEPT ![x] = Place(contents, k + 1), ![Place(contents, k)] = x],
                 [prev EXCEPT ![Place(contents, k + 1)] = x, ![x] = Place(contents, k)])
    BY <1>2, <2>2, InsertKeepsChain
  <2> QED
    BY <1>1, <2>1, <2>3
<1>4. x \in Ring /\ Place(contents, k) \in Ring /\ Place(contents, k + 1) \in Ring
  <2>1. k \in Int /\ k + 1 \in Int
    OBVIOUS
  <2> QED
    BY <1>2, <2>1, PlaceOnRing DEF Ring
<1>5. next' \in Field /\ prev' \in Field
  BY <1>1, <1>2, <1>4 DEF Field
<1> QED
  BY <1>3, <1>5

LEMMA DeleteStep ==
  ASSUME IInv, NEW k \in 1 .. Len(contents), NEW x, x = contents[k], ListDel(x),
         contents' \in Seq(Node), Len(contents') = Len(contents) - 1,
         \A i \in 1 .. Len(contents) - 1 :
           contents'[i] = IF i < k THEN contents[i] ELSE contents[i + 1]
  PROVE  /\ next' \in Field /\ prev' \in Field
         /\ Chain(contents', next', prev')
<1>1. /\ prev' = [prev EXCEPT ![next[x]] = prev[x], ![x] = NULL]
      /\ next' = [next EXCEPT ![prev[x]] = next[x], ![x] = NULL]
  BY DEF ListDel
<1>2. /\ contents \in Seq(Node) /\ next \in Field /\ prev \in Field
      /\ Chain(contents, next, prev) /\ Len(contents) \in Nat
  BY RingFacts
<1>3. Chain(contents', next', prev')
  <2>1. PICK t : t = contents'
    OBVIOUS
  <2>2. /\ t \in Seq(Node) /\ Len(t) = Len(contents) - 1
        /\ \A i \in 1 .. Len(t) : t[i] = IF i < k THEN contents[i] ELSE contents[i + 1]
    BY <2>1
  <2>3. Chain(t, Bypass(next, prev, x), Bypass(prev, next, x))
    BY <1>2, <2>2, DeleteKeepsChain
  <2> QED
    BY <1>1, <2>1, <2>3 DEF Bypass
<1>4. next[x] \in Ring /\ prev[x] \in Ring
  <2>1. /\ k \in 0 .. Len(contents) /\ k - 1 \in 0 .. Len(contents) /\ (k - 1) + 1 = k
        /\ k - 1 \in Int /\ k + 1 \in Int /\ x = Place(contents, k)
    BY <1>2 DEF Place
  <2>2. next[x] = Place(contents, k + 1) /\ prev[x] = Place(contents, k - 1)
    BY <1>2, <2>1 DEF Chain
  <2> QED
    BY <1>2, <2>1, <2>2, PlaceOnRing
<1>5. next' \in Field /\ prev' \in Field
  BY <1>1, <1>2, <1>4 DEF Field
<1> QED
  BY <1>3, <1>5

\* What is left to show of a step.
LEMMA NewInvariant ==
  ASSUME next' \in Field, prev' \in Field, contents' \in Seq(Node),
         Chain(contents', next', prev'),
         loop' \in Loops, pos' \in Ring, n' \in Ring, rest' \in Seq(Node),
         LoopMeetsEveryNode', RestInv'
  PROVE  IInv'
<1>1. TypeOK'
  BY DEF TypeOK, Field
<1>2. (TypeOK => (Linked <=> Chain(contents, next, prev)))'
  BY LinkedIsChain, PTL
<1>3. Linked'
  BY <1>1, <1>2
<1> QED
  BY <1>1, <1>3 DEF IInv, RingSound

\* Between loops nothing is asked of the cursors.
LEMMA NoLoop ==
  ASSUME loop' = "none"
  PROVE  LoopMeetsEveryNode' /\ RestInv' /\ loop' \in Loops
BY DEF LoopMeetsEveryNode, RestInv, Loops

\* A step that leaves the pointers alone.
LEMMA QuietStep ==
  ASSUME IInv, UNCHANGED <<fields, contents>>
  PROVE  /\ next' \in Field /\ prev' \in Field /\ contents' \in Seq(Node)
         /\ Chain(contents', next', prev')
BY RingFacts DEF fields

\* The cursors and the history variables.
LEMMA CursorTypes ==
  ASSUME IInv
  PROVE  pos \in Ring /\ n \in Ring /\ rest \in Seq(Node) /\ head \in Ring /\ <<>> \in Seq(Node)
BY EmptySeq DEF IInv, RingSound, TypeOK, Ring

-----------------------------------------------------------------------------
(* Every step keeps the invariant. *)

LEMMA InitIInv == Init => IInv
<1> SUFFICES ASSUME Init PROVE IInv
  OBVIOUS
<1>1. head \in Ring /\ <<>> \in Seq(Node) /\ Len(<<>>) = 0
  BY EmptySeq DEF Ring
<1>2. TypeOK
  BY <1>1 DEF Init, TypeOK, Loops
<1>3. Chain(contents, next, prev)
  <2>1. contents = <<>> /\ next[head] = head /\ prev[head] = head
    BY <1>1 DEF Init
  <2>2. \A i \in 0 .. Len(<<>>) : Place(<<>>, i) = head /\ Place(<<>>, i + 1) = head
    BY <1>1 DEF Place
  <2>3. Distinct(<<>>)
    BY <1>1 DEF Distinct
  <2> QED
    BY <2>1, <2>2, <2>3 DEF Chain
<1>4. Linked
  BY <1>2, <1>3, LinkedIsChain
<1>5. LoopMeetsEveryNode /\ RestInv
  BY DEF Init, LoopMeetsEveryNode, RestInv
<1> QED
  BY <1>2, <1>4, <1>5 DEF IInv, RingSound

LEMMA ReuseKeeps ==
  ASSUME IInv, NEW x \in Node, Reuse(x)
  PROVE  IInv'
<1>1. /\ loop' = "none" /\ x \in Unlinked
      /\ next' = [next EXCEPT ![x] = Garbage] /\ prev' = [prev EXCEPT ![x] = Garbage]
      /\ pos' = pos /\ n' = n /\ contents' = contents /\ rest' = rest
  BY DEF Reuse
<1>2. next' \in Field /\ prev' \in Field
  BY <1>1, RingFacts DEF Field
<1>3. Chain(contents', next', prev')
  BY <1>1, RingFacts, OffRingKeepsChain
<1> QED
  BY <1>1, <1>2, <1>3, NoLoop, RingFacts, CursorTypes, NewInvariant

LEMMA ListNodeInitKeeps ==
  ASSUME IInv, NEW x \in Node, ListNodeInit(x)
  PROVE  IInv'
<1>1. /\ loop' = "none" /\ x \in Unlinked
      /\ next' = [next EXCEPT ![x] = NULL] /\ prev' = [prev EXCEPT ![x] = NULL]
      /\ pos' = pos /\ n' = n /\ contents' = contents /\ rest' = rest
  BY DEF ListNodeInit
<1>2. next' \in Field /\ prev' \in Field
  BY <1>1, RingFacts DEF Field
<1>3. Chain(contents', next', prev')
  BY <1>1, RingFacts, OffRingKeepsChain
<1> QED
  BY <1>1, <1>2, <1>3, NoLoop, RingFacts, CursorTypes, NewInvariant

LEMMA ListAddKeeps ==
  ASSUME IInv, NEW x \in Node, ListAdd(x)
  PROVE  IInv'
<1>1. /\ loop' = "none" /\ x \in Unlinked
      /\ ListInsert(x, head, next[head])
      /\ contents' = InsertAt(contents, 1, x)
      /\ pos' = pos /\ n' = n /\ rest' = rest
  BY DEF ListAdd
<1>2. /\ 0 \in 0 .. Len(contents) /\ 0 + 1 = 1 /\ 1 \in 1 .. Len(contents) + 1
      /\ Place(contents, 0) = head /\ Place(contents, 0 + 1) = next[head]
  BY RingFacts DEF Place
<1>3. /\ contents' \in Seq(Node) /\ Len(contents') = Len(contents) + 1
      /\ \A i \in 1 .. Len(contents) + 1 :
           contents'[i] = IF i <= 0 THEN contents[i]
                          ELSE IF i = 0 + 1 THEN x ELSE contents[i - 1]
  <2>1. /\ contents' \in Seq(Node) /\ Len(contents') = Len(contents) + 1
        /\ \A i \in 1 .. Len(contents) + 1 :
             contents'[i] = IF i < 1 THEN contents[i]
                            ELSE IF i = 1 THEN x ELSE contents[i - 1]
    BY <1>1, <1>2, RingFacts, InsertAtFacts
  <2> QED
    BY <2>1, RingFacts
<1>4. /\ next' \in Field /\ prev' \in Field
      /\ Chain(contents', next', prev')
  BY <1>1, <1>2, <1>3, InsertStep
<1> QED
  BY <1>1, <1>3, <1>4, NoLoop, CursorTypes, NewInvariant

LEMMA ListAddTailKeeps ==
  ASSUME IInv, NEW x \in Node, ListAddTail(x)
  PROVE  IInv'
<1> DEFINE l == Len(contents)
<1>1. /\ loop' = "none" /\ x \in Unlinked
      /\ ListInsert(x, prev[head], head)
      /\ contents' = Append(contents, x)
      /\ pos' = pos /\ n' = n /\ rest' = rest
  BY DEF ListAddTail
<1>2. /\ l \in Nat /\ l \in 0 .. l
      /\ Place(contents, l) = prev[head] /\ Place(contents, l + 1) = head
  BY RingFacts DEF Place
<1>3. /\ contents' \in Seq(Node) /\ Len(contents') = l + 1
      /\ \A i \in 1 .. l + 1 :
           contents'[i] = IF i <= l THEN contents[i]
                          ELSE IF i = l + 1 THEN x ELSE contents[i - 1]
  <2>1. /\ contents' \in Seq(Node) /\ Len(contents') = l + 1
        /\ \A i \in 1 .. l : contents'[i] = contents[i]
        /\ contents'[l + 1] = x
    BY <1>1, RingFacts, AppendProperties
  <2> QED
    BY <1>2, <2>1
<1>4. /\ next' \in Field /\ prev' \in Field
      /\ Chain(contents', next', prev')
  BY <1>1, <1>2, <1>3, InsertStep
<1> QED
  BY <1>1, <1>3, <1>4, NoLoop, CursorTypes, NewInvariant

LEMMA DelFirstKeeps ==
  ASSUME IInv, DelFirst
  PROVE  IInv'
<1> DEFINE l == Len(contents)
<1>1. /\ loop' = "none" /\ contents # <<>>
      /\ ListDel(next[head])
      /\ contents' = Tail(contents)
      /\ pos' = pos /\ n' = n /\ rest' = rest
  BY DEF DelFirst
<1>2. l \in Nat /\ 1 \in 1 .. l /\ next[head] = contents[1]
  <2>1. l \in Nat /\ l # 0
    BY <1>1, RingFacts, EmptySeq
  <2> QED
    BY <2>1, RingFacts DEF Place
<1>3. /\ contents' \in Seq(Node) /\ Len(contents') = l - 1
      /\ \A i \in 1 .. l - 1 :
           contents'[i] = IF i < 1 THEN contents[i] ELSE contents[i + 1]
  <2>1. /\ contents' \in Seq(Node) /\ Len(contents') = l - 1
        /\ \A i \in 1 .. l - 1 : contents'[i] = contents[i + 1]
    BY <1>1, RingFacts, HeadTailProperties
  <2> QED
    BY <1>2, <2>1
<1>4. /\ next' \in Field /\ prev' \in Field
      /\ Chain(contents', next', prev')
  BY <1>1, <1>2, <1>3, DeleteStep
<1> QED
  BY <1>1, <1>3, <1>4, NoLoop, CursorTypes, NewInvariant

\* Where a loop with q still to meet in s has to stand.
LEMMA RestPlaces ==
  ASSUME NEW s \in Seq(Node), NEW q \in Seq(Node)
  PROVE  /\ (/\ Len(q) <= Len(s)
             /\ \A i \in 1 .. Len(q) : q[i] = s[Len(s) - Len(q) + i])
              => First(q) = Place(s, Len(s) - Len(q) + 1)
         /\ (/\ Len(q) \in 1 .. Len(s) + 1
             /\ \A i \in 2 .. Len(q) : q[i] = s[Len(s) - Len(q) + i])
              => First(Tail(q)) = Place(s, Len(s) - Len(q) + 2)
<1> DEFINE l == Len(s)
           r == Len(q)
<1>1. l \in Nat /\ r \in Nat /\ \A p \in Seq(Node) : p # <<>> <=> Len(p) > 0
  BY EmptySeq
<1>2. ASSUME r <= l, \A i \in 1 .. r : q[i] = s[l - r + i]
      PROVE  First(q) = Place(s, l - r + 1)
  <2>1. First(q) = IF r > 0 THEN q[1] ELSE head
    BY <1>1 DEF First
  <2>2. r > 0 <=> l - r + 1 \in 1 .. l
    BY <1>1, <1>2
  <2> QED
    BY <1>1, <1>2, <2>1, <2>2 DEF Place
<1>3. ASSUME r \in 1 .. l + 1, \A i \in 2 .. r : q[i] = s[l - r + i]
      PROVE  First(Tail(q)) = Place(s, l - r + 2)
  <2>1. /\ Tail(q) \in Seq(Node) /\ Len(Tail(q)) = r - 1
        /\ \A i \in 1 .. r - 1 : Tail(q)[i] = q[i + 1]
    <3>1. q # <<>>
      BY <1>1, <1>3
    <3> QED
      BY <3>1, HeadTailProperties
  <2>2. First(Tail(q)) = IF r > 1 THEN q[2] ELSE head
    <3>1. Tail(q) # <<>> <=> r - 1 > 0
      BY <1>1, <2>1
    <3> QED
      BY <1>1, <2>1, <3>1 DEF First
  <2>3. r > 1 <=> l - r + 2 \in 1 .. l
    BY <1>1, <1>3
  <2> QED
    BY <1>1, <1>3, <2>2, <2>3 DEF Place
<1> QED
  BY <1>2, <1>3

\* A step of a loop: the cursors stand where the rest of the list begins.
LEMMA CursorStep ==
  ASSUME IInv, UNCHANGED <<fields, contents>>,
         loop' \in {"each", "safe"}, rest' \in Seq(Node),
         Len(rest') <= Len(contents),
         \A i \in 1 .. Len(rest') : rest'[i] = contents[Len(contents) - Len(rest') + i],
         pos' = Place(contents, Len(contents) - Len(rest') + 1), n' \in Ring,
         loop' = "safe" /\ Len(rest') > 0
           => n' = Place(contents, Len(contents) - Len(rest') + 2)
  PROVE  IInv'
<1>1. PICK q : q = rest'
  OBVIOUS
<1>2. contents' = contents /\ contents \in Seq(Node) /\ q \in Seq(Node)
  BY <1>1, RingFacts
<1>3. First(q) = Place(contents, Len(contents) - Len(q) + 1)
  BY <1>1, <1>2, RestPlaces
<1>4. Len(q) > 0 => First(Tail(q)) = Place(contents, Len(contents) - Len(q) + 2)
  <2>1. ASSUME Len(q) > 0
        PROVE  /\ Len(q) \in 1 .. Len(contents) + 1
               /\ \A i \in 2 .. Len(q) : q[i] = contents[Len(contents) - Len(q) + i]
    <3>1. Len(q) \in Nat /\ Len(contents) \in Nat /\ Len(q) <= Len(contents)
      BY <1>1, <1>2
    <3> QED
      BY <1>1, <2>1, <3>1
  <2> QED
    BY <1>2, <2>1, RestPlaces
<1>5. q # <<>> => Len(q) > 0
  BY <1>2, EmptySeq
<1>6. LoopMeetsEveryNode'
  <2>1. pos' = First(rest)'
    BY <1>1, <1>3 DEF First
  <2>2. loop' = "safe" /\ rest' # <<>> => n' = First(Tail(rest))'
    BY <1>1, <1>4, <1>5 DEF First
  <2> QED
    BY <2>1, <2>2 DEF LoopMeetsEveryNode
<1>7. RestInv'
  BY <1>2 DEF RestInv
<1>8. pos' \in Ring /\ loop' \in Loops
  BY <1>2, PlaceOnRing DEF Loops
<1> QED
  BY <1>6, <1>7, <1>8, QuietStep, NewInvariant

\* The rest of a loop that goes on.
LEMMA RestAdvances ==
  ASSUME NEW q \in Seq(Node), Len(q) > 0
  PROVE  /\ SubSeq(q, 2, Len(q)) \in Seq(Node)
         /\ Len(SubSeq(q, 2, Len(q))) = Len(q) - 1
         /\ \A i \in 1 .. Len(q) - 1 : SubSeq(q, 2, Len(q))[i] = q[i + 1]
<1> DEFINE t == SubSeq(q, 2, Len(q))
<1>1. Len(q) \in Nat /\ \A i \in 1 .. Len(q) : q[i] \in Node
  BY ElementOfSeq
<1>2. /\ t \in Seq(Node)
      /\ Len(t) = IF 2 <= Len(q) THEN Len(q) - 2 + 1 ELSE 0
      /\ \A i \in 1 .. Len(q) - 2 + 1 : t[i] = q[2 + i - 1]
  BY <1>1, SubSeqProperties
<1> HIDE DEF t
<1>3. Len(t) = Len(q) - 1
  <2>1. Len(q) = 1 \/ 2 <= Len(q)
    <3>1. \A r \in Nat : r > 0 => r = 1 \/ 2 <= r
      OBVIOUS
    <3> QED
      BY <1>1, <3>1
  <2>2. ASSUME Len(q) = 1 PROVE Len(t) = Len(q) - 1
    BY <1>2, <2>2
  <2>3. ASSUME 2 <= Len(q) PROVE Len(t) = Len(q) - 1
    <3>1. Len(t) = Len(q) - 2 + 1
      BY <1>2, <2>3
    <3> QED
      BY <1>1, <3>1
  <2> QED
    BY <2>1, <2>2, <2>3
<1>4. ASSUME NEW i \in 1 .. Len(q) - 1 PROVE t[i] = q[i + 1]
  <2>1. i \in 1 .. Len(q) - 2 + 1 /\ 2 + i - 1 = i + 1
    BY <1>1
  <2> QED
    BY <1>2, <2>1
<1> QED
  BY <1>2, <1>3, <1>4 DEF t

LEMMA ForEachStartsKeeps ==
  ASSUME IInv, ForEachStarts
  PROVE  IInv'
<1>1. /\ loop' = "each" /\ pos' = next[head] /\ rest' = contents
      /\ UNCHANGED <<fields, contents>> /\ n' = n
  BY DEF ForEachStarts
<1>2. /\ contents \in Seq(Node) /\ Len(contents) \in Nat
      /\ next[head] = Place(contents, 1)
  BY RingFacts
<1>3. Len(contents) - Len(contents) + 1 = 1 /\ Len(contents) <= Len(contents)
  BY <1>2
<1>4. \A i \in 1 .. Len(contents) : Len(contents) - Len(contents) + i = i
  BY <1>2
<1> QED
  BY <1>1, <1>2, <1>3, <1>4, CursorTypes, CursorStep

LEMMA ForEachAdvancesKeeps ==
  ASSUME IInv, ForEachAdvances
  PROVE  IInv'
<1> DEFINE l == Len(contents)
           r == Len(rest)
<1>1. /\ loop = "each" /\ pos # head /\ loop' = "each"
      /\ pos' = next[pos] /\ rest' = SubSeq(rest, 2, r)
      /\ UNCHANGED <<fields, contents>> /\ n' = n
  BY DEF ForEachAdvances
<1>2. l \in Nat /\ r \in Nat /\ rest \in Seq(Node)
  BY RingFacts
<1>3. /\ r <= l /\ r > 0 /\ pos = Place(contents, l - r + 1)
      /\ \A i \in 1 .. r : rest[i] = contents[l - r + i]
  BY <1>1, CursorFacts DEF IInv, RestInv
<1>4. /\ rest' \in Seq(Node) /\ Len(rest') = r - 1
      /\ \A i \in 1 .. r - 1 : rest'[i] = rest[i + 1]
  BY <1>1, <1>2, <1>3, RestAdvances
<1>5. l - Len(rest') + 1 = l - r + 2 /\ Len(rest') <= l
  BY <1>2, <1>3, <1>4
<1>6. pos' = Place(contents, l - r + 2)
  <2>1. l - r + 1 \in 0 .. l /\ (l - r + 1) + 1 = l - r + 2
    BY <1>2, <1>3
  <2> QED
    BY <1>1, <1>3, <2>1, RingFacts
<1>7. ASSUME NEW i \in 1 .. Len(rest') PROVE rest'[i] = contents[l - Len(rest') + i]
  <2>1. i \in 1 .. r - 1 /\ i + 1 \in 1 .. r /\ l - r + (i + 1) = l - Len(rest') + i
    BY <1>2, <1>4
  <2> QED
    BY <1>3, <1>4, <2>1
<1> QED
  BY <1>1, <1>4, <1>5, <1>6, <1>7, CursorTypes, CursorStep

LEMMA BreakKeeps ==
  ASSUME IInv, Break
  PROVE  IInv'
<1>1. /\ loop = "each" /\ pos # head /\ loop' = "found"
      /\ UNCHANGED <<fields, contents>> /\ pos' = pos /\ n' = n /\ rest' = rest
  BY DEF Break
<1>2. rest # <<>>
  BY <1>1, CursorFacts
<1>3. LoopMeetsEveryNode'
  BY <1>1 DEF IInv, LoopMeetsEveryNode, First
<1>4. RestInv'
  BY <1>1, <1>2 DEF IInv, RestInv
<1> QED
  BY <1>1, <1>3, <1>4, QuietStep, CursorTypes, NewInvariant DEF Loops

\* A cursor that is not at the head is at a node of the list.
LEMMA AtNode ==
  ASSUME IInv, loop \in {"found", "split"} \/ (loop \in {"each", "safe"} /\ pos # head)
  PROVE  \E k \in 1 .. Len(contents) :
           /\ pos = contents[k] /\ IndexOf(pos) = k
           /\ pos = Place(contents, k)
           /\ prev[pos] = Place(contents, k - 1) /\ next[pos] = Place(contents, k + 1)
           /\ loop # "split" => Len(rest) > 0 /\ k = Len(contents) - Len(rest) + 1
<1> DEFINE l == Len(contents)
           r == Len(rest)
<1>1. l \in Nat /\ r \in Nat
  BY RingFacts
<1>2. PICK k \in 1 .. l : pos = contents[k] /\ (loop # "split" => r > 0 /\ k = l - r + 1)
  <2>1. CASE loop = "split"
    BY <2>1 DEF IInv, RestInv
  <2>2. CASE loop \in {"each", "found", "safe"}
    <3>1. rest # <<>>
      BY <2>2, CursorFacts DEF IInv, RestInv
    <3>2. r <= l /\ r > 0 /\ pos = Place(contents, l - r + 1)
      BY <2>2, <3>1, CursorFacts
    <3>3. l - r + 1 \in 1 .. l
      BY <1>1, <3>2
    <3> QED
      BY <3>2, <3>3 DEF Place
  <2> QED
    BY <2>1, <2>2
<1>3. IndexOf(pos) = k /\ pos = Place(contents, k)
  BY <1>2, IndexOfPlace DEF Place
<1>4. prev[pos] = Place(contents, k - 1) /\ next[pos] = Place(contents, k + 1)
  <2>1. k \in 0 .. l /\ k - 1 \in 0 .. l /\ (k - 1) + 1 = k
    BY <1>1
  <2> QED
    BY <1>3, <2>1, RingFacts
<1> QED
  BY <1>2, <1>3, <1>4

LEMMA InsertBeforeKeeps ==
  ASSUME IInv, NEW x \in Node, InsertBefore(x)
  PROVE  IInv'
<1> DEFINE l == Len(contents)
<1>1. /\ loop = "found" /\ loop' = "none" /\ x \in Unlinked
      /\ ListInsert(x, prev[pos], pos)
      /\ contents' = InsertAt(contents, IndexOf(pos), x)
      /\ pos' = head /\ n' = n /\ rest' = <<>>
  BY DEF InsertBefore
<1>2. l \in Nat /\ contents \in Seq(Node)
  BY RingFacts
<1>3. PICK k \in 1 .. l :
        /\ IndexOf(pos) = k /\ pos = Place(contents, k) /\ prev[pos] = Place(contents, k - 1)
  BY <1>1, AtNode
<1>4. PICK j \in 0 .. l : j = k - 1 /\ j + 1 = k
  BY <1>2
<1>5. /\ contents' \in Seq(Node) /\ Len(contents') = l + 1
      /\ \A i \in 1 .. l + 1 :
           contents'[i] = IF i <= j THEN contents[i]
                          ELSE IF i = j + 1 THEN x ELSE contents[i - 1]
  <2>1. k \in 1 .. l + 1 /\ x \in Node
    BY <1>2
  <2>2. /\ contents' \in Seq(Node) /\ Len(contents') = l + 1
        /\ \A i \in 1 .. l + 1 :
             contents'[i] = IF i < k THEN contents[i]
                            ELSE IF i = k THEN x ELSE contents[i - 1]
    <3>1. PICK t : t = contents'
      OBVIOUS
    <3>2. t = InsertAt(contents, k, x)
      BY <1>1, <1>3, <3>1
    <3>3. /\ t \in Seq(Node) /\ Len(t) = l + 1
          /\ \A i \in 1 .. l + 1 :
               t[i] = IF i < k THEN contents[i]
                      ELSE IF i = k THEN x ELSE contents[i - 1]
      <4>1. /\ InsertAt(contents, k, x) \in Seq(Node)
            /\ Len(InsertAt(contents, k, x)) = Len(contents) + 1
            /\ \A i \in 1 .. Len(contents) + 1 :
                 InsertAt(contents, k, x)[i]
                   = IF i < k THEN contents[i] ELSE IF i = k THEN x ELSE contents[i - 1]
        BY <1>2, <2>1, InsertAtFacts
      <4> QED
        BY <3>2, <4>1
    <3> QED
      BY <3>1, <3>3
  <2>3. \A i \in 1 .. l + 1 : i < k <=> i <= j
    BY <1>2, <1>4
  <2> QED
    BY <1>4, <2>2, <2>3
<1>6. /\ next' \in Field /\ prev' \in Field
      /\ Chain(contents', next', prev')
  <2>1. ListInsert(x, Place(contents, j), Place(contents, j + 1))
    BY <1>1, <1>3, <1>4
  <2> QED
    BY <1>1, <1>5, <2>1, InsertStep
<1> QED
  BY <1>1, <1>5, <1>6, NoLoop, CursorTypes, NewInvariant

LEMMA InsertBehindKeeps ==
  ASSUME IInv, NEW x \in Node, InsertBehind(x)
  PROVE  IInv'
<1> DEFINE l == Len(contents)
<1>1. /\ loop = "found" /\ loop' = "split" /\ x \in Unlinked
      /\ ListInsert(x, pos, next[pos])
      /\ contents' = InsertAt(contents, IndexOf(pos) + 1, x)
      /\ pos' = pos /\ n' = n /\ rest' = rest
  BY DEF InsertBehind
<1>2. l \in Nat /\ contents \in Seq(Node)
  BY RingFacts
<1>3. PICK k \in 1 .. l :
        /\ pos = contents[k] /\ IndexOf(pos) = k
        /\ pos = Place(contents, k) /\ next[pos] = Place(contents, k + 1)
  BY <1>1, AtNode
<1>4. /\ contents' \in Seq(Node) /\ Len(contents') = l + 1
      /\ \A i \in 1 .. l + 1 :
           contents'[i] = IF i <= k THEN contents[i]
                          ELSE IF i = k + 1 THEN x ELSE contents[i - 1]
  <2>1. PICK m \in 1 .. l + 1 : m = k + 1
    BY <1>2
  <2>2. contents' = InsertAt(contents, m, x) /\ x \in Node
    BY <1>1, <1>3, <2>1
  <2>3. /\ InsertAt(contents, m, x) \in Seq(Node) /\ Len(InsertAt(contents, m, x)) = l + 1
        /\ \A i \in 1 .. l + 1 :
             InsertAt(contents, m, x)[i] = IF i < m THEN contents[i]
                                           ELSE IF i = m THEN x ELSE contents[i - 1]
    <3>1. contents \in Seq(Node) /\ x \in Node /\ m \in 1 .. Len(contents) + 1
      BY <1>2
    <3>2. InsertAt(contents, m, x) \in Seq(Node) /\ Len(InsertAt(contents, m, x)) = l + 1
      BY <3>1, InsertAtFacts
    <3>3. \A i \in 1 .. Len(contents) + 1 :
            InsertAt(contents, m, x)[i] = IF i < m THEN contents[i]
                                          ELSE IF i = m THEN x ELSE contents[i - 1]
      BY <3>1, InsertAtFacts
    <3> QED
      BY <3>2, <3>3
  <2>4. \A i \in 1 .. l + 1 : i < m <=> i <= k
    BY <1>2, <2>1
  <2> QED
    BY <2>1, <2>2, <2>3, <2>4
<1>5. /\ next' \in Field /\ prev' \in Field
      /\ Chain(contents', next', prev')
  <2>1. k \in 0 .. l /\ ListInsert(x, Place(contents, k), Place(contents, k + 1))
    BY <1>1, <1>3
  <2> QED
    BY <1>1, <1>4, <2>1, InsertStep
<1>6. RestInv'
  <2>1. k \in 1 .. Len(contents') /\ contents'[k] = pos'
    <3>1. k \in 1 .. l + 1 /\ k <= k
      BY <1>2
    <3> QED
      BY <1>1, <1>3, <1>4, <3>1
  <2>2. (\E i \in 1 .. Len(contents) : contents[i] = pos)'
    BY <2>1
  <2> QED
    BY <1>1, <2>2 DEF RestInv
<1>7. LoopMeetsEveryNode'
  BY <1>1 DEF IInv, LoopMeetsEveryNode, First
<1> QED
  BY <1>1, <1>4, <1>5, <1>6, <1>7, CursorTypes, NewInvariant DEF Loops

LEMMA DelFoundKeeps ==
  ASSUME IInv, DelFound
  PROVE  IInv'
<1>1. /\ loop \in {"found", "split"} /\ loop' = "none"
      /\ ListDel(pos)
      /\ contents' = RemoveAt(contents, IndexOf(pos))
      /\ pos' = head /\ n' = n /\ rest' = <<>>
  BY DEF DelFound
<1>2. PICK k \in 1 .. Len(contents) : pos = contents[k] /\ IndexOf(pos) = k
  BY <1>1, AtNode
<1>3. /\ contents' \in Seq(Node) /\ Len(contents') = Len(contents) - 1
      /\ \A i \in 1 .. Len(contents) - 1 :
           contents'[i] = IF i < k THEN contents[i] ELSE contents[i + 1]
  <2>1. contents' = RemoveAt(contents, k) /\ contents \in Seq(Node)
    BY <1>1, <1>2, RingFacts
  <2> QED
    BY <2>1, RemoveAtFacts
<1>4. /\ next' \in Field /\ prev' \in Field
      /\ Chain(contents', next', prev')
  <2>1. PICK x : x = pos
    OBVIOUS
  <2> QED
    BY <1>1, <1>2, <1>3, <2>1, DeleteStep
<1> QED
  BY <1>1, <1>3, <1>4, NoLoop, CursorTypes, NewInvariant

LEMMA SafeStartsKeeps ==
  ASSUME IInv, SafeStarts
  PROVE  IInv'
<1> DEFINE l == Len(contents)
<1>1. /\ loop' = "safe" /\ rest' = contents
      /\ pos' = next[head] /\ n' = next[next[head]]
      /\ UNCHANGED <<fields, contents>>
  BY DEF SafeStarts
<1>2. /\ contents \in Seq(Node) /\ l \in Nat
      /\ next[head] = Place(contents, 1)
  BY RingFacts
<1>3. l - l + 1 = 1 /\ l - l + 2 = 2 /\ l <= l /\ \A i \in 1 .. l : l - l + i = i
  BY <1>2
<1>4. n' \in Ring /\ (l > 0 => n' = Place(contents, 2))
  <2>1. CASE l > 0
    <3>1. 1 \in 0 .. l /\ 1 + 1 = 2
      BY <1>2, <2>1
    <3>2. n' = Place(contents, 2)
      BY <1>1, <1>2, <3>1, RingFacts
    <3> QED
      BY <1>2, <3>2, PlaceOnRing
  <2>2. CASE l = 0
    <3>1. next[head] = head
      BY <1>2, <2>2 DEF Place
    <3> QED
      BY <1>1, <2>2, <3>1, CursorTypes
  <2> QED
    BY <1>2, <2>1, <2>2
<1> QED
  BY <1>1, <1>2, <1>3, <1>4, CursorStep

LEMMA DelHereKeeps ==
  ASSUME IInv, DelHere
  PROVE  IInv'
<1> DEFINE l == Len(contents)
           r == Len(rest)
<1>1. /\ loop = "safe" /\ pos # head /\ loop' = "unlinked"
      /\ ListDel(pos)
      /\ contents' = RemoveAt(contents, IndexOf(pos))
      /\ pos' = pos /\ n' = n /\ rest' = rest
  BY DEF DelHere
<1>2. l \in Nat /\ r \in Nat
  BY RingFacts
<1>3. PICK k \in 1 .. l :
        pos = contents[k] /\ IndexOf(pos) = k /\ r > 0 /\ k = l - r + 1
  BY <1>1, AtNode
<1>4. /\ contents' \in Seq(Node) /\ Len(contents') = l - 1
      /\ \A i \in 1 .. l - 1 :
           contents'[i] = IF i < k THEN contents[i] ELSE contents[i + 1]
  <2>1. contents' = RemoveAt(contents, k) /\ contents \in Seq(Node)
    BY <1>1, <1>3, RingFacts
  <2> QED
    BY <2>1, RemoveAtFacts
<1>5. /\ next' \in Field /\ prev' \in Field
      /\ Chain(contents', next', prev')
  <2>1. PICK x : x = pos
    OBVIOUS
  <2> QED
    BY <1>1, <1>3, <1>4, <2>1, DeleteStep
<1>6. LoopMeetsEveryNode'
  BY <1>1 DEF IInv, LoopMeetsEveryNode, First
<1>7. RestInv'
  <2>1. \A i \in 1 .. r : rest[i] = contents[l - r + i]
    BY <1>1 DEF IInv, RestInv
  <2>2. r \in 1 .. (l - 1) + 1
    BY <1>2, <1>3
  <2>3. ASSUME NEW i \in 2 .. r PROVE rest[i] = contents'[(l - 1) - r + i]
    <3>1. PICK j : j = (l - 1) - r + i
      OBVIOUS
    <3>3. j \in 1 .. l - 1 /\ ~ (j < k) /\ j + 1 = l - r + i
      BY <1>2, <1>3, <3>1
    <3>2. i \in 1 .. r
      BY <1>2
    <3> QED
      BY <1>4, <2>1, <3>1, <3>2, <3>3
  <2> QED
    BY <1>1, <1>4, <2>2, <2>3 DEF RestInv
<1> QED
  BY <1>1, <1>4, <1>5, <1>6, <1>7, CursorTypes, NewInvariant DEF Loops

LEMMA SafeAdvancesKeeps ==
  ASSUME IInv, SafeAdvances
  PROVE  IInv'
<1> DEFINE l == Len(contents)
           r == Len(rest)
<1>1. /\ loop = "unlinked" \/ (loop = "safe" /\ pos # head)
      /\ pos' = n /\ n' = next[n]
      /\ loop' = "safe" /\ rest' = SubSeq(rest, 2, r)
      /\ UNCHANGED <<fields, contents>>
  BY DEF SafeAdvances, AdvanceFromN
<1>2. l \in Nat /\ r \in Nat /\ rest \in Seq(Node) /\ contents \in Seq(Node)
  BY RingFacts
<1>3. /\ r \in 1 .. l + 1 /\ n = Place(contents, l - r + 2)
      /\ \A i \in 2 .. r : rest[i] = contents[l - r + i]
  <2>1. CASE loop = "unlinked"
    BY <2>1, CursorFacts DEF IInv, RestInv
  <2>2. CASE loop = "safe" /\ pos # head
    <3>1. /\ rest # <<>> /\ r > 0 /\ r <= l
          /\ n = Place(contents, l - r + 2)
          /\ \A i \in 1 .. r : rest[i] = contents[l - r + i]
      BY <2>2, CursorFacts DEF IInv, RestInv
    <3>2. r \in 1 .. l + 1 /\ \A i \in 2 .. r : i \in 1 .. r
      BY <1>2, <3>1
    <3> QED
      BY <3>1, <3>2
  <2> QED
    BY <1>1, <2>1, <2>2
<1>4. /\ rest' \in Seq(Node) /\ Len(rest') = r - 1
      /\ \A i \in 1 .. r - 1 : rest'[i] = rest[i + 1]
  <2>1. r > 0
    BY <1>2, <1>3
  <2> QED
    BY <1>1, <1>2, <2>1, RestAdvances
<1>5. /\ l - Len(rest') + 1 = l - r + 2 /\ l - Len(rest') + 2 = (l - r + 2) + 1
      /\ Len(rest') <= l
  BY <1>2, <1>3, <1>4
<1>6. ASSUME NEW i \in 1 .. Len(rest') PROVE rest'[i] = contents[l - Len(rest') + i]
  <2>1. i \in 1 .. r - 1 /\ i + 1 \in 2 .. r /\ l - r + (i + 1) = l - Len(rest') + i
    BY <1>2, <1>3, <1>4
  <2> QED
    BY <1>3, <1>4, <2>1
<1>7. n' \in Ring /\ (Len(rest') > 0 => n' = Place(contents, (l - r + 2) + 1))
  <2>1. CASE l - r + 2 <= l
    <3>1. l - r + 2 \in 0 .. l
      BY <1>2, <1>3, <2>1
    <3>2. n' = Place(contents, (l - r + 2) + 1)
      BY <1>1, <1>3, <3>1, RingFacts
    <3> QED
      BY <1>2, <3>2, PlaceOnRing
  <2>2. CASE l - r + 2 = l + 1
    <3>1. n = head /\ Len(rest') = 0
      BY <1>2, <1>3, <1>4, <2>2 DEF Place
    <3>2. n' = Place(contents, 1)
      BY <1>1, <3>1, RingFacts
    <3> QED
      BY <1>2, <3>1, <3>2, PlaceOnRing
  <2> QED
    BY <1>2, <1>3, <2>1, <2>2
<1> QED
  BY <1>1, <1>3, <1>4, <1>5, <1>6, <1>7, CursorStep

LEMMA LoopEndsKeeps ==
  ASSUME IInv, LoopEnds
  PROVE  IInv'
<1>1. /\ loop' = "none"
      /\ UNCHANGED <<fields, contents>> /\ pos' = pos /\ n' = n /\ rest' = rest
  BY DEF LoopEnds
<1> QED
  BY <1>1, NoLoop, QuietStep, CursorTypes, NewInvariant

-----------------------------------------------------------------------------
(* The theorems. *)

LEMMA NextIInv == IInv /\ [Next]_vars => IInv'
<1> SUFFICES ASSUME IInv, [Next]_vars PROVE IInv'
  OBVIOUS
<1>1. ASSUME NEW x \in Node,
             \/ Reuse(x) \/ ListNodeInit(x)
             \/ ListAdd(x) \/ ListAddTail(x) \/ InsertBefore(x) \/ InsertBehind(x)
      PROVE  IInv'
  BY <1>1, ReuseKeeps, ListNodeInitKeeps, ListAddKeeps, ListAddTailKeeps,
     InsertBeforeKeeps, InsertBehindKeeps
<1>2. CASE DelFirst
  BY <1>2, DelFirstKeeps
<1>3. CASE ForEachStarts \/ ForEachAdvances \/ Break \/ DelFound
  BY <1>3, ForEachStartsKeeps, ForEachAdvancesKeeps, BreakKeeps, DelFoundKeeps
<1>4. CASE SafeStarts \/ DelHere \/ SafeAdvances \/ LoopEnds
  BY <1>4, SafeStartsKeeps, DelHereKeeps, SafeAdvancesKeeps, LoopEndsKeeps
<1>5. CASE UNCHANGED vars
  BY <1>5 DEF vars, fields, IInv, RingSound, TypeOK, Linked, LoopMeetsEveryNode, First,
              RestInv
<1> QED
  BY <1>1, <1>2, <1>3, <1>4, <1>5 DEF Next

LEMMA InductiveInvariant == Spec => []IInv
BY InitIInv, NextIInv, PTL DEF Spec

\* The pointers make one ring of the nodes in the order of the list, the same in both
\* directions, whatever nodes list.h links and unlinks and however many there are.
THEOREM RingIsSound == Spec => []RingSound
<1>1. IInv => RingSound
  BY DEF IInv
<1> QED
  BY <1>1, InductiveInvariant, PTL

\* list_for_each_entry and list_for_each_entry_safe meet every node that was linked
\* when they began, in order, although their bodies unlink some of them.
THEOREM LoopsMeetEveryNode == Spec => []LoopMeetsEveryNode
<1>1. IInv => LoopMeetsEveryNode
  BY DEF IInv
<1> QED
  BY <1>1, InductiveInvariant, PTL

==============================================================================
