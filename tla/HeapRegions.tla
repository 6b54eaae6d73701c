---------------------------- MODULE HeapRegions ----------------------------
(***************************************************************************)
(* What an allocator without compaction promises, whatever its lists and   *)
(* size fields: the arena is cut into regions, named by where they start;  *)
(* a region is held by a client or free; a free region can be cut in two   *)
(* to hand out its front, and only two free regions that touch, with no    *)
(* region between them, are ever joined.  A held region is never moved,    *)
(* cut or swallowed.                                                       *)
(***************************************************************************)
EXTENDS Integers

CONSTANT Addr   \* the addresses at which a region may start

VARIABLES
  starts,   \* where the regions start
  held      \* the regions clients hold

rvars == <<starts, held>>

FreeRegions == starts \ held

\* No region starts between b and c.
NoneBetween(b, c) == \A s \in starts : ~ (b < s /\ s < c)

RInit ==
  /\ starts = {}
  /\ held = {}

\* The arena becomes one free region.
Seed(b) ==
  /\ starts = {}
  /\ starts' = {b}
  /\ held' = held

\* A free region is handed out whole.
Take(b) ==
  /\ held' = held \union {b}
  /\ starts' = starts

\* A free region is cut at c and its front is handed out.
TakeFront(b, c) ==
  /\ b < c /\ c \notin starts /\ NoneBetween(b, c)
  /\ starts' = starts \union {c}
  /\ held' = held \union {b}

\* A client gives a region back.
Give(b) ==
  /\ held' = held \ {b}
  /\ starts' = starts

\* Two free regions that touch become one.
Join(b, c) ==
  /\ b < c /\ NoneBetween(b, c)
  /\ starts' = starts \ {c}
  /\ held' = held

RNext ==
  \/ \E b \in Addr : Seed(b)
  \/ \E b \in FreeRegions : Take(b) \/ \E c \in Addr : TakeFront(b, c)
  \/ \E b \in held : Give(b)
  \/ \E b, c \in FreeRegions : Join(b, c)

RSpec == RInit /\ [][RNext]_rvars
=============================================================================
