----------------------------- MODULE LinkedList -----------------------------
(***************************************************************************)
(* The circular doubly linked list of src/lib/list.h, pointer by pointer,  *)
(* under the calls heap.c and thread.c make: nodes linked in at the head,  *)
(* at the tail, before and behind a node a loop has found; nodes unlinked  *)
(* first, found, or in the middle of list_for_each_entry_safe.  Heap and   *)
(* Threads use sequences instead; `contents' is that sequence, changed by  *)
(* InsertAt and RemoveAt, and Linked says the pointers implement it.       *)
(***************************************************************************)
EXTENDS Integers, Sequences, SequencesExt

CONSTANTS
  Node,     \* the nodes embedded in blocks and structs
  head,     \* the list head
  NULL,
  Garbage   \* what the memory of a node holds before it is one

ASSUME PointerAssumption ==
  /\ head \notin Node
  /\ NULL \notin Node \union {head}
  /\ Garbage \notin Node \union {head, NULL}

VARIABLES
  next, prev,  \* the fields of every node and of the head
  loop,        \* what the caller is doing, see Loops
  pos,         \* the loop's cursor
  n,           \* list_for_each_entry_safe's second cursor
  contents,    \* history: the nodes of the list in order
  rest         \* history: the nodes the loop has still to meet

fields == <<next, prev>>
vars == <<next, prev, loop, pos, n, contents, rest>>

\* No loop; list_for_each_entry, left by break at a node found, which has been
\* split; list_for_each_entry_safe, whose body has unlinked the node it is at.
Loops == {"none", "each", "found", "split", "safe", "unlinked"}

Ring == Node \union {head}
Unlinked == Node \ ToSet(contents)

\* LIST_INIT and list_init: the head points to itself.
Init ==
  /\ next = [x \in Ring |-> IF x = head THEN head ELSE Garbage]
  /\ prev = [x \in Ring |-> IF x = head THEN head ELSE Garbage]
  /\ loop = "none" /\ pos = head /\ n = head
  /\ contents = <<>> /\ rest = <<>>

\* The memory of a node that is not linked is used for something else.
Reuse(x) ==
  /\ loop = "none" /\ x \in Unlinked
  /\ next' = [next EXCEPT ![x] = Garbage]
  /\ prev' = [prev EXCEPT ![x] = Garbage]
  /\ UNCHANGED <<loop, pos, n, contents, rest>>

\* list_node_init, on a struct thread that is being created.
ListNodeInit(x) ==
  /\ loop = "none" /\ x \in Unlinked
  /\ next' = [next EXCEPT ![x] = NULL]
  /\ prev' = [prev EXCEPT ![x] = NULL]
  /\ UNCHANGED <<loop, pos, n, contents, rest>>

\* Variant: the old successor still points past the new node.
ListInsertOneWay(x, p, s) ==
  /\ prev' = [prev EXCEPT ![x] = p]
  /\ next' = [next EXCEPT ![x] = s, ![p] = x]

\* list_insert: x between p and s.
ListInsert(x, p, s) ==
  /\ prev' = [prev EXCEPT ![s] = x, ![x] = p]
  /\ next' = [next EXCEPT ![x] = s, ![p] = x]

\* list_del and list_del_.
ListDel(x) ==
  /\ prev' = [prev EXCEPT ![next[x]] = prev[x], ![x] = NULL]
  /\ next' = [next EXCEPT ![prev[x]] = next[x], ![x] = NULL]

IndexOf(x) == CHOOSE i \in 1 .. Len(contents) : contents[i] = x

-----------------------------------------------------------------------------
\* list_add: heap_add_block.
ListAdd(x) ==
  /\ loop = "none" /\ x \in Unlinked
  /\ ListInsert(x, head, next[head])
  /\ contents' = InsertAt(contents, 1, x)
  /\ UNCHANGED <<loop, pos, n, rest>>

\* list_add_tail: heap_free, thread_run_queue_add.
ListAddTail(x) ==
  /\ loop = "none" /\ x \in Unlinked
  /\ ListInsert(x, prev[head], head)
  /\ contents' = Append(contents, x)
  /\ UNCHANGED <<loop, pos, n, rest>>

\* list_first_entry and list_del: thread_run_queue_pop.
DelFirst ==
  /\ loop = "none" /\ contents # <<>>
  /\ ListDel(next[head])
  /\ contents' = Tail(contents)
  /\ UNCHANGED <<loop, pos, n, rest>>

\* list_for_each_entry, as heap_malloc and heap_free search with it.
ForEachStarts ==
  /\ loop = "none"
  /\ loop' = "each" /\ pos' = next[head] /\ rest' = contents
  /\ UNCHANGED <<fields, n, contents>>

ForEachAdvances ==
  /\ loop = "each" /\ pos # head
  /\ pos' = next[pos] /\ rest' = SubSeq(rest, 2, Len(rest))
  /\ UNCHANGED <<fields, loop, n, contents>>

Break ==
  /\ loop = "each" /\ pos # head
  /\ loop' = "found"
  /\ UNCHANGED <<fields, pos, n, contents, rest>>

\* heap_free: x goes before the node found.
InsertBefore(x) ==
  /\ loop = "found" /\ x \in Unlinked
  /\ ListInsert(x, prev[pos], pos)
  /\ contents' = InsertAt(contents, IndexOf(pos), x)
  /\ loop' = "none" /\ pos' = head /\ rest' = <<>>
  /\ UNCHANGED n

\* heap_malloc: the tail x of the block found is linked in behind it ...
InsertBehind(x) ==
  /\ loop = "found" /\ x \in Unlinked
  /\ ListInsert(x, pos, next[pos])
  /\ contents' = InsertAt(contents, IndexOf(pos) + 1, x)
  /\ loop' = "split"
  /\ UNCHANGED <<pos, n, rest>>

\* ... and the block found is unlinked, split or not.
DelFound ==
  /\ loop \in {"found", "split"}
  /\ ListDel(pos)
  /\ contents' = RemoveAt(contents, IndexOf(pos))
  /\ loop' = "none" /\ pos' = head /\ rest' = <<>>
  /\ UNCHANGED n

\* list_for_each_entry_safe, as heap_defrag_free_list uses it.
SafeStarts ==
  /\ loop = "none"
  /\ loop' = "safe" /\ rest' = contents
  /\ pos' = next[head] /\ n' = next[next[head]]
  /\ UNCHANGED <<fields, contents>>

DelHere ==
  /\ loop = "safe" /\ pos # head
  /\ ListDel(pos)
  /\ contents' = RemoveAt(contents, IndexOf(pos))
  /\ loop' = "unlinked"
  /\ UNCHANGED <<pos, n, rest>>

\* Variant: the loop goes on from the node the body may have unlinked.
AdvanceFromPos == pos' = next[pos] /\ n' = n

\* Variant: the loop starts again from the head.
AdvanceRestarts == pos' = next[head] /\ n' = next[next[head]]

\* The third expression of list_for_each_entry_safe.
AdvanceFromN == pos' = n /\ n' = next[n]

SafeAdvances ==
  /\ loop = "unlinked" \/ (loop = "safe" /\ pos # head)
  /\ AdvanceFromN
  /\ loop' = "safe" /\ rest' = SubSeq(rest, 2, Len(rest))
  /\ UNCHANGED <<fields, contents>>

LoopEnds ==
  /\ loop \in {"each", "safe"} /\ pos = head
  /\ loop' = "none"
  /\ UNCHANGED <<fields, pos, n, contents, rest>>

Next ==
  \/ \E x \in Node :
       \/ Reuse(x) \/ ListNodeInit(x)
       \/ ListAdd(x) \/ ListAddTail(x) \/ InsertBefore(x) \/ InsertBehind(x)
  \/ DelFirst
  \/ ForEachStarts \/ ForEachAdvances \/ Break \/ DelFound
  \/ SafeStarts \/ DelHere \/ SafeAdvances \/ LoopEnds

Spec == Init /\ [][Next]_vars

\* A loop that has begun is executed; whether its body unlinks a node or breaks is
\* the caller's choice, and so is what it does with the node found.
FairSpec ==
  /\ Spec
  /\ WF_vars(ForEachAdvances) /\ WF_vars(SafeAdvances) /\ WF_vars(LoopEnds)
  /\ WF_vars(DelFound)

-----------------------------------------------------------------------------
\* Every variable has its type; the cursors are always nodes or the head, so the
\* code never dereferences what list_del or list_node_init left in a node.
TypeOK ==
  /\ next \in [Ring -> Ring \union {NULL, Garbage}]
  /\ prev \in [Ring -> Ring \union {NULL, Garbage}]
  /\ loop \in Loops
  /\ pos \in Ring /\ n \in Ring
  /\ contents \in Seq(Node) /\ rest \in Seq(Node)

\* The head and the nodes form one ring in the order of the list, the same in both
\* directions, with no node twice: the pointer operations do what Heap and Threads
\* take them to do on sequences.
Linked ==
  LET ring == <<head>> \o contents \o <<head>>
  IN  /\ IsInjective(contents)
      /\ \A i \in 1 .. Len(contents) + 1 :
           next[ring[i]] = ring[i + 1] /\ prev[ring[i + 1]] = ring[i]

\* The cursors stay on the ring and the ring stays whole.
RingSound == TypeOK /\ Linked

First(s) == IF s = <<>> THEN head ELSE s[1]

\* A loop meets the nodes that were linked when it began, each once and in order,
\* although its body unlinks some of them on the way, and it ends at the head.
LoopMeetsEveryNode ==
  /\ loop \in {"each", "found", "split", "safe"} => pos = First(rest)
  /\ loop \in {"safe", "unlinked"} /\ rest # <<>> => n = First(Tail(rest))

\* No loop of the callers runs for ever round the ring.
LoopsEnd == loop # "none" ~> loop = "none"
=============================================================================
