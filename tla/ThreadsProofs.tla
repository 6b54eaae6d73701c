---------------------------- MODULE ThreadsProofs ----------------------------
(***************************************************************************)
(* Proofs about the thread module, for every finite memory.                *)
(***************************************************************************)
EXTENDS Threads, SequenceTheorems, FiniteSetTheorems, TLAPS

-----------------------------------------------------------------------------
(* What a changed queue holds. *)

LEMMA AppendMembers ==
  ASSUME NEW S, NEW q \in Seq(S), NEW t \in S
  PROVE  /\ Append(q, t) \in Seq(S)
         /\ Len(Append(q, t)) = Len(q) + 1
         /\ \A i \in 1 .. Len(q) : Append(q, t)[i] = q[i]
         /\ Append(q, t)[Len(q) + 1] = t
         /\ ToSet(Append(q, t)) = ToSet(q) \union {t}
<1>1. /\ Append(q, t) \in Seq(S)
      /\ Len(Append(q, t)) = Len(q) + 1
      /\ \A i \in 1 .. Len(q) : Append(q, t)[i] = q[i]
      /\ Append(q, t)[Len(q) + 1] = t
  BY AppendProperties
<1>2. Len(q) \in Nat /\ DOMAIN q = 1 .. Len(q) /\ DOMAIN Append(q, t) = 1 .. Len(q) + 1
  BY <1>1, LenProperties
<1> QED
  BY <1>1, <1>2 DEF ToSet

\* The queue after its first thread is taken: who remains, and in what order.
LEMMA TailMembers ==
  ASSUME NEW S, NEW q \in Seq(S), q # <<>>, IsInjective(q)
  PROVE  /\ Head(q) \in ToSet(q) /\ Head(q) = q[1] /\ Len(q) \in Nat \ {0}
         /\ Tail(q) \in Seq(S) /\ Len(Tail(q)) = Len(q) - 1
         /\ \A i \in 1 .. Len(q) - 1 : Tail(q)[i] = q[i + 1]
         /\ ToSet(Tail(q)) = ToSet(q) \ {Head(q)}
         /\ IsInjective(Tail(q))
<1>1. /\ Tail(q) \in Seq(S) /\ Len(Tail(q)) = Len(q) - 1
      /\ \A i \in 1 .. Len(q) - 1 : Tail(q)[i] = q[i + 1]
  BY HeadTailProperties
<1>2. Len(q) \in Nat \ {0} /\ DOMAIN q = 1 .. Len(q) /\ DOMAIN Tail(q) = 1 .. Len(q) - 1
  BY <1>1, LenProperties, EmptySeq
<1>3. Head(q) = q[1] /\ Head(q) \in ToSet(q)
  BY <1>2 DEF ToSet
<1>4. IsInjective(Tail(q))
  BY <1>1, <1>2 DEF IsInjective
<1>5. ASSUME NEW t \in ToSet(Tail(q)) PROVE t \in ToSet(q) \ {Head(q)}
  BY <1>1, <1>2, <1>3 DEF ToSet, IsInjective
<1>6. ASSUME NEW t \in ToSet(q) \ {Head(q)} PROVE t \in ToSet(Tail(q))
  <2>1. PICK i \in 1 .. Len(q) : q[i] = t
    BY <1>2 DEF ToSet
  <2>2. i - 1 \in 1 .. Len(q) - 1 /\ (i - 1) + 1 = i
    BY <1>2, <1>3, <2>1
  <2>3. Tail(q)[i - 1] = t
    BY <1>1, <2>1, <2>2
  <2> QED
    BY <1>2, <2>2, <2>3 DEF ToSet
<1> QED
  BY <1>1, <1>2, <1>3, <1>4, <1>5, <1>6

LEMMA EmptyMembers ==
  ASSUME NEW S, NEW q \in Seq(S)
  PROVE  /\ Len(q) \in Nat
         /\ q = <<>> <=> Len(q) = 0
         /\ q = <<>> <=> ToSet(q) = {}
<1>1. Len(q) \in Nat /\ DOMAIN q = 1 .. Len(q) /\ (q = <<>> <=> Len(q) = 0)
  BY LenProperties, EmptySeq
<1>2. q # <<>> => q[1] \in ToSet(q)
  BY <1>1 DEF ToSet
<1>3. q = <<>> => ToSet(q) = {}
  BY <1>1 DEF ToSet
<1> QED
  BY <1>1, <1>2, <1>3

-----------------------------------------------------------------------------
(* The inductive invariant. *)

\* No thread exists before thread_init, nor after it has failed.
BeforeThreads ==
  cpu \in {"boot", "halted"} =>
    /\ Structs = {} /\ thread_list = <<>>
    /\ idle_thread = NULL /\ current_thread = NULL /\ on_stack = NULL

\* From thread_init on there is an idle thread, and from thread_start_scheduler on a
\* current one.
AfterInit ==
  /\ cpu \notin {"boot", "halted"} => idle_thread \in Structs
  /\ cpu = "initialised" => current_thread = NULL /\ on_stack = NULL
  /\ Scheduling => current_thread \in Structs

\* Whoever is still to run for the first time returns into thread_main when switched
\* to: the threads in the queue, and the idle thread until it runs.
FirstSwitch ==
  /\ \A t \in Queued : resume[t] = "thread_main"
  /\ idle_thread \in Structs \ {current_thread} => resume[idle_thread] = "thread_main"

\* The counter has counted the threads: every id that was given is below it.
IdsCounted ==
  /\ global_id_counter = Cardinality(Structs)
  /\ \A t \in Structs : id[t] < global_id_counter

IInv == /\ TypeOK
        /\ BeforeThreads
        /\ AfterInit
        /\ FirstSwitch
        /\ IdsCounted
        /\ QueueSound
        /\ StacksSound

-----------------------------------------------------------------------------
(* What the parts of the steps do. *)

\* A new thread takes two blocks that nobody has, the next id, and a frame that
\* starts in thread_main; the other threads keep theirs.
LEMMA NewThread ==
  ASSUME TypeOK, MemoryAccounted, IdsCounted,
         NEW t \in Memory, NEW s \in Memory, AllocateThread(t, s), ThreadStructInit(t)
  PROVE  /\ t \notin Structs /\ Structs' = Structs \union {t} /\ Structs' \in SUBSET Memory
         /\ allocated' \in SUBSET Memory
         /\ stack' \in [Structs' -> Memory]
         /\ id' \in [Structs' -> 0 .. ID_MOD - 1]
         /\ ready' \in [Structs' -> BOOLEAN]
         /\ resume' \in [Structs' -> {"thread_main", "reschedule"}]
         /\ self' \in [Structs' -> Structs' \union {NULL}]
         /\ global_id_counter' \in 0 .. ID_MOD - 1
         /\ id'[t] = global_id_counter /\ ready'[t] /\ resume'[t] = "thread_main"
         /\ \A u \in Structs : /\ id'[u] = id[u] /\ ready'[u] = ready[u]
                               /\ resume'[u] = resume[u] /\ self'[u] = self[u]
         /\ MemoryAccounted'
         /\ IdsCounted'
<1>1. /\ t \in Memory \ allocated /\ s \in Memory \ allocated /\ s # t
      /\ allocated' = allocated \union {t, s} /\ stack' = Set(stack, t, s)
  BY DEF AllocateThread
<1>2. t \notin Structs
  BY <1>1 DEF MemoryAccounted
<1>3. /\ stack' \in [Structs \union {t} -> Memory] /\ stack'[t] = s
      /\ \A u \in Structs : stack'[u] = stack[u]
  <2>1. stack \in [Structs -> Memory] /\ s \in Memory
    BY DEF TypeOK
  <2> QED
    BY ONLY <1>1, <1>2, <2>1 DEF Set
<1>4. Structs' = Structs \union {t}
  BY <1>3 DEF Structs
<1>5. Structs' \in SUBSET Memory /\ allocated' \in SUBSET Memory
  BY <1>1, <1>4 DEF TypeOK
<1>6. /\ IsFiniteSet(Structs) /\ IsFiniteSet(Structs')
      /\ Cardinality(Structs) \in Nat
      /\ Cardinality(Structs') = Cardinality(Structs) + 1
      /\ Cardinality(Structs') <= Cardinality(Memory)
  <2>1. IsFiniteSet(Structs) /\ IsFiniteSet(Structs')
    BY <1>5, FS_Subset, MemoryAssumption DEF TypeOK
  <2>2. Cardinality(Structs') = Cardinality(Structs) + 1
    BY <1>2, <1>4, <2>1, FS_AddElement
  <2> QED
    BY <1>5, <2>1, <2>2, FS_Subset, FS_CardinalityType, MemoryAssumption
<1>7. Cardinality(Memory) \in Nat /\ Cardinality(Memory) < ID_MOD /\ ID_MOD \in Nat
  BY MemoryAssumption, FS_CardinalityType
<1>8. global_id_counter \in Nat /\ global_id_counter + 1 \in 0 .. ID_MOD - 1
  BY <1>6, <1>7 DEF IdsCounted
<1>9. (global_id_counter + 1) % ID_MOD = global_id_counter + 1
  BY <1>7, <1>8
<1>10. global_id_counter' = global_id_counter + 1
  BY <1>9 DEF ThreadStructInit
<1>11. global_id_counter \in 0 .. ID_MOD - 1
  BY DEF TypeOK
<1>12. /\ id' \in [Structs' -> 0 .. ID_MOD - 1] /\ id'[t] = global_id_counter
       /\ \A u \in Structs : id'[u] = id[u]
  <2>1. id \in [Structs -> 0 .. ID_MOD - 1] /\ id' = Set(id, t, global_id_counter)
    BY DEF ThreadStructInit, TypeOK
  <2> QED
    BY ONLY <1>2, <1>4, <1>11, <2>1 DEF Set
<1>13. /\ ready' \in [Structs' -> BOOLEAN] /\ ready'[t] = TRUE
       /\ \A u \in Structs : ready'[u] = ready[u]
  <2>1. ready \in [Structs -> BOOLEAN] /\ TRUE \in BOOLEAN /\ ready' = Set(ready, t, TRUE)
    BY DEF ThreadStructInit, TypeOK
  <2> QED
    BY ONLY <1>2, <1>4, <2>1 DEF Set
<1>14. /\ resume' \in [Structs' -> {"thread_main", "reschedule"}]
       /\ resume'[t] = "thread_main"
       /\ \A u \in Structs : resume'[u] = resume[u]
  <2>1. /\ resume \in [Structs -> {"thread_main", "reschedule"}]
        /\ resume' = Set(resume, t, "thread_main")
    BY DEF ThreadStructInit, TypeOK
  <2> QED
    BY ONLY <1>2, <1>4, <2>1 DEF Set
<1>15. /\ self' \in [Structs' -> Structs' \union {NULL}]
       /\ \A u \in Structs : self'[u] = self[u]
  <2>1. self \in [Structs -> Structs' \union {NULL}] /\ self' = Set(self, t, NULL)
    BY <1>4 DEF ThreadStructInit, TypeOK
  <2> QED
    BY ONLY <1>2, <1>4, <2>1 DEF Set
<1>16. MemoryAccounted'
  <2>1. allocated' = Structs' \union {stack'[u] : u \in Structs'}
    BY <1>1, <1>3, <1>4 DEF MemoryAccounted
  <2>2. ASSUME NEW u \in Structs', NEW v \in Structs'
        PROVE  stack'[u] # v /\ (u # v => stack'[u] # stack'[v])
    <3>1. \A w \in Structs : w \in allocated /\ stack[w] \in allocated
      BY DEF MemoryAccounted
    <3> QED
      BY <1>1, <1>3, <1>4, <2>2, <3>1 DEF MemoryAccounted
  <2> QED
    BY <2>1, <2>2 DEF MemoryAccounted
<1>17. IdsCounted'
  <2>1. ASSUME NEW u \in Structs' PROVE id'[u] < global_id_counter'
    BY <1>4, <1>8, <1>10, <1>12, <2>1 DEF IdsCounted, TypeOK
  <2> QED
    BY <1>6, <1>10, <2>1 DEF IdsCounted
<1> QED
  BY <1>2, <1>4, <1>3, <1>5, <1>8, <1>10, <1>12, <1>13, <1>14, <1>15, <1>16, <1>17

\* Who runs next, where the processor may be given up: the idle thread if nobody
\* waits, else the oldest of the queue; and what remains of the queue.
LEMMA NextThreadFacts ==
  ASSUME IInv, idle_thread \in Structs, current_thread # idle_thread
  PROVE  /\ NextThread \in Structs /\ NextThread # current_thread
         /\ resume[NextThread] = "thread_main"
         /\ RestOfList \in Seq(Structs) /\ RestOfCount = Len(RestOfList)
         /\ IsInjective(RestOfList)
         /\ ToSet(RestOfList) = Queued \ {NextThread}
         /\ \A i, j \in 1 .. Len(RestOfList) :
              i < j => id[RestOfList[i]] < id[RestOfList[j]]
         /\ \A t \in ToSet(RestOfList) : id[NextThread] < id[t]
         /\ NextThread = idle_thread => Queued = {} /\ RestOfList = <<>>
         /\ NextThread # idle_thread => NextThread \in Queued
<1>1. /\ thread_list \in Seq(Structs) /\ no_threads = Len(thread_list)
      /\ IsInjective(thread_list) /\ Len(thread_list) \in Nat
      /\ Queued = {t \in Structs : ready[t]} \ {idle_thread, current_thread}
  BY EmptyMembers DEF IInv, TypeOK, QueueSound, QueueHoldsTheWaiting
<1>2. CASE no_threads = 0
  <2>1. thread_list = <<>> /\ Queued = {}
    BY <1>1, <1>2, EmptyMembers DEF Queued
  <2>2. NextThread = idle_thread /\ RestOfList = thread_list /\ RestOfCount = 0
    BY <1>2 DEF NextThread, RestOfList, RestOfCount
  <2>3. resume[idle_thread] = "thread_main"
    BY DEF IInv, FirstSwitch
  <2>4. ToSet(RestOfList) = {} /\ Len(RestOfList) = 0
    BY <1>1, <1>2, <2>1, <2>2 DEF Queued
  <2> QED
    BY <1>1, <2>1, <2>2, <2>3, <2>4
<1>3. CASE no_threads # 0
  <2>1. thread_list # <<>>
    BY <1>1, <1>3, EmptyMembers
  <2>2. /\ NextThread = Head(thread_list) /\ RestOfList = Tail(thread_list)
        /\ RestOfCount = no_threads - 1
    BY <1>3 DEF NextThread, RestOfList, RestOfCount
  <2>3. /\ NextThread \in Queued /\ NextThread = thread_list[1]
        /\ RestOfList \in Seq(Structs) /\ Len(RestOfList) = Len(thread_list) - 1
        /\ \A i \in 1 .. Len(thread_list) - 1 : RestOfList[i] = thread_list[i + 1]
        /\ ToSet(RestOfList) = Queued \ {NextThread} /\ IsInjective(RestOfList)
    BY <1>1, <2>1, <2>2, TailMembers DEF Queued
  <2>4. resume[NextThread] = "thread_main"
    BY <2>3 DEF IInv, FirstSwitch
  <2>5. \A i, j \in 1 .. Len(thread_list) :
          i < j => id[thread_list[i]] < id[thread_list[j]]
    BY DEF IInv, QueueSound, OldestFirst
  <2>6. ASSUME NEW i \in 1 .. Len(RestOfList), NEW j \in 1 .. Len(RestOfList), i < j
        PROVE  id[RestOfList[i]] < id[RestOfList[j]]
    BY <1>1, <2>3, <2>5, <2>6
  <2>7. ASSUME NEW t \in ToSet(RestOfList) PROVE id[NextThread] < id[t]
    <3>1. DOMAIN RestOfList = 1 .. Len(RestOfList)
      BY <2>3, LenProperties
    <3>2. PICK i \in 1 .. Len(RestOfList) : RestOfList[i] = t
      BY <3>1, <2>7 DEF ToSet
    <3> QED
      BY <1>1, <1>3, <2>3, <2>5, <3>2
  <2> QED
    BY <1>1, <2>2, <2>3, <2>4, <2>6, <2>7
<1> QED
  BY <1>2, <1>3

-----------------------------------------------------------------------------
(* Each step keeps the invariant. *)

LEMMA InitIInv == Init => IInv
<1> SUFFICES ASSUME Init PROVE IInv
  OBVIOUS
<1>1. Structs = {}
  BY DEF Init, Structs
<1>2. Queued = {}
  BY DEF Init, Queued, ToSet
<1>3. ID_MOD \in Nat /\ 0 < ID_MOD
  BY MemoryAssumption, FS_CardinalityType
<1>4. Cardinality(Structs) = 0
  BY <1>1, FS_EmptySet
<1>5. TypeOK
  <2>1. <<>> \in [{} -> Memory] /\ <<>> \in [{} -> 0 .. ID_MOD - 1]
        /\ <<>> \in [{} -> BOOLEAN] /\ <<>> \in [{} -> {"thread_main", "reschedule"}]
        /\ <<>> \in [{} -> {} \union {NULL}]
    OBVIOUS
  <2>2. thread_list \in Seq(Structs)
    BY EmptySeq DEF Init
  <2> QED
    BY <1>1, <1>3, <2>1, <2>2 DEF Init, TypeOK, CpuStates
<1>6. QueueSound
  <2>1. QueueHoldsTheWaiting
    BY <1>1, <1>2 DEF Init, QueueHoldsTheWaiting, IsInjective
  <2>2. IdleOnlyWhenNothingWaits /\ OldestFirst
    BY <1>1, <1>2 DEF Init, IdleOnlyWhenNothingWaits, OldestFirst, Scheduling
  <2> QED
    BY <2>1, <2>2 DEF QueueSound
<1>7. StacksSound
  BY <1>1 DEF Init, StacksSound, NeverReturnsToNowhere, CurrentOwnsTheStack, Scheduling,
              MemoryAccounted
<1> QED
  BY <1>1, <1>2, <1>4, <1>5, <1>6, <1>7, MemoryAssumption
  DEF Init, IInv, BeforeThreads, AfterInit, Scheduling, FirstSwitch, IdsCounted

LEMMA ThreadInitStep == IInv /\ ThreadInit => IInv'
<1> SUFFICES ASSUME IInv, ThreadInit PROVE IInv'
  OBVIOUS
<1>1. PICK t \in Memory, s \in Memory :
        AllocateThread(t, s) /\ ThreadStructInit(t) /\ idle_thread' = t
  BY DEF ThreadInit
<1>2. /\ cpu = "boot" /\ cpu' = "initialised" /\ thread_list' = <<>> /\ no_threads' = 0
      /\ on_stack' = on_stack /\ current_thread' = current_thread
  BY DEF ThreadInit
<1>3. Structs = {} /\ on_stack = NULL /\ current_thread = NULL
  BY <1>2 DEF IInv, BeforeThreads
<1>4. TypeOK /\ MemoryAccounted /\ IdsCounted
  BY DEF IInv, StacksSound
<1>5. /\ Structs' = {t} /\ Structs' \in SUBSET Memory
      /\ allocated' \in SUBSET Memory
      /\ stack' \in [Structs' -> Memory]
      /\ id' \in [Structs' -> 0 .. ID_MOD - 1]
      /\ ready' \in [Structs' -> BOOLEAN]
      /\ resume' \in [Structs' -> {"thread_main", "reschedule"}]
      /\ self' \in [Structs' -> Structs' \union {NULL}]
      /\ global_id_counter' \in 0 .. ID_MOD - 1
      /\ resume'[t] = "thread_main"
      /\ MemoryAccounted'
      /\ IdsCounted'
  BY <1>1, <1>3, <1>4, NewThread
<1>6. Queued' = {} /\ thread_list' \in Seq(Structs')
  BY <1>2, EmptySeq DEF Queued, ToSet
<1>7. TypeOK'
  BY <1>1, <1>2, <1>3, <1>5, <1>6 DEF TypeOK, CpuStates
<1>8. QueueSound'
  <2>1. QueueHoldsTheWaiting'
    BY <1>1, <1>2, <1>5, <1>6 DEF QueueHoldsTheWaiting, IsInjective
  <2>2. IdleOnlyWhenNothingWaits' /\ OldestFirst'
    BY <1>2, <1>6 DEF IdleOnlyWhenNothingWaits, OldestFirst, Scheduling
  <2> QED
    BY <2>1, <2>2 DEF QueueSound
<1>9. StacksSound'
  BY <1>2, <1>5 DEF StacksSound, NeverReturnsToNowhere, CurrentOwnsTheStack, Scheduling
<1> QED
  BY <1>1, <1>2, <1>3, <1>5, <1>6, <1>7, <1>8, <1>9
  DEF IInv, BeforeThreads, AfterInit, Scheduling, FirstSwitch

\* A creation that fails gives back what it took.
LEMMA FailureKeepsMemory == AllocationFails => allocated' = allocated
BY DEF AllocationFails

LEMMA ThreadInitFailsStep == IInv /\ ThreadInitFails => IInv'
<1> SUFFICES ASSUME IInv, ThreadInitFails PROVE IInv'
  OBVIOUS
<1>1. /\ allocated' = allocated /\ cpu = "boot" /\ cpu' = "halted"
      /\ UNCHANGED <<on_stack, stack, structVars, frameVars, idle_thread,
                     current_thread, queueVars, global_id_counter>>
  BY FailureKeepsMemory DEF ThreadInitFails
<1>2. UNCHANGED <<Structs, Queued>>
  BY <1>1 DEF Structs, Queued, queueVars
<1>3. TypeOK'
  BY <1>1, <1>2 DEF IInv, TypeOK, CpuStates, structVars, frameVars, queueVars
<1>4. QueueSound'
  BY <1>1, <1>2
  DEF IInv, QueueSound, QueueHoldsTheWaiting, IdleOnlyWhenNothingWaits, OldestFirst,
      Scheduling, structVars, queueVars
<1>5. StacksSound'
  BY <1>1, <1>2
  DEF IInv, StacksSound, NeverReturnsToNowhere, CurrentOwnsTheStack, Scheduling,
      MemoryAccounted
<1> QED
  BY <1>1, <1>2, <1>3, <1>4, <1>5
  DEF IInv, BeforeThreads, AfterInit, Scheduling, FirstSwitch, IdsCounted, structVars,
      frameVars, queueVars

LEMMA ThreadCreateFailsStep == IInv /\ ThreadCreateFails => IInv'
<1> SUFFICES ASSUME IInv, ThreadCreateFails PROVE IInv'
  OBVIOUS
<1>1. allocated' = allocated /\ UNCHANGED vars
  BY FailureKeepsMemory DEF ThreadCreateFails, vars, heapVars
<1> QED
  BY <1>1
  DEF IInv, vars, heapVars, structVars, frameVars, queueVars, TypeOK, Structs, Queued,
      BeforeThreads, AfterInit, Scheduling, FirstSwitch, IdsCounted,
      QueueSound, QueueHoldsTheWaiting, IdleOnlyWhenNothingWaits, OldestFirst,
      StacksSound, NeverReturnsToNowhere, CurrentOwnsTheStack, MemoryAccounted

\* A new thread goes to the end of the queue, as the youngest of all.
LEMMA ThreadCreateStep ==
  ASSUME IInv, ThreadCreate
  PROVE  /\ IInv'
         /\ \E t \in Memory :
              /\ t \notin Structs /\ Structs' = Structs \union {t} /\ t # idle_thread
              /\ Queued' = Queued \union {t}
              /\ id'[t] = global_id_counter
              /\ \A u \in Structs : id'[u] = id[u] /\ id[u] < global_id_counter
<1>1. PICK t \in Memory, s \in Memory :
        /\ AllocateThread(t, s) /\ ThreadStructInit(t)
        /\ ThreadRunQueueAdd(thread_list, no_threads, t)
  BY DEF ThreadCreate
<1>2. /\ cpu \in {"initialised", "fn"}
      /\ cpu = "fn" => on_stack # idle_thread
      /\ UNCHANGED <<cpu, on_stack, idle_thread, current_thread>>
  BY DEF ThreadCreate, MayCreate
<1>3. idle_thread \in Structs /\ current_thread \in Structs \union {NULL}
  BY <1>2 DEF IInv, AfterInit, TypeOK
<1>4. TypeOK /\ MemoryAccounted /\ IdsCounted
  BY DEF IInv, StacksSound
<1>5. /\ t \notin Structs /\ Structs' = Structs \union {t} /\ Structs' \in SUBSET Memory
      /\ allocated' \in SUBSET Memory
      /\ stack' \in [Structs' -> Memory]
      /\ id' \in [Structs' -> 0 .. ID_MOD - 1]
      /\ ready' \in [Structs' -> BOOLEAN]
      /\ resume' \in [Structs' -> {"thread_main", "reschedule"}]
      /\ self' \in [Structs' -> Structs' \union {NULL}]
      /\ global_id_counter' \in 0 .. ID_MOD - 1
      /\ id'[t] = global_id_counter /\ ready'[t] /\ resume'[t] = "thread_main"
      /\ \A u \in Structs : /\ id'[u] = id[u] /\ ready'[u] = ready[u]
                            /\ resume'[u] = resume[u] /\ self'[u] = self[u]
      /\ MemoryAccounted'
      /\ IdsCounted'
  BY <1>1, <1>4, NewThread
<1>6. t # idle_thread /\ t # current_thread
  BY <1>3, <1>5, MemoryAssumption
<1>7. thread_list \in Seq(Structs') /\ t \in Structs' /\ Len(thread_list) \in Nat
  BY <1>4, <1>5, SeqMonotonic, LenProperties DEF TypeOK
<1>8. /\ thread_list' \in Seq(Structs')
      /\ Len(thread_list') = Len(thread_list) + 1
      /\ \A i \in 1 .. Len(thread_list) : thread_list'[i] = thread_list[i]
      /\ thread_list'[Len(thread_list) + 1] = t
      /\ Queued' = Queued \union {t}
  BY <1>1, <1>7, AppendMembers DEF ThreadRunQueueAdd, Queued
<1>9. /\ DOMAIN thread_list = 1 .. Len(thread_list)
      /\ \A i \in 1 .. Len(thread_list) : thread_list[i] \in Queued
      /\ Queued \subseteq Structs
  <2>1. DOMAIN thread_list = 1 .. Len(thread_list)
    BY <1>7, LenProperties
  <2>2. Queued \subseteq Structs
    BY DEF IInv, QueueSound, QueueHoldsTheWaiting
  <2> QED
    BY <2>1, <2>2 DEF Queued, ToSet
<1>10. TypeOK'
  <2>1. no_threads' = no_threads + 1
    BY <1>1 DEF ThreadRunQueueAdd
  <2> QED
    BY <1>2, <1>4, <1>5, <1>8, <2>1 DEF TypeOK
<1>11. QueueHoldsTheWaiting'
  <2>1. QueueHoldsTheWaiting
    BY DEF IInv, QueueSound
  <2>2. no_threads' = Len(thread_list')
    BY <1>1, <1>8, <2>1 DEF ThreadRunQueueAdd, QueueHoldsTheWaiting
  <2>3. DOMAIN thread_list' = 1 .. Len(thread_list) + 1
    BY <1>8, LenProperties
  <2>4. IsInjective(thread_list')
    <3>1. \A i, j \in 1 .. Len(thread_list) : thread_list[i] = thread_list[j] => i = j
      BY <1>9, <2>1 DEF QueueHoldsTheWaiting, IsInjective
    <3>2. \A i \in 1 .. Len(thread_list) : thread_list[i] # t
      BY <1>5, <1>9
    <3>3. \A i \in 1 .. Len(thread_list) + 1 :
            i \in 1 .. Len(thread_list) \/ i = Len(thread_list) + 1
      BY <1>7
    <3>4. \A i, j \in 1 .. Len(thread_list) + 1 : thread_list'[i] = thread_list'[j] => i = j
      BY <1>8, <3>1, <3>2, <3>3
    <3> QED
      BY <2>3, <3>4 DEF IsInjective
  <2>5. Queued' = {u \in Structs' : ready'[u]} \ {idle_thread', current_thread'}
    BY <1>2, <1>5, <1>6, <1>8, <2>1 DEF QueueHoldsTheWaiting
  <2> QED
    BY <2>2, <2>4, <2>5 DEF QueueHoldsTheWaiting
<1>12. IdleOnlyWhenNothingWaits'
  BY <1>2 DEF IInv, StacksSound, CurrentOwnsTheStack, IdleOnlyWhenNothingWaits, Scheduling
<1>13. OldestFirst'
  <2>1. OldestFirst /\ (\A u \in Structs : id[u] < global_id_counter)
    BY <1>4 DEF IInv, QueueSound, IdsCounted
  <2>2. ASSUME NEW i \in 1 .. Len(thread_list'), NEW j \in 1 .. Len(thread_list'), i < j
        PROVE  id'[thread_list'[i]] < id'[thread_list'[j]]
    <3>1. i \in 1 .. Len(thread_list) /\ thread_list'[i] \in Structs
      BY <1>7, <1>8, <1>9, <2>2
    <3>2. CASE j \in 1 .. Len(thread_list)
      <4>1. id[thread_list[i]] < id[thread_list[j]]
        BY <2>1, <2>2, <3>1, <3>2 DEF OldestFirst
      <4>2. thread_list'[i] = thread_list[i] /\ thread_list'[j] = thread_list[j]
        BY <1>8, <3>1, <3>2
      <4>3. thread_list[i] \in Structs /\ thread_list[j] \in Structs
        BY <1>9, <3>1, <3>2
      <4> QED
        BY <1>5, <4>1, <4>2, <4>3
    <3>3. CASE j = Len(thread_list) + 1
      BY <1>5, <1>8, <2>1, <3>1, <3>3
    <3> QED
      BY <1>7, <1>8, <3>2, <3>3
  <2>3. ASSUME NEW u \in Queued', NEW v \in Structs' \ Queued'
        PROVE  id'[v] < id'[u]
    BY <1>5, <1>8, <1>9, <2>1 DEF OldestFirst
  <2> QED
    BY <2>2, <2>3 DEF OldestFirst
<1>14. StacksSound'
  <2>1. NeverReturnsToNowhere' /\ MemoryAccounted'
    BY <1>2, <1>5 DEF NeverReturnsToNowhere
  <2>2. CurrentOwnsTheStack'
    <3>1. cpu = "fn" => on_stack \in Structs /\ on_stack = current_thread
                        /\ self[on_stack] = current_thread
      BY DEF IInv, AfterInit, StacksSound, CurrentOwnsTheStack, Scheduling
    <3> QED
      BY <1>2, <1>5, <3>1 DEF CurrentOwnsTheStack, Scheduling
  <2> QED
    BY <2>1, <2>2 DEF StacksSound
<1>15. FirstSwitch'
  BY <1>2, <1>3, <1>5, <1>6, <1>8, <1>9 DEF IInv, FirstSwitch
<1>16. BeforeThreads' /\ AfterInit'
  BY <1>2, <1>5 DEF IInv, BeforeThreads, AfterInit, Scheduling
<1>17. IInv'
  BY <1>5, <1>10, <1>11, <1>12, <1>13, <1>14, <1>15, <1>16 DEF IInv, QueueSound
<1> QED
  BY <1>4, <1>5, <1>6, <1>8, <1>17 DEF IdsCounted

LEMMA StartSchedulerStep == IInv /\ StartScheduler => IInv'
<1> SUFFICES ASSUME IInv, StartScheduler PROVE IInv'
  OBVIOUS
<1>1. /\ cpu = "initialised" /\ resume' = resume
      /\ current_thread' = NextThread /\ on_stack' = NextThread
      /\ thread_list' = RestOfList /\ no_threads' = RestOfCount
      /\ cpu' = IF resume[NextThread] = "thread_main" THEN "thread_main" ELSE "nowhere"
      /\ UNCHANGED <<heapVars, structVars, self, idle_thread, global_id_counter>>
  BY DEF StartScheduler, Restore
<1>2. idle_thread \in Structs /\ current_thread = NULL /\ current_thread # idle_thread
  BY <1>1, MemoryAssumption DEF IInv, AfterInit, TypeOK
<1>3. Structs' = Structs
  BY <1>1 DEF Structs, heapVars
<1>4. /\ NextThread \in Structs
      /\ resume[NextThread] = "thread_main"
      /\ RestOfList \in Seq(Structs) /\ RestOfCount = Len(RestOfList)
      /\ IsInjective(RestOfList)
      /\ ToSet(RestOfList) = Queued \ {NextThread}
      /\ \A i, j \in 1 .. Len(RestOfList) :
           i < j => id[RestOfList[i]] < id[RestOfList[j]]
      /\ \A t \in ToSet(RestOfList) : id[NextThread] < id[t]
      /\ NextThread = idle_thread => Queued = {} /\ RestOfList = <<>>
      /\ NextThread # idle_thread => NextThread \in Queued
  BY <1>2, NextThreadFacts
<1>5. cpu' = "thread_main" /\ Queued' = Queued \ {NextThread}
  BY <1>1, <1>4 DEF Queued
<1>6. Queued = {t \in Structs : ready[t]} \ {idle_thread, current_thread}
  BY DEF IInv, QueueSound, QueueHoldsTheWaiting
<1>7. TypeOK'
  <2>1. RestOfCount \in Nat
    BY <1>4, LenProperties
  <2> QED
    BY <1>1, <1>3, <1>4, <1>5, <2>1
    DEF IInv, TypeOK, CpuStates, heapVars, structVars
<1>8. QueueHoldsTheWaiting'
  BY <1>1, <1>2, <1>3, <1>4, <1>5, <1>6, MemoryAssumption
  DEF QueueHoldsTheWaiting, structVars, IInv, TypeOK
<1>9. IdleOnlyWhenNothingWaits'
  BY <1>1, <1>2, <1>3, <1>4, <1>6, MemoryAssumption
  DEF IdleOnlyWhenNothingWaits, structVars, IInv, TypeOK
<1>10. OldestFirst'
  <2>1. \A u \in Queued, v \in Structs \ Queued : id[v] < id[u]
    BY DEF IInv, QueueSound, OldestFirst
  <2> QED
    BY <1>1, <1>3, <1>4, <1>5, <2>1 DEF OldestFirst, structVars
<1>11. StacksSound'
  BY <1>1, <1>3, <1>5
  DEF IInv, StacksSound, NeverReturnsToNowhere, CurrentOwnsTheStack, MemoryAccounted,
      heapVars
<1>12. FirstSwitch'
  BY <1>1, <1>2, <1>3, <1>5 DEF IInv, FirstSwitch
<1> QED
  BY <1>1, <1>2, <1>3, <1>4, <1>5, <1>7, <1>8, <1>9, <1>10, <1>11, <1>12
  DEF IInv, BeforeThreads, AfterInit, Scheduling, IdsCounted, QueueSound, structVars

LEMMA ThreadMainStartsStep == IInv /\ ThreadMainStarts => IInv'
<1> SUFFICES ASSUME IInv, ThreadMainStarts PROVE IInv'
  OBVIOUS
<1>1. /\ cpu = "thread_main" /\ cpu' = "fn"
      /\ self' = [self EXCEPT ![on_stack] = current_thread]
      /\ UNCHANGED <<on_stack, heapVars, structVars, resume, idle_thread,
                     current_thread, queueVars, global_id_counter>>
  BY DEF ThreadMainStarts
<1>2. UNCHANGED <<Structs, Queued>>
  BY <1>1 DEF Structs, Queued, heapVars, queueVars
<1>3. on_stack = current_thread /\ current_thread \in Structs
  BY <1>1 DEF IInv, AfterInit, StacksSound, CurrentOwnsTheStack, Scheduling
<1>4. self \in [Structs -> Structs \union {NULL}]
  BY DEF IInv, TypeOK
<1>5. self' \in [Structs -> Structs \union {NULL}] /\ self'[on_stack] = current_thread
  BY <1>1, <1>3, <1>4
<1>6. TypeOK'
  BY <1>1, <1>2, <1>5
  DEF IInv, TypeOK, CpuStates, heapVars, structVars, queueVars
<1>7. QueueSound'
  BY <1>1, <1>2
  DEF IInv, QueueSound, QueueHoldsTheWaiting, IdleOnlyWhenNothingWaits, OldestFirst,
      Scheduling, structVars, queueVars
<1>8. StacksSound'
  BY <1>1, <1>2, <1>3, <1>5
  DEF IInv, StacksSound, NeverReturnsToNowhere, CurrentOwnsTheStack, MemoryAccounted,
      heapVars
<1> QED
  BY <1>1, <1>2, <1>3, <1>6, <1>7, <1>8
  DEF IInv, BeforeThreads, AfterInit, Scheduling, FirstSwitch, IdsCounted, structVars,
      queueVars

\* What a thread does when its function returns: it is no longer ready, so it is not
\* queued again, and the next thread takes the processor.
LEMMA FnReturnsFacts ==
  ASSUME IInv, FnReturns
  PROVE  /\ current_thread \in Structs /\ current_thread # idle_thread
         /\ idle_thread \in Structs
         /\ ready' = [ready EXCEPT ![current_thread] = FALSE]
         /\ resume' = [resume EXCEPT ![current_thread] = "reschedule"]
         /\ current_thread' = NextThread /\ on_stack' = NextThread
         /\ thread_list' = RestOfList /\ no_threads' = RestOfCount
         /\ cpu' = "thread_main"
         /\ UNCHANGED <<heapVars, id, self, idle_thread, global_id_counter>>
<1>1. cpu = "fn" /\ on_stack # idle_thread
  BY DEF FnReturns
<1>2. /\ on_stack = current_thread /\ self[on_stack] = current_thread
      /\ current_thread \in Structs /\ idle_thread \in Structs
  BY <1>1 DEF IInv, AfterInit, StacksSound, CurrentOwnsTheStack, Scheduling
<1>3. current_thread # idle_thread
  BY <1>1, <1>2
<1>4. ready' = [ready EXCEPT ![current_thread] = FALSE]
  BY <1>2 DEF FnReturns
<1>5. ready'[current_thread] = FALSE
  BY <1>2, <1>4 DEF IInv, TypeOK
<1>6. /\ thread_list' = RestOfList /\ no_threads' = RestOfCount
      /\ resume' = [resume EXCEPT ![current_thread] = "reschedule"]
      /\ current_thread' = NextThread /\ on_stack' = NextThread
      /\ cpu' = IF resume'[NextThread] = "thread_main" THEN "thread_main" ELSE "nowhere"
  BY <1>5 DEF FnReturns, ThreadReschedule, Restore
<1>7. resume'[NextThread] = "thread_main"
  <2>1. /\ NextThread \in Structs /\ NextThread # current_thread
        /\ resume[NextThread] = "thread_main"
    BY <1>2, <1>3, NextThreadFacts
  <2> QED
    BY <1>6, <2>1 DEF IInv, TypeOK
<1> QED
  BY <1>2, <1>3, <1>4, <1>6, <1>7 DEF FnReturns

LEMMA FnReturnsStep == IInv /\ FnReturns => IInv'
<1> SUFFICES ASSUME IInv, FnReturns PROVE IInv'
  OBVIOUS
<1>1. /\ current_thread \in Structs /\ current_thread # idle_thread
      /\ idle_thread \in Structs
      /\ ready' = [ready EXCEPT ![current_thread] = FALSE]
      /\ resume' = [resume EXCEPT ![current_thread] = "reschedule"]
      /\ current_thread' = NextThread /\ on_stack' = NextThread
      /\ thread_list' = RestOfList /\ no_threads' = RestOfCount
      /\ cpu' = "thread_main"
      /\ UNCHANGED <<heapVars, id, self, idle_thread, global_id_counter>>
  BY FnReturnsFacts
<1>2. Structs' = Structs
  BY <1>1 DEF Structs, heapVars
<1>3. /\ NextThread \in Structs /\ NextThread # current_thread
      /\ RestOfList \in Seq(Structs) /\ RestOfCount = Len(RestOfList)
      /\ IsInjective(RestOfList)
      /\ ToSet(RestOfList) = Queued \ {NextThread}
      /\ \A i, j \in 1 .. Len(RestOfList) :
           i < j => id[RestOfList[i]] < id[RestOfList[j]]
      /\ \A t \in ToSet(RestOfList) : id[NextThread] < id[t]
      /\ NextThread = idle_thread => Queued = {} /\ RestOfList = <<>>
      /\ NextThread # idle_thread => NextThread \in Queued
  BY <1>1, NextThreadFacts
<1>4. Queued' = Queued \ {NextThread}
  BY <1>1, <1>3 DEF Queued
<1>5. Queued = {t \in Structs : ready[t]} \ {idle_thread, current_thread}
  BY DEF IInv, QueueSound, QueueHoldsTheWaiting
<1>6. /\ ready' \in [Structs -> BOOLEAN]
      /\ resume' \in [Structs -> {"thread_main", "reschedule"}]
      /\ ~ ready'[current_thread]
      /\ \A t \in Structs \ {current_thread} :
           ready'[t] = ready[t] /\ resume'[t] = resume[t]
  BY <1>1 DEF IInv, TypeOK
<1>7. TypeOK'
  <2>1. RestOfCount \in Nat
    BY <1>3, LenProperties
  <2> QED
    BY <1>1, <1>2, <1>3, <1>6, <2>1 DEF IInv, TypeOK, CpuStates, heapVars
<1>8. QueueHoldsTheWaiting'
  <2>1. Queued' = {t \in Structs : ready'[t]} \ {idle_thread, NextThread}
    BY <1>3, <1>4, <1>5, <1>6
  <2> QED
    BY <1>1, <1>2, <1>3, <2>1 DEF QueueHoldsTheWaiting
<1>9. IdleOnlyWhenNothingWaits'
  <2>1. NextThread = idle_thread => \A t \in Structs \ {idle_thread} : ~ ready'[t]
    BY <1>3, <1>5, <1>6
  <2> QED
    BY <1>1, <1>2, <1>3, <2>1 DEF IdleOnlyWhenNothingWaits
<1>10. OldestFirst'
  <2>1. \A u \in Queued, v \in Structs \ Queued : id[v] < id[u]
    BY DEF IInv, QueueSound, OldestFirst
  <2> QED
    BY <1>1, <1>2, <1>3, <1>4, <2>1 DEF OldestFirst
<1>11. StacksSound'
  BY <1>1, <1>2
  DEF IInv, StacksSound, NeverReturnsToNowhere, CurrentOwnsTheStack, MemoryAccounted,
      heapVars
<1>12. FirstSwitch'
  <2>1. \A t \in Queued' : t \in Structs \ {current_thread} /\ resume[t] = "thread_main"
    BY <1>4, <1>5 DEF IInv, FirstSwitch
  <2>2. resume'[idle_thread] = "thread_main"
    BY <1>1, <1>6 DEF IInv, FirstSwitch
  <2> QED
    BY <1>1, <1>6, <2>1, <2>2 DEF FirstSwitch
<1> QED
  BY <1>1, <1>2, <1>3, <1>7, <1>8, <1>9, <1>10, <1>11, <1>12
  DEF IInv, BeforeThreads, AfterInit, Scheduling, IdsCounted, QueueSound

LEMMA StutterStep == IInv /\ UNCHANGED vars => IInv'
BY DEF IInv, vars, heapVars, structVars, frameVars, queueVars, TypeOK, Structs, Queued,
       BeforeThreads, AfterInit, Scheduling, FirstSwitch, IdsCounted,
       QueueSound, QueueHoldsTheWaiting, IdleOnlyWhenNothingWaits, OldestFirst,
       StacksSound, NeverReturnsToNowhere, CurrentOwnsTheStack, MemoryAccounted

LEMMA NextIInv == IInv /\ [Next]_vars => IInv'
<1> SUFFICES ASSUME IInv, [Next]_vars PROVE IInv'
  OBVIOUS
<1>1. IdleThreadFn \/ CpuHalt => UNCHANGED vars
  BY DEF IdleThreadFn, CpuHalt
<1> QED
  BY <1>1, ThreadInitStep, ThreadInitFailsStep, ThreadCreateStep, ThreadCreateFailsStep,
     StartSchedulerStep, ThreadMainStartsStep, FnReturnsStep, StutterStep DEF Next

LEMMA InductiveInvariant == Spec => []IInv
BY InitIInv, NextIInv, PTL DEF Spec

-----------------------------------------------------------------------------
(* What the invariant says of the scheduler. *)

\* Every variable keeps its type; in particular global_id_counter does not wrap.
THEOREM TypeCorrect == Spec => []TypeOK
<1>1. IInv => TypeOK
  BY DEF IInv
<1> QED
  BY <1>1, InductiveInvariant, PTL

\* thread_create and thread_reschedule keep the run queue right: it holds exactly the
\* threads that wait, oldest first, and the idle thread runs only when none does.
THEOREM QueueIsSound == Spec => []QueueSound
<1>1. IInv => QueueSound
  BY DEF IInv
<1> QED
  BY <1>1, InductiveInvariant, PTL

\* The processor is always on the stack of current_thread, never returns from one
\* whose thread is over, and no two threads share memory.
THEOREM StacksAreSound == Spec => []StacksSound
<1>1. IInv => StacksSound
  BY DEF IInv
<1> QED
  BY <1>1, InductiveInvariant, PTL

-----------------------------------------------------------------------------
(* The module implements the abstract cooperative scheduler. *)

\* The refinement mapping's terms, by the abstract scheduler's names.
Ticket == [t \in Structs \ {idle_thread} |-> id[t]]
Running == IF current_thread = idle_thread THEN NULL ELSE current_thread

LEMMA InitRefines == Init => Coop!CInit
<1> SUFFICES ASSUME Init PROVE Coop!CInit
  OBVIOUS
<1>1. Structs = {} /\ Queued = {}
  BY DEF Init, Structs, Queued, ToSet
<1>2. Ticket = <<>>
  BY <1>1 DEF Ticket
<1> QED
  BY <1>1, <1>2 DEF Init, Coop!CInit, Ticket, Scheduling

\* The thread taken from the queue is the one with the lowest ticket.
LEMMA DispatchRefines ==
  ASSUME IInv, idle_thread \in Structs, current_thread # idle_thread,
         current_thread' = NextThread, thread_list' = RestOfList,
         UNCHANGED <<heapVars, id, idle_thread>>
  PROVE  Coop!Dispatch
<1>1. /\ NextThread \in Structs
      /\ ToSet(RestOfList) = Queued \ {NextThread}
      /\ \A t \in ToSet(RestOfList) : id[NextThread] < id[t]
      /\ NextThread = idle_thread => Queued = {}
      /\ NextThread # idle_thread => NextThread \in Queued
  BY NextThreadFacts
<1>2. Queued' = Queued \ {NextThread}
  BY <1>1 DEF Queued
<1>3. Ticket' = Ticket
  BY DEF Ticket, Structs, heapVars
<1>4. Queued \subseteq Structs \ {idle_thread}
  BY DEF IInv, QueueSound, QueueHoldsTheWaiting
<1>5. CASE NextThread = idle_thread
  <2>1. Queued = {} /\ Queued' = Queued /\ Running' = NULL
    BY <1>1, <1>2, <1>5 DEF Running
  <2> QED
    BY <1>3, <2>1 DEF Coop!Dispatch, Running, Ticket
<1>6. CASE NextThread # idle_thread
  <2>1. NextThread \in Queued /\ Running' = NextThread
    BY <1>1, <1>6 DEF Running
  <2>2. ASSUME NEW u \in Queued PROVE Ticket[NextThread] <= Ticket[u]
    <3>1. Ticket[NextThread] = id[NextThread] /\ Ticket[u] = id[u]
      BY <1>4, <2>1, <2>2 DEF Ticket
    <3>2. id[NextThread] \in Nat /\ id[u] \in Nat
      BY <1>4, <2>1, <2>2 DEF IInv, TypeOK
    <3>3. u = NextThread \/ id[NextThread] < id[u]
      BY <1>1, <2>2
    <3> QED
      BY <3>1, <3>2, <3>3
  <2> QED
    BY <1>2, <1>3, <2>1, <2>2 DEF Coop!Dispatch, Running, Ticket
<1> QED
  BY <1>5, <1>6

LEMMA StepRefines ==
  ASSUME IInv, [Next]_vars
  PROVE  [Coop!CNext]_(Coop!cvars)
<1>1. CASE ThreadInit
  <2>1. PICK t \in Memory, s \in Memory :
          AllocateThread(t, s) /\ ThreadStructInit(t) /\ idle_thread' = t
    BY <1>1 DEF ThreadInit
  <2>2. /\ cpu = "boot" /\ cpu' = "initialised" /\ thread_list' = <<>>
        /\ current_thread' = current_thread
    BY <1>1 DEF ThreadInit
  <2>3. Structs = {} /\ idle_thread = NULL /\ current_thread = NULL /\ thread_list = <<>>
    BY <2>2 DEF IInv, BeforeThreads
  <2>4. Structs' = {t}
    BY <2>1, <2>3, NewThread DEF IInv, StacksSound
  <2>5. Ticket' = Ticket
    BY <2>1, <2>3, <2>4 DEF Ticket
  <2>6. Running' = NULL /\ Running = NULL
    BY <2>1, <2>2, <2>3 DEF Running
  <2>7. Scheduling' = Scheduling /\ Queued' = Queued
    BY <2>2, <2>3 DEF Scheduling, Queued
  <2> QED
    BY <2>5, <2>6, <2>7 DEF Coop!cvars, Ticket, Running
<1>2. CASE ThreadInitFails
  <2>1. /\ cpu = "boot" /\ cpu' = "halted"
        /\ UNCHANGED <<stack, id, idle_thread, current_thread, thread_list>>
    BY <1>2 DEF ThreadInitFails, structVars, queueVars
  <2>2. Scheduling' = Scheduling /\ Queued' = Queued /\ Structs' = Structs
    BY <2>1 DEF Scheduling, Queued, Structs
  <2> QED
    BY <2>1, <2>2 DEF Coop!cvars
<1>3. CASE ThreadCreate
  <2>1. PICK t \in Memory :
          /\ t \notin Structs /\ Structs' = Structs \union {t} /\ t # idle_thread
          /\ Queued' = Queued \union {t}
          /\ id'[t] = global_id_counter
          /\ \A u \in Structs : id'[u] = id[u] /\ id[u] < global_id_counter
    BY <1>3, ThreadCreateStep
  <2>2. UNCHANGED <<cpu, idle_thread, current_thread>>
    BY <1>3 DEF ThreadCreate
  <2>3. Scheduling => Running # NULL
    BY <1>3, MemoryAssumption
    DEF ThreadCreate, MayCreate, Scheduling, Running, IInv, AfterInit, StacksSound,
        CurrentOwnsTheStack, TypeOK
  <2>4. /\ DOMAIN Ticket = Structs \ {idle_thread}
        /\ DOMAIN Ticket' = DOMAIN Ticket \union {t} /\ t \notin DOMAIN Ticket
    BY <2>1, <2>2 DEF Ticket
  <2>5. ASSUME NEW u \in DOMAIN Ticket
        PROVE  Ticket'[u] = Ticket[u] /\ Ticket[u] < Ticket'[t]
    <3>1. u \in Structs \ {idle_thread}
      BY <2>4, <2>5
    <3>2. Ticket'[u] = id'[u] /\ Ticket'[t] = id'[t] /\ Ticket[u] = id[u]
      BY <2>1, <2>2, <3>1 DEF Ticket
    <3> QED
      BY <2>1, <3>1, <3>2
  <2>6. Coop!Create(t)
    BY <2>1, <2>2, <2>3, <2>4, <2>5 DEF Coop!Create, Ticket, Running, Scheduling
  <2> QED
    BY <2>6 DEF Coop!CNext
<1>4. CASE StartScheduler
  <2>1. /\ cpu = "initialised" /\ current_thread' = NextThread
        /\ thread_list' = RestOfList
        /\ UNCHANGED <<heapVars, id, idle_thread>>
    BY <1>4 DEF StartScheduler, structVars
  <2>2. idle_thread \in Structs /\ current_thread # idle_thread
    BY <2>1, MemoryAssumption DEF IInv, AfterInit, TypeOK
  <2>3. Coop!Dispatch
    BY <2>1, <2>2, DispatchRefines
  <2>4. ~ Scheduling /\ Scheduling'
    <3>1. cpu' # "nowhere" /\ cpu' \in {"thread_main", "nowhere"}
      BY <1>4, StartSchedulerStep
      DEF StartScheduler, Restore, IInv, StacksSound, NeverReturnsToNowhere
    <3> QED
      BY <2>1, <3>1 DEF Scheduling
  <2>5. Coop!Open
    BY <2>3, <2>4 DEF Coop!Open
  <2> QED
    BY <2>5 DEF Coop!CNext
<1>5. CASE ThreadMainStarts
  <2>1. /\ cpu = "thread_main" /\ cpu' = "fn"
        /\ UNCHANGED <<stack, id, idle_thread, current_thread, thread_list>>
    BY <1>5 DEF ThreadMainStarts, heapVars, structVars, queueVars
  <2>2. Scheduling' = Scheduling /\ Queued' = Queued /\ Structs' = Structs
    BY <2>1 DEF Scheduling, Queued, Structs
  <2> QED
    BY <2>1, <2>2 DEF Coop!cvars
<1>6. CASE FnReturns
  <2>1. /\ current_thread \in Structs /\ current_thread # idle_thread
        /\ idle_thread \in Structs
        /\ current_thread' = NextThread /\ thread_list' = RestOfList
        /\ cpu' = "thread_main"
        /\ UNCHANGED <<heapVars, id, idle_thread>>
    BY <1>6, FnReturnsFacts
  <2>2. Coop!Dispatch
    BY <2>1, DispatchRefines
  <2>3. Scheduling /\ Scheduling'
    BY <1>6, <2>1 DEF FnReturns, Scheduling
  <2>4. Running # NULL
    BY <2>1, MemoryAssumption DEF Running, IInv, TypeOK
  <2>5. Coop!Finish
    BY <2>2, <2>3, <2>4 DEF Coop!Finish, Running
  <2> QED
    BY <2>5 DEF Coop!CNext
<1>7. CASE ThreadCreateFails \/ IdleThreadFn \/ CpuHalt \/ UNCHANGED vars
  <2>1. UNCHANGED <<cpu, stack, id, idle_thread, current_thread, thread_list>>
    BY <1>7
    DEF ThreadCreateFails, IdleThreadFn, CpuHalt, vars, heapVars, structVars, queueVars
  <2>2. Scheduling' = Scheduling /\ Queued' = Queued /\ Structs' = Structs
    BY <2>1 DEF Scheduling, Queued, Structs
  <2> QED
    BY <2>1, <2>2 DEF Coop!cvars
<1> QED
  BY <1>1, <1>2, <1>3, <1>4, <1>5, <1>6, <1>7 DEF Next

\* Threads wait, run once, undisturbed, in the order of their creation, and the
\* processor idles only when none waits.
THEOREM ThreadsImplementCoop == Spec => ImplementsCoop
<1>1. IInv /\ [Next]_vars => [Coop!CNext]_(Coop!cvars)
  BY StepRefines
<1> QED
  BY <1>1, InitRefines, InductiveInvariant, PTL DEF Spec, ImplementsCoop, Coop!CSpec

==============================================================================
