---------------------------- MODULE ThreadsOnHeap ----------------------------
(***************************************************************************)
(* Thread creation on the real allocator: idle_thread_create and           *)
(* thread_create of src/kernel/thread.c, call by call, over the heap of    *)
(* module Heap.  Nothing gives a finished thread's memory back; the error  *)
(* path frees a struct, and the functions of threads may use the heap for  *)
(* themselves between creations.  During a creation nothing else uses it.  *)
(***************************************************************************)
EXTENDS Heap

CONSTANTS
  THREAD_SZ,                  \* sizeof(struct thread): 28 on i386
  THREAD_DEFAULT_STACK_SIZE,  \* 4096
  OtherRequests               \* the sizes thread functions ask for

ASSUME ThreadSizeAssumption ==
  OtherRequests \union {THREAD_SZ, THREAD_DEFAULT_STACK_SIZE} \subseteq Requests

VARIABLES
  step,     \* what the creation under way does next, "none" between creations
  thread,   \* the local `thread' of that creation, 0 for NULL
  stack_of, \* struct of every thread created -> its stack
  others    \* the blocks thread functions hold

tvars == <<step, thread, stack_of, others>>
allVars == <<vars, tvars>>

Steps == {"none", "malloc stack", "out", "in heap_free"}
Structs == DOMAIN stack_of
Stacks == {stack_of[t] : t \in Structs}

TInit ==
  /\ Init
  /\ step = "none" /\ thread = 0 /\ stack_of = <<>> /\ others = {}

\* The block a successful heap_malloc has just handed out.
Vended == CHOOSE b \in vended' \ vended : TRUE

BootHeap ==
  /\ HeapInit
  /\ UNCHANGED tvars

\* thread = heap_malloc(sizeof(*thread)), and the return if it fails: heap_free of
\* two null pointers does nothing.
MallocStruct ==
  /\ step = "none" /\ Blocks # {}
  /\ drift <= MaxDrift
  /\ Malloc(THREAD_SZ)
  /\ step' = "malloc stack" /\ thread' = Vended
  /\ UNCHANGED <<stack_of, others>>

MallocStructFails ==
  /\ step = "none" /\ Blocks # {}
  /\ MallocFails(THREAD_SZ)
  /\ UNCHANGED tvars

\* stack = heap_malloc(stack_size), and the rest of the creation.
MallocStack ==
  /\ step = "malloc stack"
  /\ Malloc(THREAD_DEFAULT_STACK_SIZE)
  /\ stack_of' = [t \in Structs \union {thread} |->
                    IF t = thread THEN Vended ELSE stack_of[t]]
  /\ step' = "none" /\ thread' = 0
  /\ others' = others

\* Variant: the null pointer goes unnoticed.
MallocStackFailsUnnoticed ==
  /\ step = "malloc stack"
  /\ MallocFails(THREAD_DEFAULT_STACK_SIZE)
  /\ stack_of' = [t \in Structs \union {thread} |->
                    IF t = thread THEN 0 ELSE stack_of[t]]
  /\ step' = "none" /\ thread' = 0
  /\ others' = others

MallocStackFails ==
  /\ step = "malloc stack"
  /\ MallocFails(THREAD_DEFAULT_STACK_SIZE)
  /\ step' = "out"
  /\ UNCHANGED <<thread, stack_of, others>>

\* Variant: the struct is not freed.
OutLeaks ==
  /\ step = "out"
  /\ step' = "none" /\ thread' = 0
  /\ UNCHANGED <<vars, stack_of, others>>

\* heap_free(thread), then heap_free(stack) with the null pointer.
Out ==
  /\ step = "out"
  /\ Free(thread)
  /\ step' = "in heap_free" /\ thread' = 0
  /\ UNCHANGED <<stack_of, others>>

\* A thread's function uses the heap.
OtherMalloc(request) ==
  /\ step = "none" /\ Structs # {}
  /\ drift <= MaxDrift
  /\ Malloc(request)
  /\ others' = others \union {Vended}
  /\ UNCHANGED <<step, thread, stack_of>>

OtherFree(b) ==
  /\ step = "none"
  /\ Free(b)
  /\ others' = others \ {b}
  /\ step' = "in heap_free"
  /\ UNCHANGED <<thread, stack_of>>

\* heap_free's coalescing, and its return.
Defragments ==
  /\ step = "in heap_free"
  /\ Absorb \/ Advance
  /\ UNCHANGED tvars

FreeEnds ==
  /\ step = "in heap_free"
  /\ FreeReturns
  /\ step' = "none"
  /\ UNCHANGED <<thread, stack_of, others>>

TNext ==
  \/ BootHeap
  \/ MallocStruct \/ MallocStructFails
  \/ MallocStack \/ MallocStackFails
  \/ \E request \in OtherRequests : OtherMalloc(request)
  \/ \E b \in others : OtherFree(b)
  \/ Out \/ Defragments \/ FreeEnds

TSpec == TInit /\ [][TNext]_allVars

-----------------------------------------------------------------------------
\* Every variable has its type, those of the heap included.
TTypeOK ==
  /\ TypeOK
  /\ step \in Steps
  /\ thread \in Blocks \union {0}
  /\ stack_of \in [Structs -> Blocks]
  /\ others \subseteq Blocks

\* Every block handed out has one holder: it is the struct or the stack of one
\* thread, the struct of the creation under way, or another client's.  A creation that
\* fails half-way keeps nothing.
ThreadsHoldTheHeap ==
  /\ vended = Structs \union Stacks \union others \union ({thread} \ {0})
  /\ (Structs \union Stacks) \intersect (others \union {thread}) = {}
  /\ thread \notin others
  /\ \A t, u \in Structs : stack_of[t] # u /\ (t # u => stack_of[t] # stack_of[u])

\* Seen by the rest of the kernel a creation is atomic: it adds a struct and a stack
\* that nobody had, or changes nothing.  Threads takes this for granted.
CreationsAreAtomic ==
  [][\/ stack_of' = stack_of
     \/ \E t, s \in Blocks' \ (Structs \union Stacks \union others) :
          /\ t # s
          /\ stack_of' = [u \in Structs \union {t} |->
                            IF u = t THEN s ELSE stack_of[u]]]_allVars

\* While the drift is low, a struct or stack overruns its block by no more than the
\* bytes earlier failures have invented.
OverrunAtMostDrift ==
  LowDrift =>
    \A b \in vended :
      LET end == b + ALLOC_HEADER_SZ + want[b]
      IN  end <= HeapEnd + drift /\ \A c \in Blocks : b < c => end <= c + drift

\* Memory is never given back, so this many threads, running and finished, is all
\* the kernel will ever have.
ThreadsFitTheHeap ==
  Cardinality(Structs)
      * (2 * ALLOC_HEADER_SZ + THREAD_SZ + THREAD_DEFAULT_STACK_SIZE)
    <= HEAP_SIZE + drift
\* The kernel's memory: every block has its holder and its type, and so many blocks
\* of threads there can be.
MemorySound == TTypeOK /\ ThreadsHoldTheHeap /\ ThreadsFitTheHeap
=============================================================================
