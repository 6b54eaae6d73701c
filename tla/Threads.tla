------------------------------- MODULE Threads -------------------------------
(***************************************************************************)
(* The thread module, src/kernel/thread.c, with the context switch of      *)
(* src/kernel/arch/i386/thread_asm.S and the part of start_kernel that     *)
(* runs it: a cooperative scheduler with one first-in first-out run queue. *)
(* A thread gives up the processor only in thread_main, after its function *)
(* has returned; an interrupt handler touches none of this state, so each  *)
(* handler is one step.                                                    *)
(*                                                                         *)
(* A thread is named by the block of memory that holds its struct thread.  *)
(* The heap is reduced to which blocks are allocated: heap_malloc returns  *)
(* any block that is not, or NULL at any time.                             *)
(***************************************************************************)
EXTENDS Integers, Sequences, FiniteSets, SequencesExt

CONSTANTS
  Memory,   \* the blocks heap_malloc may return
  NULL,     \* the null pointer; for stacks: the boot stack
  ID_MOD    \* global_id_counter counts modulo this: 2^32

\* A block is never given back once a thread lives in it, so the counter, which
\* has more values than the heap has blocks, does not wrap.
ASSUME MemoryAssumption ==
  /\ IsFiniteSet(Memory)
  /\ NULL \notin Memory
  /\ ID_MOD \in Nat
  /\ Cardinality(Memory) < ID_MOD

VARIABLES
  cpu,                \* what the processor executes, see CpuStates
  on_stack,           \* the thread on whose stack it does, NULL before the first
  allocated,          \* the blocks heap_malloc has handed out
  stack,              \* struct thread -> the block of its stack
  id,                 \* struct thread -> the id field
  ready,              \* struct thread -> the ready field
  resume,             \* struct thread -> where its saved stack returns to
  self,               \* struct thread -> `current', the local of thread_main
  idle_thread,
  current_thread,
  thread_list,        \* the run queue's list, in order
  no_threads,         \* the run queue's counter
  global_id_counter

heapVars == <<allocated, stack>>
structVars == <<id, ready>>
frameVars == <<resume, self>>
queueVars == <<thread_list, no_threads>>
vars == <<cpu, on_stack, heapVars, structVars, frameVars, idle_thread,
          current_thread, queueVars, global_id_counter>>

\* start_kernel before and after thread_init; the start of thread_main; the
\* thread's function; the loop of cpu_halt after a panic; an address that is no
\* code, where thread_main would return to.
CpuStates == {"boot", "initialised", "thread_main", "fn", "halted", "nowhere"}

Structs == DOMAIN stack
Scheduling == cpu \in {"thread_main", "fn"}

-----------------------------------------------------------------------------
Init ==
  /\ cpu = "boot"
  /\ on_stack = NULL
  /\ allocated = {}
  /\ stack = <<>> /\ id = <<>> /\ ready = <<>> /\ resume = <<>> /\ self = <<>>
  /\ idle_thread = NULL
  /\ current_thread = NULL
  /\ thread_list = <<>>
  /\ no_threads = 0
  /\ global_id_counter = 0

\* Field f of struct t set to v, in a struct that may be new.
Set(f, t, v) == [u \in DOMAIN f \union {t} |-> IF u = t THEN v ELSE f[u]]

\* Variant: the ready field of a new thread is not set.
ThreadStructInitNotReady(t) ==
  /\ id' = Set(id, t, global_id_counter)
  /\ global_id_counter' = (global_id_counter + 1) % ID_MOD
  /\ ready' = ready
  /\ resume' = Set(resume, t, "thread_main")
  /\ self' = Set(self, t, NULL)

\* thread_struct_init and thread_setup_stack: the frame built on the new stack
\* makes the first switch to it return into thread_main.
ThreadStructInit(t) ==
  /\ id' = Set(id, t, global_id_counter)
  /\ global_id_counter' = (global_id_counter + 1) % ID_MOD
  /\ ready' = Set(ready, t, TRUE)
  /\ resume' = Set(resume, t, "thread_main")
  /\ self' = Set(self, t, NULL)

\* The two heap_malloc calls of a creation that succeeds: struct t, stack s.
AllocateThread(t, s) ==
  /\ t \in Memory \ allocated
  /\ s \in Memory \ (allocated \union {t})
  /\ allocated' = allocated \union {t, s}
  /\ stack' = Set(stack, t, s)

\* The heap_malloc calls and the error path of a creation that fails: the struct
\* is not allocated, or it is and the stack is not, and heap_free(thread) undoes it.
AllocationFails ==
  \/ allocated' = allocated
  \/ \E t \in Memory \ allocated :
       LET withStruct == allocated \union {t}
       IN  allocated' = withStruct \ {t}

\* thread_init, called by start_kernel: the idle thread, then the run queue.
ThreadInit ==
  /\ cpu = "boot"
  /\ \E t, s \in Memory :
       /\ AllocateThread(t, s)
       /\ ThreadStructInit(t)
       /\ idle_thread' = t
  /\ thread_list' = <<>>
  /\ no_threads' = 0
  /\ cpu' = "initialised"
  /\ UNCHANGED <<on_stack, current_thread>>

\* thread_init fails: the assertion in start_kernel panics.
ThreadInitFails ==
  /\ cpu = "boot"
  /\ AllocationFails
  /\ cpu' = "halted"
  /\ UNCHANGED <<on_stack, stack, structVars, frameVars, idle_thread,
                 current_thread, queueVars, global_id_counter>>

\* thread_run_queue_add on a run queue whose list is q and whose counter is n.
ThreadRunQueueAdd(q, n, t) ==
  /\ thread_list' = Append(q, t)
  /\ no_threads' = n + 1

\* Who may call thread_create: the boot code between thread_init and
\* thread_start_scheduler, and the functions of threads; the idle thread's
\* function calls nothing but cpu_wait_for_interrupt.
MayCreate ==
  \/ cpu = "initialised"
  \/ cpu = "fn" /\ on_stack # idle_thread

ThreadCreate ==
  /\ MayCreate
  /\ \E t, s \in Memory :
       /\ AllocateThread(t, s)
       /\ ThreadStructInit(t)
       /\ ThreadRunQueueAdd(thread_list, no_threads, t)
  /\ UNCHANGED <<cpu, on_stack, idle_thread, current_thread>>

ThreadCreateFails ==
  /\ MayCreate
  /\ AllocationFails
  /\ UNCHANGED <<cpu, on_stack, stack, structVars, frameVars, idle_thread,
                 current_thread, queueVars, global_id_counter>>

-----------------------------------------------------------------------------
\* Variant: the idle thread is always chosen.
NextThreadIdle == idle_thread

\* Variant: the queue is used as a stack.
NextThreadLast ==
  IF no_threads = 0 THEN idle_thread ELSE thread_list[Len(thread_list)]

\* thread_get_next and thread_run_queue_pop: the thread chosen ...
NextThread == IF no_threads = 0 THEN idle_thread ELSE Head(thread_list)

\* ... and the list and the counter that remain.
RestOfList == IF no_threads = 0 THEN thread_list ELSE Tail(thread_list)
RestOfCount == IF no_threads = 0 THEN 0 ELSE no_threads - 1

\* thread_restore on the stack of t.  The frame built by thread_setup_stack
\* returns into thread_main; the one pushed by thread_context_switch_asm returns
\* to the end of thread_main, and from there to the fake return address 0.
Restore(t) ==
  /\ on_stack' = t
  /\ cpu' = IF resume'[t] = "thread_main" THEN "thread_main" ELSE "nowhere"

StartScheduler ==
  /\ cpu = "initialised"
  /\ current_thread' = NextThread
  /\ thread_list' = RestOfList
  /\ no_threads' = RestOfCount
  /\ resume' = resume
  /\ Restore(NextThread)
  /\ UNCHANGED <<heapVars, structVars, self, idle_thread, global_id_counter>>

\* thread_main up to the call of fn.
ThreadMainStarts ==
  /\ cpu = "thread_main"
  /\ self' = [self EXCEPT ![on_stack] = current_thread]
  /\ cpu' = "fn"
  /\ UNCHANGED <<on_stack, heapVars, structVars, resume, idle_thread,
                 current_thread, queueVars, global_id_counter>>

\* Variant: the thread that leaves the processor is queued, ready or not.
ThreadRescheduleRequeues ==
  /\ current_thread' = NextThread
  /\ IF current_thread # idle_thread
     THEN ThreadRunQueueAdd(RestOfList, RestOfCount, current_thread)
     ELSE thread_list' = RestOfList /\ no_threads' = RestOfCount
  /\ resume' = [resume EXCEPT ![current_thread] = "reschedule"]
  /\ Restore(NextThread)

\* thread_reschedule, after the ready fields have become ready'.
ThreadReschedule ==
  /\ current_thread' = NextThread
  /\ IF current_thread # idle_thread /\ ready'[current_thread]
     THEN ThreadRunQueueAdd(RestOfList, RestOfCount, current_thread)
     ELSE thread_list' = RestOfList /\ no_threads' = RestOfCount
  /\ resume' = [resume EXCEPT ![current_thread] = "reschedule"]
  /\ Restore(NextThread)

\* Variant: thread_main does not clear the ready field.
FnReturnsReady ==
  /\ cpu = "fn"
  /\ on_stack # idle_thread
  /\ ready' = ready
  /\ ThreadReschedule
  /\ UNCHANGED <<heapVars, id, self, idle_thread, global_id_counter>>

\* The thread's function returns to thread_main, which reschedules for good.
FnReturns ==
  /\ cpu = "fn"
  /\ on_stack # idle_thread
  /\ ready' = [ready EXCEPT ![self[on_stack]] = FALSE]
  /\ ThreadReschedule
  /\ UNCHANGED <<heapVars, id, self, idle_thread, global_id_counter>>

\* The loops of idle_thread_fn and of cpu_halt: hlt, for ever.
IdleThreadFn ==
  /\ cpu = "fn"
  /\ on_stack = idle_thread
  /\ UNCHANGED vars

CpuHalt ==
  /\ cpu = "halted"
  /\ UNCHANGED vars

Next ==
  \/ ThreadInit
  \/ ThreadInitFails
  \/ ThreadCreate
  \/ ThreadCreateFails
  \/ StartScheduler
  \/ ThreadMainStarts
  \/ FnReturns
  \/ IdleThreadFn
  \/ CpuHalt

Spec == Init /\ [][Next]_vars

\* The boot code runs on, thread_main starts what it was given, and every function
\* a client passes to thread_create returns: without that last assumption a
\* cooperative scheduler promises nothing to the threads that wait.
Fairness ==
  /\ WF_vars(StartScheduler)
  /\ WF_vars(ThreadMainStarts)
  /\ WF_vars(FnReturns)

FairSpec == Spec /\ Fairness

-----------------------------------------------------------------------------
\* Every variable has its type.
TypeOK ==
  /\ cpu \in CpuStates
  /\ Structs \in SUBSET Memory
  /\ allocated \in SUBSET Memory
  /\ stack \in [Structs -> Memory]
  /\ id \in [Structs -> 0 .. ID_MOD - 1]
  /\ ready \in [Structs -> BOOLEAN]
  /\ resume \in [Structs -> {"thread_main", "reschedule"}]
  /\ self \in [Structs -> Structs \union {NULL}]
  /\ on_stack \in Structs \union {NULL}
  /\ idle_thread \in Structs \union {NULL}
  /\ current_thread \in Structs \union {NULL}
  /\ thread_list \in Seq(Structs)
  /\ no_threads \in Nat
  /\ global_id_counter \in 0 .. ID_MOD - 1

Queued == ToSet(thread_list)

\* The run queue holds exactly the threads that are ready and neither current nor
\* idle, each once, and its counter agrees: thread_create and thread_reschedule
\* lose no thread, queue none twice, and never queue one that has finished.
QueueHoldsTheWaiting ==
  /\ no_threads = Len(thread_list)
  /\ IsInjective(thread_list)
  /\ Queued = {t \in Structs : ready[t]} \ {idle_thread, current_thread}

\* The processor goes idle only when no thread waits.  The idle thread never
\* reschedules, so a thread overlooked here would never run.
IdleOnlyWhenNothingWaits ==
  Scheduling /\ current_thread = idle_thread =>
    thread_list = <<>> /\ \A t \in Structs \ {idle_thread} : ~ ready[t]

\* No thread is resumed after its function returned: its stack would return from
\* thread_main to the fake return address.
NeverReturnsToNowhere == cpu # "nowhere"

\* thread_reschedule sets current_thread before it switches stacks; they agree
\* again when the switch is done, and thread_main's local `current', read before
\* fn and used after it, still names the thread that runs.
CurrentOwnsTheStack ==
  Scheduling =>
    /\ on_stack = current_thread
    /\ cpu = "fn" => self[on_stack] = current_thread

\* Every allocated block is the struct or the stack of exactly one thread: threads
\* share no memory and a creation that fails keeps none.
MemoryAccounted ==
  /\ allocated = Structs \union {stack[t] : t \in Structs}
  /\ \A t, u \in Structs : stack[t] # u /\ (t # u => stack[t] # stack[u])

\* Threads run in the order in which they were created: the queue is in the order
\* of ids, and every thread in it is younger than the one that runs and than all
\* that have finished.
OldestFirst ==
  /\ \A i, j \in 1 .. Len(thread_list) :
       i < j => id[thread_list[i]] < id[thread_list[j]]
  /\ \A t \in Queued, u \in Structs \ Queued : id[u] < id[t]

\* The scheduler's queue: no thread that waits is lost, overtaken or left waiting
\* while the processor idles.
QueueSound == QueueHoldsTheWaiting /\ IdleOnlyWhenNothingWaits /\ OldestFirst

\* The threads' stacks: the processor is on the current thread's, which is its own,
\* and never returns from one that is over.
StacksSound == NeverReturnsToNowhere /\ CurrentOwnsTheStack /\ MemoryAccounted

\* Every thread that is created is run to its end, if functions return.
EveryThreadFinishes ==
  \A t \in Memory : t \in Queued ~> t \in Structs /\ ~ ready[t]

Coop == INSTANCE CoopScheduler
          WITH Thread   <- Memory,
               NoThread <- NULL,
               ticket   <- [t \in Structs \ {idle_thread} |-> id[t]],
               waiting  <- Queued,
               running  <- IF current_thread = idle_thread THEN NULL
                           ELSE current_thread,
               open     <- Scheduling

\* The module implements the abstract cooperative scheduler.
ImplementsCoop == Coop!CSpec
=============================================================================
