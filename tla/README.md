# A verification development for Storm

Storm is a small i386 kernel: it sets up the descriptor tables, the two i8259
interrupt controllers, the i8254 timer and a UART, a heap and a thread module, and
then starts a cooperative scheduler. This directory holds TLA+ modules that model the
kernel's core, the TLC configurations that check them on small instances, and proofs
checked by TLAPS that hold for all values of the constants. Paths below are relative
to the repository (`src/kernel/...` and `src/lib/...`).

## Inventory

| Component | State | Operations | Interacts with | Hard behaviours |
|---|---|---|---|---|
| heap (`kernel/heap.c`) | one static array cut into blocks with headers, address-ordered free list | `heap_init`, `heap_malloc` (first fit, split), `heap_free` (insert in order, coalesce) | called by the thread module; built on the list | long sequences of calls, size arithmetic, ownership |
| threads (`kernel/thread.c`) | run queue (list and counter), idle and current thread, per thread: id, ready, saved stack | `thread_init`, `thread_create`, `thread_start_scheduler`, `thread_main`, `thread_reschedule` | heap, list, context switch, boot | order of queueing and switching, failed creations, starvation |
| context switch (`kernel/arch/i386/thread_asm.S`) | registers, stacks | `thread_load_first_asm`, `thread_context_switch_asm`, `thread_restore` | frame built by `thread_setup_stack` | hand-built stack frames must match the pops |
| linked list (`lib/list.h`) | circular doubly linked nodes | init, insert, add, delete, iteration | heap, threads | deletion while iterating |
| interrupt dispatch (`kernel/arch/i386/cpu/interrupts.c`, `interrupts_asm.S`) | table of 16 handlers | register, `isr_main` | controllers, timer | interrupts at any instruction, registration order |
| i8259 controllers (`i8259.c`) | the two masks, the chips' request/service registers | init, enable, disable, end of interrupt | interrupt dispatch | initialization protocol, cascading, spurious interrupts |
| i8254 timer (`i8254.c`) | tick counter, frequency | init, interrupt handler, `i8254_sleep` | interrupt dispatch, `hlt` | wrap-around, check-then-halt |
| UART (`uart.c`, `putchar.c`) | the chip's registers | init, write a byte | `printf` | write to a busy transmitter, registers that share a port |
| boot (`main.c`), panic, assert, `cpu.c` | interrupt flag | `start_kernel`, `panic`, `cpu_halt` | all modules | order of initialisation |
| descriptor tables (`idt.c`, `gdt.c`, `gdt_asm.S`, `idt_asm.S`) | the two tables, the processor's table and segment registers | init, and every interrupt through them | interrupt dispatch | bit layout, limits, one frame layout for all vectors |
| formatted output (`lib/printf.c`) | the caller's buffer, the count | the `printf` family | `putchar` | truncation, conversion buffers, rounding, values at the limits of their types |

What makes each correct:

* **heap**: a block has exactly one owner; headers never overlap; a held block is never
  touched by the allocator; a client gets at least what it asked for; space is conserved.
* **threads**: no thread is lost, queued twice, or resumed after it has ended; threads
  run in the order of creation; the processor idles only when none waits; a failed
  creation leaves nothing behind; every created thread eventually runs.
* **context switch**: a restored thread finds its own stack and callee-saved registers,
  whatever interrupts came while it was switched.
* **linked list**: the pointers form one ring in the order of the list; a loop meets every
  node once although its body unlinks nodes.
* **interrupts, controllers**: a handler runs with its own argument, only after it is
  registered; nothing stays in service after its end-of-interrupt command.
* **timer**: a sleep ends, and not early.
* **UART**: the line is set up whatever the loader left; bytes come out in order.
* **formatted output**: a directive prints what was asked for; a buffer holds a terminated
  prefix of the text; the count is that of the whole text.
* **descriptor tables**: no load, interrupt or return faults; the stubs level the frames.
* **boot**: no call finds what it relies on missing; no interrupt comes before its handler.

## Plan

Written in this order; the modules marked *done* exist.

1. *done* `Heap`, its abstraction `HeapRegions`, `HeapProofs`.
2. *done* `Threads`, its abstraction `CoopScheduler`.
3. *done* `Interrupts`, its abstraction `IrqService`: dispatch, both controllers, the
   initialization words, masks, priorities, spurious interrupts, panic.
4. *done* `Timer`: the divisor, ticks, `i8254_sleep`.
5. *done* `ThreadsOnHeap`: `Threads`' creations composed with `Heap`; failures half-way on
   the real allocator.
6. *done* `ContextSwitch`: `thread_setup_stack` and `thread_asm.S` instruction by
   instruction, with interrupts pushing frames at any point.
7. *done* `LinkedList`: `list.h` on pointers, shown to implement sequences.
8. *done* `Uart`, `NumberFormat` and `Printf`, `DescriptorTables`, `Boot`.
9. *done* `ThreadsProofs`, `InterruptsProofs`, `TimerProofs`, `LinkedListProofs`, and the
   rest of `HeapProofs`, which is also about `ThreadsOnHeap`: every safety property that the runs
   of these modules check, and the refinements of the three abstractions.
10. *done* `ContextSwitchProofs` and `BootProofs`: what their runs check, for any number of
   threads and size of a stack, and for whatever firmware, devices and threads do.
11. *done* `PrintfProofs`: `CallSound` of every call.

How the modules relate:

* `ThreadsOnHeap` EXTENDS `Heap`: its steps are `Heap`'s actions, each conjoined with what
  `thread.c` does around the call.
* `Heap` implements `HeapRegions`, `Threads` implements `CoopScheduler`, `Interrupts`
  implements `IrqService`, by INSTANCE with a refinement mapping.
* `Heap` and `Threads` use sequences for lists: `LinkedList` justifies it. `Threads` takes a
  creation for one step: `CreationsAreAtomic` of `ThreadsOnHeap` justifies it. It takes a
  switch for one step: `ContextSwitch` does. `Interrupts` enters `isr_main` through any gate
  with one frame: `FrameIsUniform` and `EveryVectorHasItsGate` of the run `boot` justify it.
  `Timer` takes a whole interrupt for one step: `RequestReachesItsDriver` and
  `InServiceIsOurs` of `Interrupts` do.
* `Boot` EXTENDS `DescriptorTables` and has an instance of `Uart`: it is the whole kernel,
  with the heap, the threads and the controllers in outline.
* `Printf` EXTENDS `NumberFormat`; its characters go to `_putchar`, which is in `Uart`.
  `printf` is not composed with the boot: `panic`'s message is a count of bytes there.

## The heap

`Heap.tla` names a block by its header's address. `free_list` is the C list in order,
`size` gives every header's size field (its domain, `Blocks`, is the set of headers in
the arena), `vended` is the set of blocks clients hold. `want` and `drift` are history
variables: what each client asked for, and how many bytes the coalescing has invented.

| Action | Code |
|---|---|
| `HeapInit` | `heap_init`, `heap_add_block` |
| `Malloc`, `MallocFails` | `heap_malloc`; `FirstFit` is the search, `SplitBlock` and `WholeBlock` the two ways to take the block |
| `Free` | `heap_free` up to the call of `heap_defrag_free_list` |
| `Absorb`, `Advance`, `FreeReturns` | the loop of `heap_defrag_free_list`, one list node a step (`cursor` is the node's position), and the return |

While the loop runs (`cursor # 0`) no other heap call starts: threads switch only when
their function returns, and interrupt handlers do not use the heap. Clients are assumed
to free only what they hold; what they write into their blocks is not modelled.

**The drift.** `heap_defrag_free_list` adds `sizeof(*b)` (16) where a header takes
`ALLOC_HEADER_SZ` (12), so each merge makes the merged block claim 4 bytes that are not
its own. `SpaceConserved` states exactly that: the bytes that headers and sizes claim
(`ClaimedBytes`, each with the block that claims it, so that a byte claimed twice counts
twice) are as many as the arena's plus `drift`. As long as `drift` is below a header's size (`LowDrift`) the properties hold;
past it headers can overlap and no promise of the allocator survives, so the
layout properties are stated under `LowDrift`, and `MaxDrift` bounds the frees in the runs.
With `ALLOC_NODE_SZ = ALLOC_HEADER_SZ`, which the assumptions allow and which is what a
corrected line 95 amounts to, the drift stays 0 and the theorems hold without condition.

`HeapRegions.tla` is the abstract arena: regions that are free or held, a free region
handed out whole or by its front, two touching free regions joined. `ImplementsRegions`
says `Heap` implements it (`starts <- Blocks`, `held <- vended`).

## The threads

`Threads.tla` models `thread.c` with the switch of `thread_asm.S` and the end of
`start_kernel`. A thread is named by the block holding its `struct thread`; `stack`, `id`,
`ready` are its fields; `resume` says where its saved stack returns to (`thread_main` for
the frame of `thread_setup_stack`, the end of `thread_main` and then address 0 for the
frame pushed by a switch out of `thread_reschedule`), `self` is the local `current` of its
`thread_main`. `cpu` and `on_stack` say what the processor executes and on whose stack.

| Action | Code |
|---|---|
| `ThreadInit`, `ThreadInitFails` | `thread_init`, and the assertion of `start_kernel` |
| `ThreadCreate`, `ThreadCreateFails` | `thread_create`; the failure takes either way through the error path |
| `StartScheduler` | `thread_start_scheduler` |
| `ThreadMainStarts`, `FnReturns` | `thread_main` before and after `fn(arg)`; the latter with all of `thread_reschedule` |
| `IdleThreadFn`, `CpuHalt` | the two endless `hlt` loops, which change nothing |

`thread_create` is called by the boot code after `thread_init` or by a running thread's
function; the repository itself has no caller yet. The heap is reduced to a set of
allocated blocks, with `heap_malloc` failing at any time. Interrupts only count ticks and
touch no thread state, so each of these handlers is one step.

**Fairness** (`FairSpec`): weak fairness of the boot code, of `thread_main`'s start and of
`FnReturns`. The first two only say the processor executes instructions. The last says
that every thread function returns; the scheduler is cooperative and has no other point
at which a thread leaves the processor, so without it nothing can be promised.

`CoopScheduler.tla` is the abstract scheduler: threads with tickets wait, run once, in
ticket order. `ImplementsCoop` maps tickets to ids, the waiting set to the run queue.

## Interrupts

`Interrupts.tla` has two programs on one processor. `task` is the code outside
interrupts: boot, then the calls drivers make. `service` is the interrupt code, which
suspends the task between any two of its stores or port writes and runs with
interrupts disabled. `irq_handlers` and `imr` are the kernel's tables. `pic` is the two chips,
which are not under `src/`: their initialization sequence, masks, request and service
registers, modelled from how `i8259.c` programs them. Bytes are sets of bits.

| Action | Code |
|---|---|
| `CpuInit`, `I8259Init` | `interrupts_init`; `i8259_init`, one byte of `InitWords` a step |
| `RegisterIrq`, `StoreFn`, `StoreArg`, `I8259EnableIrq`, `UpdateImr` | `interrupts_register_irq`: assertion, the two stores of `irq_handler_init`, the copy of the mask, the port |
| `I8259DisableIrq` | `i8259_disable_irq`, followed by `UpdateImr` |
| `AcknowledgeMaster`, `AcknowledgeSlave`, `SpuriousMaster`, `SpuriousSlave` | external: the processor takes an interrupt, through the gate of `idt.c` and `isr_common` |
| `SendEoiSlave`, `SendEoiMaster`, `IrqHandlerReturns` | `interrupt_handle_irq`, `irq_handler_execute`, `iret` |
| `Exception`, `IsrMainPanics`, `CpuHalt` | the other branch of `isr_main`, `panic`, `cpu_halt` |

Drivers are assumed to replace a handler only while its line is masked or interrupts are
off (the kernel has one driver, registered at boot), and not to register or mask line 2.
A spurious interrupt ignores the mask and may find the slot of line 7 or 15 half stored;
`RequestReachesItsDriver` is therefore about the requests of devices.

`IrqService.tla` is what drivers rely on: a request stays pending until the bound
handler is called for it, once, in priority order, one call at a time.

**Fairness** (`FairSpec`): weak fairness of the interrupt code (the processor executes
instructions, handlers return) and of the acknowledgement: the processor takes a pending
interrupt before its next instruction. Nothing is assumed of the code outside.

## The timer

`Timer.tla` models `i8254.c`. `I8254Init` runs at boot with interrupts off and is one step.
In `i8254_sleep` the test (`SleepGoesOn`, `SleepReturns`) and the halt (`Hlt`) are steps
that a tick can come between; a halt ends with any interrupt (`Wake`). `slept` counts the
ticks since the sleep began and `ticked` states the one timing assumption: a period of the
channel is longer than a round of the loop, so at most one tick comes before the processor
halts again. `SleepsMayWrap` says whether clients start sleeps that end past the top of the
counter (497 days at 100 Hz). There is one sleeper, since a sleeping thread keeps
the processor.

**Fairness**: the channel goes on firing, its interrupts are taken, and the loop is executed.

## Creating threads on the heap

`ThreadsOnHeap.tla` runs `idle_thread_create` and `thread_create` call by call over `Heap`:
the module knows exactly which `heap_malloc` fails and what the error path's `heap_free`
does to the free list.

| Action | Code |
|---|---|
| `BootHeap` | `heap_init` in `start_kernel` |
| `MallocStruct`, `MallocStructFails` | the first `heap_malloc`, and the return when it fails |
| `MallocStack`, `MallocStackFails` | the second, with the rest of the creation, or the jump to `out` |
| `Out` | `heap_free(thread); heap_free(stack)`, whose loop and return are `Defragments` and `FreeEnds` |
| `OtherMalloc`, `OtherFree` | thread functions that use the heap between creations |

Nothing frees a finished thread's struct or stack, so creations end: `ThreadsFitTheHeap`
says how many there can ever be. A creation that fails half-way merges the struct back and
so adds 4 bytes to the heap that do not exist; a later stack may end past its block, and
past the array, by at most as much as has been added, which is `OverrunAtMostDrift`. The
system may stop (no memory, and `MaxDrift` reached), so deadlock is not checked in this run.

## The context switch

`ContextSwitch.tla` has the stacks word by word and executes `thread_asm.S` and
`isr_common` instruction by instruction (`Code`, one step of `Execute` or `ExecuteIsr`
each). `Interrupt` may come before any instruction outside the interrupt code, on whatever
stack `esp` points to, and is handled there. `Compute` gives the registers new values, and `ThreadContextSwitch`
keeps up to `MaxLocals` words on the stack before the call, so a switch saves different
states each time. `kept` and `before` record what the caller and the interrupted code rely on.

The module goes further than the kernel's present callers: a thread may switch
away and be switched back to. `thread_main` never comes back from `thread_reschedule`, but
`thread_reschedule` is written for a thread that is still ready (it queues it again), and
so is the comment of `thread_setup_stack` on "threads that have been preempted".

## The linked list

`LinkedList.tla` has the pointers `next` and `prev` and, as the history variable `contents`,
the sequence that `Heap` and `Threads` keep instead. Each insertion or deletion changes the
pointers by the C stores and `contents` by `InsertAt` or `RemoveAt`; `Linked` says that the
first is always a ring of the second. `contents` decides nothing in the list: guards use it
only for what callers know, which nodes they have linked and whether the list is empty.
The loops are steps: `ForEachStarts`, `ForEachAdvances`, `Break`, `DelFound` (`heap_malloc`),
`InsertBefore` (`heap_free`), `SafeStarts`, `DelHere`, `SafeAdvances` (`heap_defrag_free_list`).
An unlinked node is poisoned by `list_del` and may be overwritten (`Reuse`).

**Fairness**: a loop that has begun is executed; the bodies' choices are the callers'.

## The UART

`Uart.tla` runs `uart_init` one port write at a time (`InitWrites`) and `_putchar` over the
registers behind the ports; a write to port 0 reaches the divisor or the line according to DLAB,
so the order of the writes matters. `Transmit` empties the holding register at any time later.
Nothing in the driver waits for it: `LostOnlyByOverrun` is what remains true. The module
has no next-state relation of its own; `Boot` composes its actions with the kernel's, where
`panic` is what prints.

## Formatted output

`NumberFormat.tla` has the conversions as operators: what `_ntoa_long`, `_ntoa_format`,
`_out_rev` and `_ftoa` hand to the output function, as sequences of characters, with the
conversion buffers' limits. A double is a mantissa and an exponent, and the one inexact
operation of `_ftoa`, the product with a power of ten, rounds to even as the processor
does. `Printf.tla` is `_vsnprintf`: each field of a directive is a step (`EvaluateFlags`,
`EvaluateWidth`, `EvaluatePrecision`, `EvaluateLength`), then its conversion (`Integer`, `Float`,
`Character`, `String`, `Pointer`, `Other`), then `Terminate`. The call is a constant of the
behaviour: a format as characters, beside the directive `d` the caller meant by it. The
properties compare what is printed with a reference definition that starts from `d`
(`IntegerField`, `FixedField` and so on) and follows what a field is to look like, not the
steps of the code.

The widths are scaled so that every limit is met by small numbers: int has 6 bits
and the integer buffer holds 6 characters (32 and 32 in the code), char, short and long
long 3, 4 and 10 bits; the fixed-point buffer holds 12; the mantissa has 8 bits and the
most digits are 2, which keeps 10^2 below 2^8 as 10^9 is below 2^53. Left out: the case
of letters, `%e` and `%g`, a format that ends inside a directive, and precisions beyond
both the most digits and the conversion buffer together.
Exceptions are stated inside the properties, in `IntegerPromised`, `FixedFits` and
`HalfwayToWhole`: the form of `#`, whose prefix may replace digits; `-` drops the zeros of a
precision; a number longer than its conversion buffer is cut; `%f` is the nearest number, or
one as near as the rounding of the product of the fraction and the power of ten allows; and
nothing is said of a product that is half-way below the next whole number, where the code
goes wrong (see Deviations). A text is shorter than 2^32 characters: `idx` is not wrapped.

## The descriptor tables

`DescriptorTables.tla` writes both tables with the bits of `gdt.c` and `idt.c`, one step per
loop or function, loads them (`LoadGdt`, `LoadSegment`, `LoadIdt`), and defines what an
interrupt on any vector does, reading the bits back as the processor does: limit, presence,
type, selector, entry point. `Stub`, `IsrMain` and `Iret` follow `interrupts_asm.S` over what
has been pushed. A descriptor the processor cannot use sets `faulted`. `Boot` is the next-state
relation over these actions.

## The boot

`Boot.tla` is `start_kernel` call by call, in the order of the sequence `StartKernel`, from a
state the loader may leave: zeroed data, interrupts off, a UART in any mode, controllers with
the firmware's vectors and any mask.

| Action | Code |
|---|---|
| `GdtInit`, `IdtInit`, `UartInit` | the calls of these names, one step of `DescriptorTables` or `Uart` at a time |
| `InterruptsInit`, `I8259Init`, `I8254Init`, `HeapInit`, `ThreadInit`, `CpuEnableInterrupts`, `ThreadStartScheduler` | the other calls, in outline |
| `Request`, `Acknowledge` | external: a device asks, and the processor takes the interrupt with the highest priority |
| `Raise` | an exception, or `int` with any vector, a line's included, in a thread's function; only once the scheduler runs, since the boot code raises none |
| `IsrEntry`, `IsrDispatches`, `IsrReturns` | the stub and `isr_common`, `isr_main` with the timer's handler, `iret` |
| `PanicPrints`, `CpuHalt` | `panic`: its message over the UART, then the endless halt |
| `LineSends` | external: the transmitter |

What each call needs is modelled where it would be missed: `heap_malloc` on an empty free
list fails, a scheduler without an idle thread reads through NULL, an interrupt needs both
tables, the kernel's vectors and a handler. The mutants of the run exchange calls and break
one each of these. `isr_main` cannot tell an `int` from a line's interrupt and sends an
end of interrupt for both; `unhandled` has the lines that the processor has acknowledged until
their handler is called, so that an interrupt that reaches another's handler is noticed.
Spurious interrupts are left to `Interrupts`.

**Fairness** (`KSpec`): the channel counts and so requests again and again, a pending
interrupt is taken, the line goes on sending, and the interrupt code is executed. The
acknowledgement has strong fairness, because a thread may execute `int` as every instruction: the
processor takes a pending interrupt before the next one it runs with interrupts enabled. The boot
code has it too: interrupts suspend it, so that it is not enabled all the time, but it
is between any two of them, and requests come more slowly than their handler runs (a
handler of a few dozen instructions against a period of milliseconds).

## The runs

| Run | Configuration | Shows |
|---|---|---|
| `heap` | `MCHeap.cfg` | types, list order, ownership, space, layout, coalescing, sizes, untouched held blocks, refinement of `HeapRegions` |
| `heap_coalescing` | `MCHeapCoalesced.cfg` | violation: neighbours that stay uncombined after a merge |
| `threads` | `MCThreads.cfg` | queue, stacks, memory, order, refinement of `CoopScheduler`; every created thread finishes |
| `interrupts` | `MCInterrupts.cfg` | controllers programmed right, masks and service registers right, requests reach their drivers, a panic is final (`PanicIsFinal`), refinement of `IrqService`; the timer's requests are always acknowledged |
| `interrupts_overrun` | `MCInterruptsOverrun.cfg` | violation: the assertion on the IRQ number lets a store past the table |
| `timer` | `MCTimer.cfg` | the frequency is met; a sleep is not early, at most a tick late, and ends |
| `timer_wrap` | `MCTimerWrap.cfg` | violation: a sleep that ends past the top of the counter returns at once |
| `threads_on_heap` | `MCThreadsOnHeap.cfg` | every block has one holder, creations are atomic, overruns are at most the drift, how many threads fit |
| `context_switch` | `MCContextSwitch.cfg` | saved frames stay intact, threads resume as they left and start with their arguments, interrupts go unnoticed |
| `linked_list` | `MCLinkedList.cfg` | the pointers implement the sequence; loops meet every node and end |
| `printf` | `MCPrintf.cfg` | about 22 000 calls against the reference definition; truncation and termination |
| `boot` | `MCBoot.cfg` | no fault, flat segments, a gate for each vector, one frame layout from each of the 38 stubs; no call panics; interrupts find their handlers; the line is set, bytes come out in order and are lost only by overrun; time is kept in the scheduler; a panic's message ends on the line |

A property named `...Sound` is a conjunction of named parts, each stated where it is defined
(`QueueSound`, for example, is `QueueHoldsTheWaiting`, `IdleOnlyWhenNothingWaits` and
`OldestFirst`); so are `ThreadsGoOn`, `BootSurvives` and `InterruptsEnterIsrMain`. In the
modules without a type invariant of their own in the run, it is one of these parts.

Bounds. The heap runs use the i386 sizes (header 12, node 16, minimum payload 32, pointer
4), an array that starts misaligned (address 1001) with room for three blocks, request
sizes that round up (3), that split (28), that may not (60) and the 0 that must fail, and a
`size_t` of 10 bits. Three blocks are enough for a free block to have neighbours on both
sides, which is what insertion and coalescing distinguish; `MaxDrift = 8` allows three
merges, the third reaching the limit of `LowDrift`. The thread run uses eight blocks: the
idle thread and three more, so a thread can run while two wait.
The interrupt runs use the real lines, vectors and command bytes, with devices on line 0
(highest priority) and on 7 and 15, the lowest of each chip, where spurious interrupts
appear too; two drivers, so that one can replace the other half-way; and IRQ number 200,
which the assertion rejects. The timer runs scale the oscillator (50), the byte (4
values) and the tick counter (24 values) down together, so that a divisor fits one byte,
or two, or is the largest, which wraps to 0 (frequency 3), and the counter comes round between and during sleeps.

`threads_on_heap` scales the stack to 60 bytes and the array to 331, room for two or three
threads, so that a creation can fail at either call. `context_switch` has two
threads, enough for each to be switched to from the boot and from the other, on stacks of 34
words, enough for an interrupt on top of every frame a switch leaves. `linked_list` has
four nodes: one before, one behind and two in the middle, one of them unlinked. `printf` takes values on both sides
of each limit, and 31/32 with one digit, which carries into the whole part: widths 0, 3, 6, 7, negative by a star; precisions none, empty, given, negative; buffers
shorter than, as long as and longer than the text. `boot` has the timer, a device on the
master and one on the slave; firmware that masks nothing or everything; all vectors with a
stub (0 to 21 and 32 to 47), those between them, and 48 and 255, with the default gate; divisors that differ from the right one in the low byte
and in the high byte; and a message of three bytes, one on the line, one that waits and one
that may be written over it.

## The proofs

Each proof module EXTENDS the module it is about and holds for all values of its constants
that satisfy the named assumptions; what a theorem asks for beyond them is in its `ASSUME`.
All invariants follow one pattern: `Init => IInv`, one lemma or step per action for
`IInv /\ [Next]_vars => IInv'`, and `IInv` implies what the runs check.

### `HeapProofs`

For every ABI and arena that satisfy `AbiAssumption` and `ArenaAssumption` (a header no
larger than a node and than the minimum payload, an array with room for a header), every
set of requests and every `MaxDrift`:

* `InductiveInvariant`: `Spec => []IInv`;
* `TypeCorrect`, `LayoutIsSound`, `ListIsSound`: the type invariant, the layout, the list
  order and the ownership, as long as the drift is low;
* `HeldBlocksAreUntouched`: the action property of the run, by one more case split on `Next`;
* `HeapImplementsRegions`: the refinement of `HeapRegions`, for behaviours in which the
  drift stays low (`Spec /\ []LowDrift`), each action mapped to one abstract action or a
  stutter;
* `ClientsGetEnough`: while the drift is low every held block is as large as its client
  asked for, under the hypothesis `RequestsFit` that no request is so near the top of
  `size_t` that `align_up` wraps; there the code hands out a tiny block (see Deviations);
* `OnePassIsEnough`: `NoAdjacentPairLeft`. Stronger and inductive is `PassedPairsApart`: of
  the pairs of neighbours in the free list, those the cursor has passed are apart;
* `SpaceIsConserved`: `SpaceConserved` as long as the drift is low. A sum over the blocks
  would need induction; the number of `ClaimedBytes` needs only the effect of each step on
  that set. A split re-labels the claims of one block and a merge those of two, by a
  bijection, the merge with a few claims more, which are the drift.

`IInv` asks for all of `Core` while the drift is low; because the drift never shrinks,
a step that ends with a low drift began with one. None of `Core`'s parts is inductive
alone. A split puts a header inside the block it splits; that this header meets no other
needs a bound on what a block claims of its neighbour (`ClaimsBounded`). That a merge joins
neighbours, and so leaves no gap (`ArenaCovered`) and absorbs no held block, needs the same
bound and `HeadersApart`: a header between the two would not fit (`AbsorbJoinsNeighbours`).
The list order needs both. The proof has one lemma per action, over lemmas on what
`InsertAt`, `RemoveAt` and `ReplaceAt` do to sorted sequences.

Its last part is about `ThreadsOnHeap`: each step is one of the heap or leaves it alone, so `TSpec` implies
`Spec` (`HeapHolds`) and the heap's theorems hold. `TCore` adds who holds each block and what it asked
for. For every size of struct and stack (`ThreadSizeAssumption`), and while the drift is low:

* `MemoryIsSound`: `MemorySound`. Its part `ThreadsFitTheHeap`, how many threads there can
  be, comes from `SpaceIsConserved`: the bytes that all structs and stacks use inject into the
  claimed bytes (`ThreadsFit`). It needs `RequestsFit`, as `ClientsGetEnough` does;
* `OverrunIsAtMostDrift`, under the same hypothesis;
* `CreationIsAtomic`: the action property `CreationsAreAtomic`.

### `ThreadsProofs`

For every finite memory with fewer blocks than ids (`MemoryAssumption`: on the machine a
32-bit counter and 32-bit addresses of structs of 28 bytes): `TypeCorrect`, `QueueIsSound`, `StacksAreSound`
and the refinement `ThreadsImplementCoop`. `IInv` adds to these properties that nothing
exists before `thread_init` (`BeforeThreads`), that the idle and the current thread exist
after it (`AfterInit`), that whoever waits resumes in `thread_main` (`FirstSwitch`), and that
the counter has counted the threads (`IdsCounted`), so that it cannot wrap and a new id is
above all others: the order of the queue is then the order of the ids.

### `InterruptsProofs`

For every set of devices, of drivers and of registered numbers: `TypeCorrect`,
`ControllersAreAsRemembered`, `EoiEndsItsInterrupt`, `RequestsReachTheirDrivers`, the action
property `PanicsAreFinal` and the refinement `InterruptsImplementService`. `IInv` says what each of the initialization words has
left in the chips (`WordsWritten`), that the slave's line stays open once it is
(`SlaveLineInv`), that a registration stores while its line is closed or interrupts are off
(`TaskInv`), and hence that an open line has a complete handler (`OpenLinesInv`), which the
interrupt taken on it still has when it is called (`ServiceInv`). `PanicsAreFinal` needs one fact
more: behind `cpu_halt` interrupts are off and none is handled (`HaltedInv`).

### `TimerProofs`

For every oscillator, width of a byte and of the counter, frequency and time: `TypeCorrect`;
`ChannelIsSound` under `DivisorsFit` (no frequency so low that the divisor is cut, see
Deviations); `SleepIsNeverEarly` and `SleepIsAtMostOneTickLate` when no sleep ends past the top of
the counter (`~ SleepsMayWrap`; `timer_wrap` shows what happens otherwise). The invariant
`SleepInv` relates the tick count, the ticks slept and the finishing tick at each of the
loop's steps, with the one tick that may come between the test and the halt.

### `LinkedListProofs`

For any number of nodes: `RingIsSound` and `LoopsMeetEveryNode`. `InsertKeepsChain` and
`DeleteKeepsChain` say that the stores of `__list_insert` and `list_del` do to a ring what
`InsertAt` and `RemoveAt` do to its sequence; `RestInv` says which tail of the list a loop has
still to visit at each of its steps.

### `ContextSwitchProofs`

For any number of threads and any stack of at least 32 words more than its C callers use
(`StackAssumption`; the code's have 1024): `StacksAreSound`, `ThreadsResume` and the action
property `InterruptsGoUnnoticed`. The three properties are far from inductive: they look at a
thread that is switched away, or has just come back, and say nothing of the instructions
between. `IInv` therefore says at each instruction what is on the stack: `Saving(n)` after
n pushes of `thread_context_switch_asm`, `Restoring(n)` after n pops of `thread_restore`,
`Suspended` of every thread the processor is not on; all three are made of `FrameIn`, what is
left of a frame when n of its words are popped.

An interrupt may come at each of these places, and `isr_common` has nine instructions more. To
keep these from multiplying, `CodeInv` speaks of the *interrupted* code: `Pc`, `Regs` and `Mem`
are the machine's own outside `isr_common`, and those that `before` remembers inside it. The
handler's steps leave them alone by definition, so that all there is to prove of them is
`IsrInv`: the words that are still to be popped are what `before` remembers. `IretStep` then
gives both the invariant and the action property.

### `BootProofs`

For every set of devices with the timer among them, all masks the firmware may leave, all sets of
vectors a thread may raise (of all 256, the lines' too), divisors of two bytes the loader may leave and lengths of a message
(`BootAssumption`): `LineIsSound`, `KernelSurvivesBoot` and `InterruptsEnter`. `IInv` has
five parts. `UartInv` says which registers `uart_init` has set at each of its writes and which
bytes are on the line; `CallInv` which call builds the tables and how far it has come;
`TablesInv` which descriptors `gdt_init` and `idt_init` have written and loaded, for all 256
vectors, bit by bit; `FrameInv` what an interrupt has pushed; and `KernelInv` what each call of
`start_kernel` has left to those after it, when interrupts are on and which lines are open. That
no interrupt goes unhandled follows only from all of them: interrupts are on only in the last
two calls, when every open line but the cascade has its driver (`KernelInv`) and every
vector that can come the gate of its own stub (`TablesInv`).

### `PrintfProofs`

`CallsAreSound`: `Spec => []CallSound` for all sizes of buffers and types and all calls that
satisfy `CallsAssumption`: a format is that of one directive between literal characters, complete
and other than `%e` and `%g`, and a call has as many int arguments as its stars and its specifier
take. `idx` is a number that does not wrap: the theorem is about texts shorter than 2^32. `IInv` is where
each field of the format is (`Places`: `pos` and `va` are functions of the stage and the call),
the types of what was read (`Fields`), that the count is the length of the text (`Outputs`)
and that until the terminator is written the cells the text has reached hold it (`Memory`).

That a conversion returns a sequence of characters at all (`TextNtoa`, `TextFtoa`) needs every
helper of `NumberFormat`, and that a width is a number needs `_atoi`'s loop. Its recursive
function exists and has numbers as values by induction, which is done here for a set instead of
a predicate (`NatSetInduction`): if `0 \in S` and `S` is closed under `+ 1`, a natural
outside it would leave a finite set that maps one to one into a smaller one.

### Only model-checked

Liveness (`EveryThreadFinishes`, `TimerIsServed`, `SleepEnds`, `LoopsEnd`, `KernelKeepsTime`,
`PanicIsReported`) is out of the prover's reach. `FieldsSound` and `FixedIsNearest` of `Printf`
are not proved either: they compare the digits of a number with powers of its base, and no
installed prover knows more of `^` with a symbolic exponent than that it is a number. A proof
would first need the powers as a recursive function with their own lemmas, and assumptions on
`Calls` that tie every field of a call to the characters of its format.

## Findings

Three disagreements between the code and what it says of itself have a run of their own:

* `heap.c:95` adds the size of the whole node where only a header is gained. The comment
  above the function says the code checks "if any memory blocks can be combined into larger
  blocks"; `heap_coalescing` shows two that are not, because the block merged before claims
  4 bytes too many. The same 4 bytes let a block at the end claim memory past the array.
* `interrupts.c:119` (and the assertion of line 92) compares the IRQ number with
  `sizeof(irq_handlers)`, 128 bytes, not with 16: `interrupts_overrun` shows the store past
  the table for IRQ 16, before `i8259_enable_irq` panics.
* `i8254.c:63` wraps: `timer_wrap` shows a sleep of several seconds that returns at once,
  where `i8254.h:10` says "Sleep for 'time_s' seconds".

## Deviations

Met while modelling, and kept in the models as the code has them. The properties state
them as explicit exceptions, or the inputs stay on the side of them where the code is
used; none has a run of its own.

* `heap.c:117` rounds a request up modulo 2^32, so the search for "a big enough block"
  (line 119) looks for 0 bytes when the request is within a pointer of the top. `BigEnough`
  is checked for requests that do not wrap, and proved (`ClientsGetEnough`) under `RequestsFit`.
* `i8254.c:48` cuts the divisor to 16 bits: a frequency below 19 Hz is not met. The `timer`
  run takes frequencies whose divisor fits; the kernel uses 100 Hz.
* `thread.c:342`: freeing the struct of a failed creation invents 4 bytes, so that a later
  stack may end past the array (`OverrunAtMostDrift`).
* `uart.c:50` writes without asking whether the transmitter is free (`LostOnlyByOverrun`).
* `printf.c:245`: with `#`, a number as long as the width loses digits to the prefix: `%#03x`
  of 0x2a prints 0xa.
* `printf.c:237`: zero padding stops at 32 characters, although line 47 says that the buffer
  holds the number "including padded zeros".
* `printf.c:400`: half-way below a whole number is rounded up without the rollover of line 391:
  0.95 with one digit prints 30 zeros and 10. `FixedIsNearest` leaves these values out
  (`HalfwayToWhole`).
* `printf.c:152`: `%c` of 0 is counted and not sent to the output function.

## Not modelled

* `_etoa` (`%e`, `%g`): it approximates logarithm and exponential in double arithmetic, whose
  roundings would have to be modelled one by one. The component stays `partly`.
* Port I/O primitives: an `out` is the assignment to the chip's state where it is used.
* Build files and the linker script: nothing in them changes state.
* Three hazards have no property. A spurious interrupt ignores the mask and may call a
  half-stored handler of line 7 or 15 (`interrupts.c:43`); the code has no means to tell it
  from a request. Requests that wrap (`heap.c:117`) and divisors that are cut (`i8254.c:48`) are
  outside the runs and the theorems (see Deviations).
* A sleep with interrupts disabled would never end (`i8254.c:66`), but nothing sleeps before
  the boot has enabled them.
