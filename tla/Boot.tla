-------------------------------- MODULE Boot --------------------------------
(***************************************************************************)
(* The kernel from boot_start on: start_kernel of src/kernel/main.c call   *)
(* by call, from the state a multiboot loader leaves to the scheduler, and *)
(* what each call relies on.  Composes the tables of DescriptorTables and  *)
(* the driver of Uart with the controllers, the timer, the heap and the    *)
(* threads in outline.  Devices request interrupts from power-on.  Threads *)
(* may raise exceptions; then panic prints over the UART and halts.        *)
(***************************************************************************)
EXTENDS DescriptorTables

CONSTANTS
  Devices,       \* the interrupt lines with a device on them
  FirmwareMasks, \* what the firmware may leave masked
  Raised,        \* the vectors that threads raise: exceptions, and by int any other
  Divisors, MaxWritten   \* see Uart

ASSUME BootAssumption ==
  /\ Devices \subseteq (0 .. 15) \ {2} /\ 0 \in Devices
  /\ FirmwareMasks \subseteq SUBSET (0 .. 15)
  /\ Raised \subseteq 0 .. 255
  /\ Divisors \subseteq (0 .. 255) \X (0 .. 255)
  /\ MaxWritten \in Nat \ {0}

VARIABLES
  call,          \* which call of StartKernel is next or under way
  irq_handlers,  \* the lines with the timer's handler; the others hold NULL
  imr,           \* the lines masked, as the kernel remembers it
  pic,           \* the controllers: what is masked, and whose vectors they send
  requests,      \* the lines that request an interrupt
  heap,          \* the free list has a block
  idle_thread,   \* the idle thread exists
  if_flag,       \* EFLAGS.IF
  ticks,         \* i8254_tick_count, modulo 2
  unhandled,     \* history: lines acknowledged whose handler has not been called since
  raised,        \* history: a thread has raised a vector that is no line's
  lcr, divisor, ier, thr, sent, step, written, overrun   \* see Uart

Com1 == INSTANCE Uart

serialVars == <<lcr, divisor, ier, thr, sent, step, written, overrun>>
picVars == <<imr, pic, requests>>
irqVars == <<irq_handlers, picVars>>
coreVars == <<heap, idle_thread, if_flag>>
seenVars == <<ticks, unhandled, raised>>
allVars == <<vars, call, irqVars, coreVars, seenVars, serialVars>>

Lines == 0 .. 15
I8259_SLAVE_IRQ == 2
I8254_IRQ_NO == 0
IDT_IRQ_BASE == 32
LineVectors == {IDT_IRQ_BASE + line : line \in Lines}

\* Variants: interrupts are enabled before the controllers are set up; the controllers
\* are set up after the timer.
StartKernelEarlySti ==
  <<"gdt_init", "idt_init", "interrupts_init", "cpu_enable_interrupts", "i8259_init",
    "i8254_init", "uart_init", "heap_init", "thread_init", "thread_start_scheduler">>
StartKernelLatePics ==
  <<"gdt_init", "idt_init", "interrupts_init", "i8254_init", "i8259_init", "uart_init",
    "heap_init", "thread_init", "cpu_enable_interrupts", "thread_start_scheduler">>
\* cpu_init is its three calls.
StartKernel ==
  <<"gdt_init", "idt_init", "interrupts_init", "i8259_init", "i8254_init", "uart_init",
    "heap_init", "thread_init", "cpu_enable_interrupts", "thread_start_scheduler">>

Scheduling == call > Len(StartKernel)

\* boot_start runs with interrupts off, on zeroed data and with controllers
\* the firmware has set up.
KInit ==
  /\ Init /\ Com1!Init
  /\ call = 1
  /\ irq_handlers = {} /\ imr = {} /\ requests = {}
  /\ pic \in [masked : FirmwareMasks, vectors : {"firmware"}]
  /\ heap = FALSE /\ idle_thread = FALSE /\ if_flag = FALSE
  /\ ticks = 0 /\ unhandled = {} /\ raised = FALSE

\* A step of a call, which ends when it says so.
InCall(fn) == ~ Scheduling /\ StartKernel[call] = fn
Calls(fn, ends) == InCall(fn) /\ call' = IF ends THEN call + 1 ELSE call

GdtInit ==
  /\ GdtDescriptorsInit \/ LoadGdt \/ LoadSegment
  /\ Calls("gdt_init", pc'.step = "default")
  /\ UNCHANGED <<irqVars, coreVars, seenVars, serialVars>>

IdtInit ==
  /\ IdtDefault \/ InitIdtEntries \/ LoadIdt
  /\ Calls("idt_init", pc'.step = "run")
  /\ UNCHANGED <<irqVars, coreVars, seenVars, serialVars>>

InterruptsInit ==
  /\ At("run") /\ Calls("interrupts_init", TRUE)
  /\ irq_handlers' = {}
  /\ UNCHANGED <<vars, picVars, coreVars, seenVars, serialVars>>

\* The first initialization word also makes a controller forget requests.
I8259Init ==
  /\ At("run") /\ Calls("i8259_init", TRUE)
  /\ imr' = Lines \ {I8259_SLAVE_IRQ}
  /\ pic' = [masked |-> imr', vectors |-> "kernel"]
  /\ requests' = {}
  /\ UNCHANGED <<vars, irq_handlers, coreVars, seenVars, serialVars>>

\* The channel, which counts already at the firmware's rate, is programmed,
\* and cpu_register_irq stores the handler and unmasks the line.
I8254Init ==
  /\ At("run") /\ Calls("i8254_init", TRUE)
  /\ irq_handlers' = irq_handlers \union {I8254_IRQ_NO}
  /\ imr' = imr \ {I8254_IRQ_NO}
  /\ pic' = [pic EXCEPT !.masked = imr']
  /\ UNCHANGED <<vars, requests, coreVars, seenVars, serialVars>>

UartInit ==
  /\ At("run") /\ Com1!UartInit
  /\ Calls("uart_init", Com1!Initialised')
  /\ UNCHANGED <<vars, irqVars, coreVars, seenVars>>

HeapInit ==
  /\ At("run") /\ Calls("heap_init", TRUE)
  /\ heap' = TRUE
  /\ UNCHANGED <<vars, irqVars, idle_thread, if_flag, seenVars, serialVars>>

\* On a free list that is still empty heap_malloc fails, and so the assertion.
ThreadInit ==
  /\ At("run") /\ Calls("thread_init", TRUE)
  /\ idle_thread' = heap
  /\ GoTo(IF heap THEN "run" ELSE "halted", 0)
  /\ UNCHANGED <<gdt, idt, gdtr, idtr, segments, stack, faulted>>
  /\ UNCHANGED <<irqVars, heap, if_flag, seenVars, serialVars>>

CpuEnableInterrupts ==
  /\ At("run") /\ Calls("cpu_enable_interrupts", TRUE)
  /\ if_flag' = TRUE
  /\ UNCHANGED <<vars, irqVars, heap, idle_thread, seenVars, serialVars>>

\* It never returns.  Without an idle thread a stack pointer would be read through
\* NULL.
ThreadStartScheduler ==
  /\ At("run") /\ InCall("thread_start_scheduler")
  /\ call' = Len(StartKernel) + 1
  /\ faulted' = ~ idle_thread
  /\ UNCHANGED <<gdt, idt, gdtr, idtr, segments, pc, stack>>
  /\ UNCHANGED <<irqVars, coreVars, seenVars, serialVars>>

Boots ==
  \/ GdtInit \/ IdtInit \/ InterruptsInit \/ I8259Init \/ I8254Init \/ UartInit
  \/ HeapInit \/ ThreadInit \/ CpuEnableInterrupts \/ ThreadStartScheduler

-----------------------------------------------------------------------------
\* The timer's channel and other devices.  A controller latches a request;
\* another one on the same line adds nothing.
Request(line) ==
  /\ requests' = requests \union {line}
  /\ UNCHANGED <<vars, call, irq_handlers, imr, pic, coreVars, seenVars, serialVars>>

\* The lines whose requests reach the processor.
Unmasked ==
  {line \in requests \ pic.masked : line >= 8 => I8259_SLAVE_IRQ \notin pic.masked}

\* Line 8 to 15 come with the priority of line 2.
Before(line, other) ==
  LET rank(n) == IF n >= 8 THEN 16 * I8259_SLAVE_IRQ + n ELSE 16 * n
  IN rank(line) < rank(other)

VectorOf(line) ==
  CASE pic.vectors = "kernel" -> IDT_IRQ_BASE + line
    [] pic.vectors # "kernel" /\ line < 8 -> 8 + line
    [] OTHER -> 112 + line - 8

Acknowledge(line) ==
  /\ if_flag
  /\ line \in Unmasked
  /\ ~ \E other \in Unmasked : Before(other, line)
  /\ Interrupt(VectorOf(line))
  /\ requests' = requests \ {line}
  /\ if_flag' = FALSE
  /\ unhandled' = unhandled \union {line}
  /\ UNCHANGED <<call, irq_handlers, imr, pic, heap, idle_thread, ticks, raised, serialVars>>

\* The function of a thread divides by zero, violates a protection, and so on, or
\* executes int: all entries of the table have the privilege of the kernel's threads.
Raise(v) ==
  /\ Scheduling
  /\ Interrupt(v)
  /\ raised' = (raised \/ v \notin LineVectors)
  /\ if_flag' = FALSE
  /\ UNCHANGED <<call, irqVars, heap, idle_thread, ticks, unhandled, serialVars>>

IsrEntry == Stub /\ UNCHANGED <<call, irqVars, coreVars, seenVars, serialVars>>

\* isr_main, with i8254_irq_handler.  It cannot tell int from a line's interrupt; a line
\* without a handler is left at that.
IsrDispatches ==
  /\ IsrMain
  /\ LET line == stack[1] - IDT_IRQ_BASE
     IN  /\ ticks' = IF line \in irq_handlers THEN 1 - ticks ELSE ticks
         /\ unhandled' = unhandled \ ({line} \intersect irq_handlers)
  /\ UNCHANGED <<call, irqVars, coreVars, raised, serialVars>>

IsrReturns ==
  /\ Iret
  /\ if_flag' = TRUE
  /\ UNCHANGED <<call, irqVars, heap, idle_thread, seenVars, serialVars>>

\* panic prints its message; cpu_halt waits for ever.
PanicPrints ==
  /\ At("halted") /\ Com1!Printed
  /\ UNCHANGED <<vars, call, irqVars, coreVars, seenVars>>

CpuHalt ==
  /\ At("halted") /\ written = MaxWritten
  /\ UNCHANGED allVars

LineSends ==
  /\ Com1!Transmit
  /\ UNCHANGED <<vars, call, irqVars, coreVars, seenVars>>

InterruptCode == IsrEntry \/ IsrDispatches \/ IsrReturns \/ PanicPrints

KNext ==
  \/ Boots
  \/ \E line \in Devices : Request(line) \/ Acknowledge(line)
  \/ \E v \in Raised : Raise(v)
  \/ IsrEntry
  \/ IsrDispatches
  \/ IsrReturns
  \/ PanicPrints
  \/ CpuHalt
  \/ LineSends

\* The processor executes what interrupts leave it time for, the timer's channel
\* counts, and the line goes on sending.  A pending interrupt is taken before the next
\* instruction that runs with interrupts enabled, also if each of them is an int.
KSpec ==
  /\ KInit /\ [][KNext]_allVars
  /\ SF_allVars(Boots) /\ WF_allVars(InterruptCode)
  /\ WF_allVars(Request(I8254_IRQ_NO))
  /\ SF_allVars(\E line \in Devices : Acknowledge(line))
  /\ WF_allVars(LineSends)

-----------------------------------------------------------------------------
\* Every variable has its type, those of the parts included.  The code leaves
\* start_kernel with interrupts enabled, for nothing enables them afterwards.
KTypeOK ==
  /\ TypeOK /\ Com1!TypeOK
  /\ call \in 1 .. Len(StartKernel) + 1
  /\ irq_handlers \subseteq Lines /\ imr \subseteq Lines
  /\ pic \in [masked : SUBSET Lines, vectors : {"firmware", "kernel"}]
  /\ requests \subseteq Devices
  /\ heap \in BOOLEAN /\ idle_thread \in BOOLEAN /\ if_flag \in BOOLEAN
  /\ ticks \in {0, 1} /\ unhandled \subseteq Lines /\ raised \in BOOLEAN
  /\ Scheduling /\ At("run") => if_flag

\* Whatever the firmware left masked and whichever device requests when, nothing
\* panics unless a thread has raised an exception.
PanicHasItsCause == pc.step = "halted" => raised

\* An interrupt that is acknowledged, and so gone, has had its handler: the
\* masks are open only for the lines of registered drivers, and a line's vector leads to
\* its own handler.
AcknowledgedIsHandled == pc.step \notin {"stub", "isr_main"} => unhandled = {}

\* No call of start_kernel finds what it relies on missing, and no interrupt comes to
\* a kernel that is not ready for it: nothing faults, panics or goes unhandled.
BootSurvives == KTypeOK /\ NeverFaults /\ PanicHasItsCause /\ AcknowledgedIsHandled

\* The scheduler is reached and the timer's ticks are counted from then on, as
\* long as no thread raises an exception.
KernelKeepsTime ==
  []~ raised => <>[]Scheduling /\ []<>(ticks = 0) /\ []<>(ticks = 1)

\* Whatever the loader left in the chip, after uart_init the line runs at 115200 baud
\* with 8 data bits, no parity and 1 stop bit; only bytes that were printed reach it, in
\* order and each at most once; and a byte is lost only when it is written over one that
\* waits for the line, as uart_write_byte does not ask.
LineSound == Com1!LineIsSet /\ Com1!SentInOrder /\ Com1!LostOnlyByOverrun

\* After an exception the message of panic comes out to its end, whatever vector it
\* had and although bytes before the last may be lost.
PanicIsReported ==
  raised ~> sent # <<>> /\ sent[Len(sent)] = MaxWritten
=============================================================================
