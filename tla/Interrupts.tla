------------------------------ MODULE Interrupts ------------------------------
(***************************************************************************)
(* Interrupt dispatch, cpu/interrupts.c with its entry code and the vector *)
(* table of cpu/idt.c, over the driver i8259.c of the two interrupt        *)
(* controllers, as start_kernel boots them.                                *)
(*                                                                         *)
(* Two programs share the processor: the code that boots, registers and    *)
(* disables (task), and the interrupt code that suspends it at any point   *)
(* (service).  Both run one store or one port write per step.  Devices and *)
(* the controllers, modelled from how the driver programs them, act        *)
(* between any two steps.  A byte is the set of its bits that are 1.       *)
(***************************************************************************)
EXTENDS Integers, Sequences, FiniteSets

CONSTANTS
  Devices,    \* the interrupt lines with a device on them
  ClientIrqs, \* the IRQ numbers passed to interrupts_register_irq
  Drivers,    \* each with a handler function and its argument
  NULL

ASSUME InterruptsAssumption ==
  /\ Devices \subseteq (0 .. 15) \ {2}
  /\ ClientIrqs \subseteq (0 .. 255) \ {2}
  /\ NULL \notin Drivers

VARIABLES
  irq_handlers,  \* IRQ -> the driver whose fn and whose arg are stored
  imr,           \* the imr fields of master_pic and slave_pic
  pic,           \* the registers of the two controllers
  if_flag,       \* EFLAGS.IF
  task,          \* what the code outside interrupts does, see TaskSteps
  service,       \* what the interrupt code does, see ServiceSteps
  overrun        \* history: a store went past irq_handlers

vars == <<irq_handlers, imr, pic, if_flag, task, service, overrun>>

I8259_NO_IRQS == 16
I8259_SLAVE_IRQ == 2
IDT_IRQ_BASE == 32
SIZEOF_IRQ_HANDLERS == 8 * I8259_NO_IRQS

\* Entries of the vector table that lead to isr_main; the others lead to
\* idt_default_interrupt_handler.
IsrVectors == (0 .. 21) \union (32 .. 47)

Irqs == 0 .. I8259_NO_IRQS - 1
Chips == {"master", "slave"}
Lines == 0 .. 7
ChipOf(irq) == IF irq >= 8 THEN "slave" ELSE "master"
LineOf(irq) == irq % 8

\* The byte n.
Bits(n) == {l \in Lines : (n \div 2^l) % 2 = 1}

I8259_INIT_CMD == Bits(17)
I8259_EOI_CMD == Bits(32)
I8259_8086_MODE == Bits(1)

\* start: before cpu_init; pics: in i8259_init; run: between calls; fn, arg: in
\* interrupts_register_irq; enable, port: in i8259_enable_irq or
\* i8259_disable_irq; panic: before and halted: in cpu_halt.
TaskSteps == {"start", "pics", "run", "fn", "arg", "enable", "port", "panic", "halted"}

\* idle: no interrupt; entry: at isr_main; slave_done: the slave has its EOI;
\* execute: in irq_handler_execute.
ServiceSteps == {"idle", "entry", "slave_done", "execute"}
Idle == [step |-> "idle", int_no |-> 0, irq |-> 0, spurious |-> FALSE]

-----------------------------------------------------------------------------
(* The controllers. *)

\* Controller p after a byte is written to its command port: an initialization
\* word that starts over, or the end of the interrupt in service.
CmdWritten(p, byte) ==
  IF 4 \in byte
  THEN [p EXCEPT !.icw = 2, !.mask = {}, !.irr = {}, !.isr = {}]
  ELSE [p EXCEPT !.isr = {l \in p.isr : \E k \in p.isr : k < l}]

\* Controller p after a byte is written to its data port: the initialization word
\* it waits for, or a mask.
DataWritten(p, byte) ==
  CASE p.icw = 2 -> [p EXCEPT !.icw = 3, !.base = CHOOSE n \in 0 .. 255 : Bits(n) = byte]
    [] p.icw = 3 -> [p EXCEPT !.icw = 4, !.cascade = byte]
    [] p.icw = 4 -> [p EXCEPT !.icw = 0]
    [] OTHER     -> [p EXCEPT !.mask = byte]

\* The slave drives a line of the master, and both know which.
Cascaded ==
  /\ pic["master"].cascade = {I8259_SLAVE_IRQ}
  /\ pic["slave"].cascade = Bits(I8259_SLAVE_IRQ)

\* Of the lines that request, those a controller that is set up would deliver.
Deliverable(p, requests) ==
  {l \in requests \ p.mask : p.icw = 0 /\ \A s \in p.isr : l < s}

SlaveDeliverable == Deliverable(pic["slave"], pic["slave"].irr)

MasterDeliverable ==
  LET fromSlave == IF Cascaded /\ SlaveDeliverable # {} THEN {I8259_SLAVE_IRQ} ELSE {}
  IN  Deliverable(pic["master"], pic["master"].irr \union fromSlave)

\* l is the line of highest priority in S.
First(l, S) == l \in S /\ \A k \in S : l <= k

-----------------------------------------------------------------------------
Init ==
  /\ irq_handlers = [irq \in Irqs |-> [fn |-> NULL, arg |-> NULL]]
  /\ imr = [c \in Chips |-> {}]
  /\ pic = [c \in Chips |-> [icw |-> 0, base |-> 8, cascade |-> {}, mask |-> {},
                             irr |-> {}, isr |-> {}]]
  /\ if_flag = FALSE
  /\ task = [step |-> "start", word |-> 1, irq |-> 0, driver |-> NULL]
  /\ service = Idle
  /\ overrun = FALSE

\* A device signals its line; the controller latches it, masked or not.
Raise(irq) ==
  /\ pic' = [pic EXCEPT ![ChipOf(irq)].irr = @ \union {LineOf(irq)}]
  /\ UNCHANGED <<irq_handlers, imr, if_flag, task, service, overrun>>

\* The processor takes interrupt n: the gate clears IF.
Enter(n, irq, spurious) ==
  /\ service' = [step |-> "entry", int_no |-> n, irq |-> irq, spurious |-> spurious]
  /\ if_flag' = FALSE
  /\ UNCHANGED <<irq_handlers, imr, task, overrun>>

Interruptible == if_flag /\ service = Idle

AcknowledgeMaster(l) ==
  /\ Interruptible
  /\ First(l, MasterDeliverable)
  /\ l # I8259_SLAVE_IRQ
  /\ pic' = [pic EXCEPT !["master"].irr = @ \ {l}, !["master"].isr = @ \union {l}]
  /\ Enter(pic["master"].base + l, l, FALSE)

AcknowledgeSlave(l) ==
  /\ Interruptible
  /\ First(I8259_SLAVE_IRQ, MasterDeliverable)
  /\ First(l, SlaveDeliverable)
  /\ pic' = [pic EXCEPT !["master"].isr = @ \union {I8259_SLAVE_IRQ},
                        !["slave"].irr = @ \ {l}, !["slave"].isr = @ \union {l}]
  /\ Enter(pic["slave"].base + l, 8 + l, FALSE)

\* A line fell before it was acknowledged: the controller answers with its lowest
\* priority, masked or not, and puts nothing in service; the master does for the
\* slave.
SpuriousMaster ==
  /\ Interruptible
  /\ MasterDeliverable = {}
  /\ UNCHANGED pic
  /\ Enter(pic["master"].base + 7, 7, TRUE)

SpuriousSlave ==
  /\ Interruptible
  /\ Cascaded
  /\ First(I8259_SLAVE_IRQ,
           MasterDeliverable \union Deliverable(pic["master"], {I8259_SLAVE_IRQ}))
  /\ SlaveDeliverable = {}
  /\ pic' = [pic EXCEPT !["master"].isr = @ \union {I8259_SLAVE_IRQ}]
  /\ Enter(pic["slave"].base + 7, 15, TRUE)

-----------------------------------------------------------------------------
(* The interrupt code, which runs with interrupts disabled. *)

\* An instruction of the boot code, a client or a handler faults.
Exception(n) ==
  /\ \/ service = Idle /\ task.step = "run"
     \/ service.step = "execute"
  /\ UNCHANGED pic
  /\ Enter(n, 0, FALSE)

\* isr_main for an exception, and idt_default_interrupt_handler: panic.
IsrMainPanics ==
  /\ service.step = "entry"
  /\ service.int_no < IDT_IRQ_BASE \/ service.int_no \notin IsrVectors
  /\ task' = [task EXCEPT !.step = "panic"]
  /\ service' = Idle
  /\ UNCHANGED <<irq_handlers, imr, pic, if_flag, overrun>>

\* The IRQ that isr_main passes to interrupt_handle_irq.
Irq == service.int_no - IDT_IRQ_BASE
HandlingIrq == service.int_no >= IDT_IRQ_BASE /\ service.int_no \in IsrVectors

\* Variant: only the master gets the command.
EoiForSlaveNever(irq) == FALSE

\* Both controllers get the end-of-interrupt command if the slave raised irq.
EoiForSlave(irq) == irq >= 8

\* i8259_send_eoi, to the slave ...
SendEoiSlave ==
  /\ service.step = "entry"
  /\ HandlingIrq
  /\ EoiForSlave(Irq)
  /\ pic' = [pic EXCEPT !["slave"] = CmdWritten(@, I8259_EOI_CMD)]
  /\ service' = [service EXCEPT !.step = "slave_done"]
  /\ UNCHANGED <<irq_handlers, imr, if_flag, task, overrun>>

MasterEoiIsDue ==
  /\ HandlingIrq
  /\ \/ service.step = "entry" /\ ~ EoiForSlave(Irq)
     \/ service.step = "slave_done"

\* Variant: the command is not sent.
SendEoiMasterNot ==
  /\ MasterEoiIsDue
  /\ service' = [service EXCEPT !.step = "execute"]
  /\ UNCHANGED <<irq_handlers, imr, pic, if_flag, task, overrun>>

\* ... and to the master.
SendEoiMaster ==
  /\ MasterEoiIsDue
  /\ pic' = [pic EXCEPT !["master"] = CmdWritten(@, I8259_EOI_CMD)]
  /\ service' = [service EXCEPT !.step = "execute"]
  /\ UNCHANGED <<irq_handlers, imr, if_flag, task, overrun>>

\* irq_handler_execute returns, and iret restores the flags of the code that was
\* interrupted.  What a handler does is its driver's affair.
IrqHandlerReturns ==
  /\ service.step = "execute"
  /\ service' = Idle
  /\ if_flag' = TRUE
  /\ UNCHANGED <<irq_handlers, imr, pic, task, overrun>>

-----------------------------------------------------------------------------
(* The code outside interrupts, suspended while one is handled. *)

Runs(step) == service = Idle /\ task.step = step

\* The driver's view of an IRQ: the bit of its controller's imr.
ImrBit(irq) == IF irq >= 8 THEN irq - 8 ELSE irq

\* cpu_init, with interrupts_init, and the start of i8259_init: every line is
\* masked in the driver's copies.
CpuInit ==
  /\ Runs("start")
  /\ irq_handlers' = [irq \in Irqs |-> [fn |-> NULL, arg |-> NULL]]
  /\ imr' = [c \in Chips |-> Lines]
  /\ task' = [task EXCEPT !.step = "pics"]
  /\ UNCHANGED <<pic, if_flag, service, overrun>>

\* The byte that has only bit l.
Bit(l) == {l}

\* Variant: words 2 and 3 are swapped.
InitWordsSwapped == <<
  <<"master", "cmd", I8259_INIT_CMD>>, <<"slave", "cmd", I8259_INIT_CMD>>,
  <<"master", "data", Bit(I8259_SLAVE_IRQ)>>, <<"slave", "data", Bits(I8259_SLAVE_IRQ)>>,
  <<"master", "data", Bits(IDT_IRQ_BASE)>>, <<"slave", "data", Bits(IDT_IRQ_BASE + 8)>>,
  <<"master", "data", I8259_8086_MODE>>, <<"slave", "data", I8259_8086_MODE>>,
  <<"master", "data", Lines>>, <<"slave", "data", Lines>> >>

\* The bytes i8259_init writes, in order.
InitWords == <<
  <<"master", "cmd", I8259_INIT_CMD>>, <<"slave", "cmd", I8259_INIT_CMD>>,
  <<"master", "data", Bits(IDT_IRQ_BASE)>>, <<"slave", "data", Bits(IDT_IRQ_BASE + 8)>>,
  <<"master", "data", Bit(I8259_SLAVE_IRQ)>>, <<"slave", "data", Bits(I8259_SLAVE_IRQ)>>,
  <<"master", "data", I8259_8086_MODE>>, <<"slave", "data", I8259_8086_MODE>>,
  <<"master", "data", Lines>>, <<"slave", "data", Lines>> >>

\* i8259_init writes one of them; after the last it calls i8259_enable_irq for
\* the slave's line.
I8259Init ==
  /\ Runs("pics")
  /\ LET chip == InitWords[task.word][1]
         byte == InitWords[task.word][3]
     IN  pic' = [pic EXCEPT ![chip] = IF InitWords[task.word][2] = "cmd"
                                      THEN CmdWritten(@, byte) ELSE DataWritten(@, byte)]
  /\ task' = IF task.word < Len(InitWords)
             THEN [task EXCEPT !.word = @ + 1]
             ELSE [task EXCEPT !.word = 1, !.step = "enable", !.irq = I8259_SLAVE_IRQ]
  /\ UNCHANGED <<irq_handlers, imr, if_flag, service, overrun>>

\* start_kernel, after all modules are initialised.
CpuEnableInterrupts ==
  /\ Runs("run")
  /\ ~ if_flag
  /\ if_flag' = TRUE
  /\ UNCHANGED <<irq_handlers, imr, pic, task, service, overrun>>

\* interrupts_register_irq is called, up to its assertion.  A driver that replaces
\* another does so while the line is masked or interrupts are disabled.
RegisterIrq(irq, driver) ==
  /\ Runs("run")
  /\ irq \in Irqs => ~ if_flag \/ ImrBit(irq) \in imr[ChipOf(irq)]
  /\ task' = [task EXCEPT !.step = IF irq < SIZEOF_IRQ_HANDLERS THEN "fn" ELSE "panic",
                          !.irq = irq, !.driver = driver]
  /\ UNCHANGED <<irq_handlers, imr, pic, if_flag, service, overrun>>

\* A store to a slot of irq_handlers, or past its end, where it destroys what
\* happens to be there.
Store(field) ==
  IF task.irq \in Irqs
  THEN /\ irq_handlers' = [irq_handlers EXCEPT ![task.irq][field] = task.driver]
       /\ overrun' = overrun
  ELSE irq_handlers' = irq_handlers /\ overrun' = TRUE

\* Variant: the argument is forgotten.
StoreFnOnly ==
  /\ Runs("fn")
  /\ Store("fn")
  /\ task' = [task EXCEPT !.step = "enable"]
  /\ UNCHANGED <<imr, pic, if_flag, service>>

\* irq_handler_init: fn, then arg.
StoreFn ==
  /\ Runs("fn")
  /\ Store("fn")
  /\ task' = [task EXCEPT !.step = "arg"]
  /\ UNCHANGED <<imr, pic, if_flag, service>>

StoreArg ==
  /\ Runs("arg")
  /\ Store("arg")
  /\ task' = [task EXCEPT !.step = "enable"]
  /\ UNCHANGED <<imr, pic, if_flag, service>>

\* Variant: the bit is not inverted, so that every other line is opened.
I8259EnableIrqNotInverted ==
  /\ Runs("enable")
  /\ IF task.irq \in Irqs
     THEN /\ imr' = [imr EXCEPT ![ChipOf(task.irq)] = @ \intersect {ImrBit(task.irq)}]
          /\ task' = [task EXCEPT !.step = "port"]
     ELSE imr' = imr /\ task' = [task EXCEPT !.step = "panic"]
  /\ UNCHANGED <<irq_handlers, pic, if_flag, service, overrun>>

\* i8259_enable_irq, up to the port write.  No interrupt code touches imr, so
\* its read and its write are one step.
I8259EnableIrq ==
  /\ Runs("enable")
  /\ IF task.irq \in Irqs
     THEN /\ imr' = [imr EXCEPT ![ChipOf(task.irq)] = @ \ {ImrBit(task.irq)}]
          /\ task' = [task EXCEPT !.step = "port"]
     ELSE imr' = imr /\ task' = [task EXCEPT !.step = "panic"]
  /\ UNCHANGED <<irq_handlers, pic, if_flag, service, overrun>>

\* i8259_disable_irq, up to the port write, called by the driver of a line.
I8259DisableIrq(irq) ==
  /\ Runs("run")
  /\ irq \in Irqs
  /\ imr' = [imr EXCEPT ![ChipOf(irq)] = @ \union {ImrBit(irq)}]
  /\ task' = [task EXCEPT !.step = "port", !.irq = irq]
  /\ UNCHANGED <<irq_handlers, pic, if_flag, service, overrun>>

\* i8259_pic_update_imr.
UpdateImr ==
  /\ Runs("port")
  /\ LET chip == ChipOf(task.irq)
     IN  pic' = [pic EXCEPT ![chip] = DataWritten(@, imr[chip])]
  /\ task' = [task EXCEPT !.step = "run", !.irq = 0, !.driver = NULL]
  /\ UNCHANGED <<irq_handlers, imr, if_flag, service, overrun>>

\* Variant: cpu_halt leaves interrupts enabled.
CpuHaltEnabled ==
  /\ Runs("panic")
  /\ task' = [task EXCEPT !.step = "halted"]
  /\ UNCHANGED <<irq_handlers, imr, pic, if_flag, service, overrun>>

\* panic has printed its message and calls cpu_halt.
CpuHalt ==
  /\ Runs("panic")
  /\ if_flag' = FALSE
  /\ task' = [task EXCEPT !.step = "halted"]
  /\ UNCHANGED <<irq_handlers, imr, pic, service, overrun>>

Acknowledge == \E l \in Lines : AcknowledgeMaster(l) \/ AcknowledgeSlave(l)

InterruptCode == IsrMainPanics \/ SendEoiSlave \/ SendEoiMaster \/ IrqHandlerReturns

Next ==
  \/ \E irq \in Devices : Raise(irq)
  \/ Acknowledge
  \/ SpuriousMaster
  \/ SpuriousSlave
  \/ Exception(13)
  \/ InterruptCode
  \/ CpuInit
  \/ I8259Init
  \/ CpuEnableInterrupts
  \/ \E irq \in ClientIrqs, driver \in Drivers : RegisterIrq(irq, driver)
  \/ \E irq \in ClientIrqs : I8259DisableIrq(irq)
  \/ StoreFn
  \/ StoreArg
  \/ I8259EnableIrq
  \/ UpdateImr
  \/ CpuHalt

Spec == Init /\ [][Next]_vars

\* The processor runs the interrupt code, and takes an interrupt that is pending
\* and enabled before the next instruction.
Fairness ==
  /\ WF_vars(InterruptCode)
  /\ WF_vars(Acknowledge)

FairSpec == Spec /\ Fairness

-----------------------------------------------------------------------------
Handler == [fn : Drivers \union {NULL}, arg : Drivers \union {NULL}]

\* Every variable has its type.
TypeOK ==
  /\ irq_handlers \in [Irqs -> Handler]
  /\ imr \in [Chips -> SUBSET Lines]
  /\ pic \in [Chips -> [icw : {0, 2, 3, 4}, base : 0 .. 255, cascade : SUBSET Lines,
                        mask : SUBSET Lines, irr : SUBSET Lines, isr : SUBSET Lines]]
  /\ if_flag \in BOOLEAN
  /\ task \in [step : TaskSteps, word : 1 .. 10, irq : 0 .. 255,
               driver : Drivers \union {NULL}]
  /\ service \in [step : ServiceSteps, int_no : 0 .. 255, irq : Irqs, spurious : BOOLEAN]
  /\ overrun \in BOOLEAN

Booting == task.step \in {"start", "pics"}

\* After i8259_init the controllers are out of their initialization sequence, know
\* of each other, and use two vector ranges that meet neither each other nor the
\* processor's exceptions; the slave's line is never masked from then on.
PicsProgrammed ==
  ~ Booting =>
    /\ \A c \in Chips : pic[c].icw = 0
    /\ Cascaded
    /\ pic["master"].base = IDT_IRQ_BASE /\ pic["slave"].base = IDT_IRQ_BASE + 8
    /\ I8259_SLAVE_IRQ \in imr["master"] => task.step = "enable"

\* The driver's copies of the masks are what the controllers have, except between a
\* change of a copy and the port write that follows, when interrupts may come.  A
\* handler that panics there leaves them apart for good.
MasksAgree ==
  ~ Booting /\ task.step \notin {"port", "panic", "halted"} =>
    \A c \in Chips : pic[c].mask = imr[c]

\* The controllers do what i8259.c remembers: programmed by i8259_init, with the
\* masks it keeps.
PicsSound == PicsProgrammed /\ MasksAgree

\* And what dispatch keeps has its type: the handlers, the interrupt in hand, the masks.
DispatchSound == TypeOK /\ PicsSound

\* What is in service is what the interrupt code is about to end, at both
\* controllers, also when a spurious interrupt put nothing there: an EOI command
\* never ends another interrupt, and none is left in service to block its line.
InServiceIsOurs ==
  LET pending == service.step = "entry" /\ HandlingIrq
      fromSlave == pending \/ service.step = "slave_done"
  IN  ~ Booting =>
        /\ pic["slave"].isr =
             IF pending /\ service.irq >= 8 /\ ~ service.spurious
             THEN {LineOf(service.irq)} ELSE {}
        /\ pic["master"].isr =
             IF fromSlave /\ service.irq >= 8 THEN {I8259_SLAVE_IRQ}
             ELSE IF pending /\ ~ service.spurious THEN {service.irq} ELSE {}

\* A device's request, once acknowledged, reaches a handler: that of its own line,
\* completely stored, even if the interrupt came in the middle of a registration.
\* (A spurious interrupt may find the slot of its line half stored.)
RequestReachesItsDriver ==
  service.step = "execute" /\ ~ service.spurious =>
    /\ Irq = service.irq
    /\ irq_handlers[Irq].fn \in Drivers
    /\ irq_handlers[Irq].arg = irq_handlers[Irq].fn

\* The assertion of interrupts_register_irq, irq < sizeof(irq_handlers), keeps the
\* store that follows it inside the table.
StoresStayInTable == ~ overrun

\* A panic is final, whether an assertion failed with interrupts enabled or an exception came
\* in the middle of a handler: after cpu_halt no handler, nor any other code, runs again.
PanicIsFinal ==
  [][task.step = "halted" =>
       UNCHANGED <<irq_handlers, imr, if_flag, task, service, overrun>>]_vars

\* A request of the timer, the line of highest priority, is acknowledged, unless
\* its driver masks it or the kernel panics: nothing keeps interrupts disabled
\* or leaves an interrupt in service for ever.
TimerWaits ==
  /\ 0 \in pic["master"].irr \ pic["master"].mask
  /\ ~ Booting
  /\ if_flag \/ service # Idle

TimerIsServed ==
  TimerWaits ~> \/ 0 \notin pic["master"].irr \ pic["master"].mask
                \/ task.step \in {"panic", "halted"}

\* The driver whose handler is called through slot irq, if its store is complete.
DriverOf(irq) ==
  IF irq_handlers[irq].fn = irq_handlers[irq].arg THEN irq_handlers[irq].fn ELSE NULL

Service == INSTANCE IrqService
  WITH Irq     <- Irqs,
       NoDriver <- NULL,
       up      <- ~ Booting,
       pending <- {irq \in Irqs : LineOf(irq) \in pic[ChipOf(irq)].irr},
       bound   <- [irq \in Irqs |-> IF LineOf(irq) \in pic[ChipOf(irq)].mask
                                    THEN NULL ELSE DriverOf(irq)],
       active  <- IF service = Idle \/ service.spurious \/ ~ HandlingIrq
                  THEN <<>> ELSE <<service.irq, DriverOf(Irq)>>

\* The module implements the abstract interrupt service.
ImplementsService == Service!ISpec
=============================================================================
