--------------------------- MODULE InterruptsProofs ---------------------------
(***************************************************************************)
(* Proofs about interrupt dispatch, for every set of devices, of registered *)
(* IRQ numbers and of drivers.                                             *)
(***************************************************************************)
EXTENDS Interrupts, TLAPS

-----------------------------------------------------------------------------
(* Bytes, lines and controllers. *)

LEMMA Powers ==
  /\ 2^0 = 1 /\ 2^1 = 2 /\ 2^2 = 4 /\ 2^3 = 8
  /\ 2^4 = 16 /\ 2^5 = 32 /\ 2^6 = 64 /\ 2^7 = 128
OBVIOUS

LEMMA BitsOfByte ==
  ASSUME NEW n \in 0 .. 255
  PROVE  /\ 0 \in Bits(n) <=> n % 2 = 1
         /\ 1 \in Bits(n) <=> (n \div 2) % 2 = 1
         /\ 2 \in Bits(n) <=> (n \div 4) % 2 = 1
         /\ 3 \in Bits(n) <=> (n \div 8) % 2 = 1
         /\ 4 \in Bits(n) <=> (n \div 16) % 2 = 1
         /\ 5 \in Bits(n) <=> (n \div 32) % 2 = 1
         /\ 6 \in Bits(n) <=> (n \div 64) % 2 = 1
         /\ 7 \in Bits(n) <=> (n \div 128) % 2 = 1
<1>1. \A l \in Lines : l \in Bits(n) <=> (n \div 2^l) % 2 = 1
  BY DEF Bits
<1> QED
  BY <1>1, Powers DEF Lines

\* The two vector bases are determined by their bits.
Base(byte) == CHOOSE n \in 0 .. 255 : Bits(n) = byte

LEMMA BaseOfBits == Base(Bits(32)) = 32 /\ Base(Bits(40)) = 40
<1>1. ASSUME NEW n \in 0 .. 255, Bits(n) = Bits(32) PROVE n = 32
  <2>1. /\ n % 2 # 1 /\ (n \div 2) % 2 # 1 /\ (n \div 4) % 2 # 1
        /\ (n \div 8) % 2 # 1 /\ (n \div 16) % 2 # 1 /\ (n \div 32) % 2 = 1
        /\ (n \div 64) % 2 # 1 /\ (n \div 128) % 2 # 1
    BY <1>1, BitsOfByte
  <2> QED
    BY <2>1
<1>2. ASSUME NEW n \in 0 .. 255, Bits(n) = Bits(40) PROVE n = 40
  <2>1. /\ n % 2 # 1 /\ (n \div 2) % 2 # 1 /\ (n \div 4) % 2 # 1
        /\ (n \div 8) % 2 = 1 /\ (n \div 16) % 2 # 1 /\ (n \div 32) % 2 = 1
        /\ (n \div 64) % 2 # 1 /\ (n \div 128) % 2 # 1
    BY <1>2, BitsOfByte
  <2> QED
    BY <2>1
<1> QED
  BY <1>1, <1>2 DEF Base

LEMMA CommandBytes ==
  /\ 4 \in I8259_INIT_CMD /\ 4 \notin I8259_EOI_CMD
  /\ \A n : Bits(n) \in SUBSET Lines
BY BitsOfByte DEF I8259_INIT_CMD, I8259_EOI_CMD, Bits

\* The sixteen IRQs are the lines of the two controllers, and the driver's view of
\* an IRQ is the hardware's.
LEMMA IrqLines ==
  /\ \A irq \in Irqs : /\ ChipOf(irq) \in Chips /\ LineOf(irq) \in Lines
                       /\ ImrBit(irq) = LineOf(irq)
  /\ \A i, j \in Irqs : ChipOf(i) = ChipOf(j) /\ LineOf(i) = LineOf(j) => i = j
  /\ \A l \in Lines : /\ l \in Irqs /\ ChipOf(l) = "master" /\ LineOf(l) = l
                      /\ 8 + l \in Irqs /\ ChipOf(8 + l) = "slave" /\ LineOf(8 + l) = l
BY DEF Irqs, I8259_NO_IRQS, ChipOf, LineOf, ImrBit, Lines, Chips

Controller == [icw : {0, 2, 3, 4}, base : 0 .. 255, cascade : SUBSET Lines,
               mask : SUBSET Lines, irr : SUBSET Lines, isr : SUBSET Lines]

\* The initialization command starts a controller over.
LEMMA InitCommand ==
  ASSUME NEW p \in Controller
  PROVE  /\ CmdWritten(p, I8259_INIT_CMD) \in Controller
         /\ CmdWritten(p, I8259_INIT_CMD).icw = 2
         /\ CmdWritten(p, I8259_INIT_CMD).isr = {}
         /\ CmdWritten(p, I8259_INIT_CMD).irr = {}
<1> DEFINE q == CmdWritten(p, I8259_INIT_CMD)
<1>1. q = [icw |-> 2, base |-> p.base, cascade |-> p.cascade, mask |-> {}, irr |-> {}, isr |-> {}]
  <2>1. q = [p EXCEPT !.icw = 2, !.mask = {}, !.irr = {}, !.isr = {}]
    BY CommandBytes DEF CmdWritten
  <2> QED
    BY <2>1 DEF Controller
<1>2. p.base \in 0 .. 255 /\ p.cascade \in SUBSET Lines
  BY DEF Controller
<1> HIDE DEF q
<1>3. q \in Controller /\ q.icw = 2 /\ q.isr = {} /\ q.irr = {}
  BY <1>1, <1>2 DEF Controller
<1> QED
  BY <1>3 DEF q

\* The end-of-interrupt command takes the line of highest priority out of service,
\* and leaves none if there was one at most.
LEMMA EoiCommand ==
  ASSUME NEW p \in Controller
  PROVE  LET q == CmdWritten(p, I8259_EOI_CMD)
         IN  /\ q \in Controller
             /\ q.icw = p.icw /\ q.base = p.base /\ q.cascade = p.cascade
             /\ q.mask = p.mask /\ q.irr = p.irr
             /\ \A l \in Lines : p.isr \subseteq {l} => q.isr = {}
<1>1. CmdWritten(p, I8259_EOI_CMD) = [p EXCEPT !.isr = {l \in p.isr : \E k \in p.isr : k < l}]
  BY CommandBytes DEF CmdWritten
<1> QED
  BY <1>1 DEF Controller, Lines

\* A byte written to the data port is the initialization word that is due, or a mask.
LEMMA DataByte ==
  ASSUME NEW p \in Controller, NEW byte \in SUBSET Lines
  PROVE  LET q == DataWritten(p, byte)
         IN  /\ p.icw = 2 => q.icw = 3 /\ q.base = Base(byte)
             /\ p.icw # 2 => q.base = p.base
             /\ p.icw = 3 => q.icw = 4 /\ q.cascade = byte
             /\ p.icw # 3 => q.cascade = p.cascade
             /\ p.icw = 4 => q.icw = 0
             /\ p.icw = 0 => q.icw = 0 /\ q.mask = byte
             /\ p.icw # 0 => q.mask = p.mask
             /\ q.irr = p.irr /\ q.isr = p.isr
             /\ (p.icw = 2 => q.base \in 0 .. 255) => q \in Controller
<1>1. CASE p.icw = 2
  <2>1. DataWritten(p, byte) = [p EXCEPT !.icw = 3, !.base = Base(byte)]
    BY <1>1 DEF DataWritten, Base
  <2>2. DataWritten(p, byte) = [icw |-> 3, base |-> Base(byte), cascade |-> p.cascade,
                                mask |-> p.mask, irr |-> p.irr, isr |-> p.isr]
    BY <2>1 DEF Controller
  <2> QED
    BY <1>1, <2>2 DEF Controller
<1>2. CASE p.icw = 3
  <2>1. DataWritten(p, byte) = [p EXCEPT !.icw = 4, !.cascade = byte]
    BY <1>2 DEF DataWritten
  <2>2. DataWritten(p, byte) = [icw |-> 4, base |-> p.base, cascade |-> byte,
                                mask |-> p.mask, irr |-> p.irr, isr |-> p.isr]
    BY <2>1 DEF Controller
  <2> QED
    BY <1>2, <2>2 DEF Controller
<1>3. CASE p.icw = 4
  <2>1. DataWritten(p, byte) = [p EXCEPT !.icw = 0]
    BY <1>3 DEF DataWritten
  <2> QED
    BY <1>3, <2>1 DEF Controller
<1>4. CASE p.icw = 0
  <2>1. DataWritten(p, byte) = [p EXCEPT !.mask = byte]
    BY <1>4 DEF DataWritten
  <2> QED
    BY <1>4, <2>1 DEF Controller
<1> QED
  BY <1>1, <1>2, <1>3, <1>4 DEF Controller

-----------------------------------------------------------------------------
(* The inductive invariant. *)

\* No interrupt is under way, and none can come.
Quiet == service = Idle /\ ~ if_flag

\* Both fields of the handler of irq are stored, for one driver.
Complete(irq) ==
  irq_handlers[irq].fn \in Drivers /\ irq_handlers[irq].arg = irq_handlers[irq].fn

\* irq is not masked at its controller, or not in the driver's copy.
Open(irq) ==
  LineOf(irq) \notin pic[ChipOf(irq)].mask \/ ImrBit(irq) \notin imr[ChipOf(irq)]

\* How far the initialization of each controller has come before word w is written.
MasterIcw(w) ==
  IF w \in 2 .. 3 THEN 2 ELSE IF w \in 4 .. 5 THEN 3 ELSE IF w \in 6 .. 7 THEN 4 ELSE 0
SlaveIcw(w) ==
  IF w \in 3 .. 4 THEN 2 ELSE IF w \in 5 .. 6 THEN 3 ELSE IF w \in 7 .. 8 THEN 4 ELSE 0

\* What the words before word w have left in the controllers.
WordsWritten(w) ==
  /\ w > 1 => pic["master"].icw = MasterIcw(w)
  /\ w > 2 => pic["slave"].icw = SlaveIcw(w)
  /\ w > 3 => pic["master"].base = IDT_IRQ_BASE
  /\ w > 4 => pic["slave"].base = IDT_IRQ_BASE + 8
  /\ w > 5 => pic["master"].cascade = {I8259_SLAVE_IRQ}
  /\ w > 6 => pic["slave"].cascade = Bits(I8259_SLAVE_IRQ)
  /\ w > 9 => pic["master"].mask = Lines

\* Until i8259_init is over no interrupt comes and no handler is stored.
BootInv ==
  Booting =>
    /\ Quiet
    /\ irq_handlers = [irq \in Irqs |-> [fn |-> NULL, arg |-> NULL]]
    /\ \A c \in Chips : pic[c].isr = {}
    /\ task.step = "start" => task.word = 1
    /\ task.step = "pics" => imr = [c \in Chips |-> Lines] /\ WordsWritten(task.word)

\* The slave's line is opened at the end of i8259_init, and stays open.
SlaveLineInv ==
  ~ Booting =>
    IF task.irq = I8259_SLAVE_IRQ
    THEN Quiet /\ task.step \in {"enable", "port"}
    ELSE I8259_SLAVE_IRQ \notin imr["master"] \union pic["master"].mask

\* A registration stores while the line is closed or no interrupt can come, and opens
\* the line of a complete handler; only the line of the call that is under way may be
\* masked otherwise than the driver remembers.
TaskInv ==
  /\ task.step \in {"fn", "arg"} =>
       /\ task.driver \in Drivers
       /\ task.irq \in Irqs => ~ Open(task.irq) \/ Quiet
  /\ task.step = "arg" /\ task.irq \in Irqs => irq_handlers[task.irq].fn = task.driver
  /\ task.step = "enable" /\ task.irq \in Irqs \ {I8259_SLAVE_IRQ} => Complete(task.irq)
  /\ task.step = "port" =>
       /\ task.irq \in Irqs
       /\ \A irq \in Irqs \ {task.irq} :
            LineOf(irq) \in pic[ChipOf(irq)].mask <=> ImrBit(irq) \in imr[ChipOf(irq)]

\* Every open line has a complete handler, unless it is being replaced while no
\* interrupt can come.
OpenLinesInv ==
  ~ Booting => \A irq \in Irqs \ {I8259_SLAVE_IRQ} :
    Open(irq) => Complete(irq) \/ (task.step = "arg" /\ task.irq = irq /\ Quiet)

\* Interrupt code runs with interrupts disabled, on the interrupt of a line whose
\* handler was complete when it came.
ServiceInv ==
  /\ service.step = "idle" => service = Idle
  /\ service.step # "idle" => ~ if_flag /\ ~ Booting
  /\ service.step \in {"slave_done", "execute"} => HandlingIrq
  /\ service.step = "slave_done" => service.irq >= 8
  /\ service.step # "idle" /\ HandlingIrq =>
       /\ Irq = service.irq
       /\ ~ service.spurious => Complete(service.irq)

\* No device is on the slave's line.
RequestsInv == I8259_SLAVE_IRQ \notin pic["master"].irr

IInv == /\ TypeOK
        /\ BootInv
        /\ SlaveLineInv
        /\ TaskInv
        /\ OpenLinesInv
        /\ ServiceInv
        /\ RequestsInv
        /\ PicsSound
        /\ InServiceIsOurs

-----------------------------------------------------------------------------
(* What steps that leave the tasks alone keep. *)

\* The setup of the controllers does not change.
SameSetup ==
  \A c \in Chips : /\ pic'[c].icw = pic[c].icw /\ pic'[c].base = pic[c].base
                   /\ pic'[c].cascade = pic[c].cascade /\ pic'[c].mask = pic[c].mask

\* What the code outside interrupts relies on holds on while a device or the interrupt
\* code takes a step.
LEMMA TaskUndisturbed ==
  ASSUME IInv, SameSetup, UNCHANGED <<irq_handlers, imr, task>>,
         Quiet => Quiet' \/ task.step = "run"
  PROVE  /\ SlaveLineInv' /\ TaskInv' /\ OpenLinesInv' /\ PicsSound'
<1>1. Booting' = Booting /\ "master" \in Chips /\ "slave" \in Chips
  BY DEF Booting, Chips
<1>2. \A irq \in Irqs : ChipOf(irq) \in Chips
  BY IrqLines
<1>3. \A irq \in Irqs : (Open(irq))' <=> Open(irq)
  BY <1>2 DEF Open, SameSetup
<1>4. \A irq \in Irqs : (Complete(irq))' <=> Complete(irq)
  BY DEF Complete
<1>5. SlaveLineInv'
  BY <1>1 DEF IInv, SlaveLineInv, SameSetup
<1>6. TaskInv'
  BY <1>2, <1>3, <1>4 DEF IInv, TaskInv, SameSetup
<1>7. OpenLinesInv'
  BY <1>1, <1>3, <1>4 DEF IInv, OpenLinesInv
<1>8. PicsSound'
  BY <1>1 DEF IInv, PicsSound, PicsProgrammed, MasksAgree, Cascaded, SameSetup
<1> QED
  BY <1>5, <1>6, <1>7, <1>8

LEMMA PicTyped ==
  TypeOK <=> /\ irq_handlers \in [Irqs -> Handler]
             /\ imr \in [Chips -> SUBSET Lines]
             /\ pic \in [Chips -> Controller]
             /\ if_flag \in BOOLEAN
             /\ task \in [step : TaskSteps, word : 1 .. 10, irq : 0 .. 255,
                          driver : Drivers \union {NULL}]
             /\ service \in [step : ServiceSteps, int_no : 0 .. 255, irq : Irqs,
                             spurious : BOOLEAN]
             /\ overrun \in BOOLEAN
BY DEF TypeOK, Controller

\* With no interrupt under way nothing is in service.
LEMMA NothingInService ==
  ASSUME IInv, service = Idle
  PROVE  pic["master"].isr = {} /\ pic["slave"].isr = {}
<1>1. service.step = "idle"
  BY DEF Idle
<1>2. CASE Booting
  BY <1>2 DEF IInv, BootInv, Chips
<1>3. CASE ~ Booting
  BY <1>1, <1>3 DEF IInv, InServiceIsOurs
<1> QED
  BY <1>2, <1>3

LEMMA RaiseStep ==
  ASSUME IInv, NEW irq \in Devices, Raise(irq)
  PROVE  IInv'
<1>1. /\ irq \in Irqs /\ irq # I8259_SLAVE_IRQ /\ ChipOf(irq) \in Chips
      /\ LineOf(irq) \in Lines
      /\ ChipOf(irq) = "master" => LineOf(irq) # I8259_SLAVE_IRQ
  BY InterruptsAssumption, IrqLines
  DEF Irqs, I8259_NO_IRQS, I8259_SLAVE_IRQ, ChipOf, LineOf
<1>2. pic \in [Chips -> Controller]
  BY PicTyped DEF IInv
<1>3. /\ pic' = [pic EXCEPT ![ChipOf(irq)].irr = @ \union {LineOf(irq)}]
      /\ UNCHANGED <<irq_handlers, imr, if_flag, task, service, overrun>>
  BY DEF Raise
<1>4. /\ pic' \in [Chips -> Controller] /\ SameSetup
      /\ \A c \in Chips : pic'[c].isr = pic[c].isr
      /\ pic'["master"].irr = IF ChipOf(irq) = "master"
                              THEN pic["master"].irr \union {LineOf(irq)}
                              ELSE pic["master"].irr
  <2>1. PICK chip \in Chips, line \in Lines : chip = ChipOf(irq) /\ line = LineOf(irq)
    BY <1>1
  <2>2. PICK p \in Controller : p = pic[chip]
    BY <1>2
  <2>3. PICK q : q = pic'[chip]
    OBVIOUS
  <2>4. /\ pic' = [pic EXCEPT ![chip] = q] /\ q = [p EXCEPT !.irr = @ \union {line}]
    BY <1>2, <1>3, <2>1, <2>2, <2>3
  <2>5. /\ q \in Controller /\ q.irr = p.irr \union {line} /\ q.isr = p.isr
        /\ q.icw = p.icw /\ q.base = p.base /\ q.cascade = p.cascade /\ q.mask = p.mask
    <3>1. q = [icw |-> p.icw, base |-> p.base, cascade |-> p.cascade, mask |-> p.mask,
               irr |-> p.irr \union {line}, isr |-> p.isr]
      BY <2>4 DEF Controller
    <3>2. /\ p.icw \in {0, 2, 3, 4} /\ p.base \in 0 .. 255 /\ p.cascade \in SUBSET Lines
          /\ p.mask \in SUBSET Lines /\ p.irr \union {line} \in SUBSET Lines
          /\ p.isr \in SUBSET Lines
      BY DEF Controller
    <3> QED
      BY <3>1, <3>2 DEF Controller
  <2>6. pic' \in [Chips -> Controller] /\ \A c \in Chips : c # chip => pic'[c] = pic[c]
    BY <1>2, <2>4, <2>5
  <2>7. SameSetup /\ \A c \in Chips : pic'[c].isr = pic[c].isr
    BY <2>2, <2>3, <2>5, <2>6 DEF SameSetup
  <2>8. "master" \in Chips
    BY DEF Chips
  <2> QED
    BY <2>1, <2>2, <2>3, <2>5, <2>6, <2>7, <2>8
<1>5. TypeOK'
  BY <1>3, <1>4, PicTyped DEF IInv, TypeOK, Controller
<1>6. Quiet' = Quiet
  BY <1>3 DEF Quiet
<1>7. SlaveLineInv' /\ TaskInv' /\ OpenLinesInv' /\ PicsSound'
  BY <1>3, <1>4, <1>6, TaskUndisturbed
<1>8. BootInv'
  <2>1. \A w : WordsWritten(w) => WordsWritten(w)'
    BY <1>4 DEF WordsWritten, SameSetup, Chips
  <2> QED
    BY <1>3, <1>4, <1>6, <2>1 DEF IInv, BootInv, Booting
<1>9. ServiceInv'
  BY <1>3 DEF IInv, ServiceInv, Booting, HandlingIrq, Irq, Complete
<1>10. RequestsInv'
  BY <1>1, <1>4 DEF IInv, RequestsInv
<1>11. InServiceIsOurs'
  BY <1>3, <1>4 DEF IInv, InServiceIsOurs, Booting, HandlingIrq, Chips
<1> QED
  BY <1>5, <1>7, <1>8, <1>9, <1>10, <1>11 DEF IInv

-----------------------------------------------------------------------------
(* Interrupts. *)

\* When an interrupt can come, the controllers are set up and nothing is in service.
LEMMA InterruptibleFacts ==
  ASSUME IInv, Interruptible
  PROVE  /\ ~ Booting /\ ~ Quiet /\ task.irq # I8259_SLAVE_IRQ
         /\ \A c \in Chips : pic[c].icw = 0 /\ pic[c].isr = {}
         /\ Cascaded
         /\ pic["master"].base = 32 /\ pic["slave"].base = 40
         /\ I8259_SLAVE_IRQ \notin pic["master"].mask
         /\ \A irq \in Irqs \ {I8259_SLAVE_IRQ} : Open(irq) => Complete(irq)
<1>1. if_flag /\ service = Idle
  BY DEF Interruptible
<1>2. ~ Booting /\ ~ Quiet
  BY <1>1 DEF IInv, BootInv, Quiet
<1>3. task.irq # I8259_SLAVE_IRQ /\ I8259_SLAVE_IRQ \notin pic["master"].mask
  BY <1>2 DEF IInv, SlaveLineInv
<1>4. \A c \in Chips : pic[c].icw = 0 /\ pic[c].isr = {}
  BY <1>1, <1>2, NothingInService DEF IInv, PicsSound, PicsProgrammed, Chips
<1>5. Cascaded /\ pic["master"].base = 32 /\ pic["slave"].base = 40
  BY <1>2 DEF IInv, PicsSound, PicsProgrammed, IDT_IRQ_BASE
<1>6. \A irq \in Irqs \ {I8259_SLAVE_IRQ} : Open(irq) => Complete(irq)
  BY <1>2 DEF IInv, OpenLinesInv
<1> QED
  BY <1>2, <1>3, <1>4, <1>5, <1>6

\* What entering an interrupt has in common, whatever took it: what came, and what
\* the controllers put in service for it.
LEMMA EnterStep ==
  ASSUME IInv, Interruptible,
         NEW irq \in Irqs, NEW spurious \in BOOLEAN,
         Enter(IDT_IRQ_BASE + irq, irq, spurious),
         ~ spurious => Complete(irq),
         pic' \in [Chips -> Controller], SameSetup,
         I8259_SLAVE_IRQ \notin pic'["master"].irr,
         pic'["slave"].isr = IF irq >= 8 /\ ~ spurious THEN {LineOf(irq)} ELSE {},
         pic'["master"].isr = IF irq >= 8 THEN {I8259_SLAVE_IRQ}
                              ELSE IF ~ spurious THEN {irq} ELSE {}
  PROVE  IInv'
<1>1. /\ ~ Booting /\ ~ Quiet
  BY InterruptibleFacts
<1>2. /\ service' = [step |-> "entry", int_no |-> IDT_IRQ_BASE + irq, irq |-> irq,
                     spurious |-> spurious]
      /\ if_flag' = FALSE
      /\ UNCHANGED <<irq_handlers, imr, task, overrun>>
  BY DEF Enter
<1>3. /\ service'.step = "entry" /\ service'.int_no = IDT_IRQ_BASE + irq
      /\ service'.irq = irq /\ service'.spurious = spurious
  BY <1>2
<1>4. IDT_IRQ_BASE + irq \in 32 .. 47 /\ irq \in 0 .. 15
  BY DEF IDT_IRQ_BASE, Irqs, I8259_NO_IRQS
<1>5. HandlingIrq' /\ Irq' = irq
  BY <1>3, <1>4 DEF HandlingIrq, Irq, IsrVectors, IDT_IRQ_BASE
<1>6. TypeOK'
  <2>1. service' \in [step : ServiceSteps, int_no : 0 .. 255, irq : Irqs,
                      spurious : BOOLEAN]
    BY <1>2, <1>4 DEF ServiceSteps
  <2> QED
    BY <1>2, <2>1 DEF IInv, TypeOK, Controller
<1>7. SlaveLineInv' /\ TaskInv' /\ OpenLinesInv' /\ PicsSound'
  BY <1>1, <1>2, TaskUndisturbed
<1>8. ~ Booting' /\ BootInv'
  BY <1>1, <1>2 DEF BootInv, Booting
<1>9. Complete(irq)' <=> Complete(irq)
  BY <1>2 DEF Complete
<1>10. ServiceInv'
  BY <1>2, <1>3, <1>5, <1>8, <1>9 DEF ServiceInv, Complete
<1>11. RequestsInv'
  BY DEF RequestsInv
<1>12. InServiceIsOurs'
  BY <1>3, <1>5 DEF InServiceIsOurs
<1> QED
  BY <1>6, <1>7, <1>8, <1>10, <1>11, <1>12 DEF IInv

\* An interrupt that the master takes for itself comes from an open line.
LEMMA AcknowledgeMasterFacts ==
  ASSUME IInv, NEW l \in Lines, AcknowledgeMaster(l)
  PROVE  /\ Interruptible /\ l # I8259_SLAVE_IRQ /\ l \in Irqs
         /\ ChipOf(l) = "master" /\ LineOf(l) = l
         /\ l \in pic["master"].irr \ pic["master"].mask
         /\ Complete(l)
         /\ pic' = [pic EXCEPT !["master"].irr = @ \ {l}, !["master"].isr = @ \union {l}]
         /\ Enter(IDT_IRQ_BASE + l, l, FALSE)
<1>1. /\ Interruptible /\ l # I8259_SLAVE_IRQ
      /\ pic' = [pic EXCEPT !["master"].irr = @ \ {l}, !["master"].isr = @ \union {l}]
      /\ Enter(pic["master"].base + l, l, FALSE)
  BY DEF AcknowledgeMaster
<1>2. l \in pic["master"].irr \ pic["master"].mask
  BY <1>1 DEF AcknowledgeMaster, First, MasterDeliverable, Deliverable
<1>3. l \in Irqs /\ ChipOf(l) = "master" /\ LineOf(l) = l
  BY IrqLines
<1>4. Complete(l)
  BY <1>1, <1>2, <1>3, InterruptibleFacts DEF Open
<1>5. pic["master"].base = IDT_IRQ_BASE
  BY <1>1, InterruptibleFacts DEF IDT_IRQ_BASE
<1> QED
  BY <1>1, <1>2, <1>3, <1>4, <1>5

\* The master moves line l from its request register to its service register.
LEMMA MasterAcknowledges ==
  ASSUME pic \in [Chips -> Controller], NEW l \in Lines,
         pic' = [pic EXCEPT !["master"].irr = @ \ {l}, !["master"].isr = @ \union {l}]
  PROVE  /\ pic' \in [Chips -> Controller] /\ SameSetup
         /\ pic'["slave"] = pic["slave"]
         /\ pic'["master"].irr = pic["master"].irr \ {l}
         /\ pic'["master"].isr = pic["master"].isr \union {l}
<1>1. PICK p \in Controller : p = pic["master"]
  BY DEF Chips
<1>2. /\ pic' = [pic EXCEPT !["master"] = pic'["master"]]
      /\ pic'["master"] = [p EXCEPT !.irr = @ \ {l}, !.isr = @ \union {l}]
  BY <1>1 DEF Chips
<1>3. PICK q : q = pic'["master"]
  OBVIOUS
<1>4. /\ q \in Controller
      /\ q.irr = p.irr \ {l} /\ q.isr = p.isr \union {l} /\ q.mask = p.mask
      /\ q.icw = p.icw /\ q.base = p.base /\ q.cascade = p.cascade
  <2>1. q = [p EXCEPT !.irr = @ \ {l}, !.isr = @ \union {l}]
    BY <1>2, <1>3
  <2>2. q = [icw |-> p.icw, base |-> p.base, cascade |-> p.cascade, mask |-> p.mask,
             irr |-> p.irr \ {l}, isr |-> p.isr \union {l}]
    BY <2>1 DEF Controller
  <2>3. /\ p.icw \in {0, 2, 3, 4} /\ p.base \in 0 .. 255 /\ p.cascade \in SUBSET Lines
        /\ p.mask \in SUBSET Lines /\ p.irr \ {l} \in SUBSET Lines
        /\ p.isr \union {l} \in SUBSET Lines
    BY DEF Controller
  <2> QED
    BY <2>2, <2>3 DEF Controller
<1>5. pic' \in [Chips -> Controller] /\ pic'["slave"] = pic["slave"]
  BY <1>2, <1>3, <1>4 DEF Chips
<1>6. SameSetup
  BY <1>1, <1>3, <1>4, <1>5 DEF SameSetup, Chips
<1> QED
  BY <1>1, <1>3, <1>4, <1>5, <1>6

LEMMA AcknowledgeMasterStep ==
  ASSUME IInv, NEW l \in Lines, AcknowledgeMaster(l)
  PROVE  IInv'
<1>1. /\ Interruptible /\ l # I8259_SLAVE_IRQ /\ l \in Irqs /\ Complete(l)
      /\ pic' = [pic EXCEPT !["master"].irr = @ \ {l}, !["master"].isr = @ \union {l}]
      /\ Enter(IDT_IRQ_BASE + l, l, FALSE)
  BY AcknowledgeMasterFacts
<1>2. pic \in [Chips -> Controller] /\ pic["master"].isr = {} /\ pic["slave"].isr = {}
      /\ I8259_SLAVE_IRQ \notin pic["master"].irr
  BY <1>1, PicTyped, InterruptibleFacts DEF IInv, RequestsInv, Chips
<1>3. /\ pic' \in [Chips -> Controller] /\ SameSetup
      /\ pic'["master"].irr = pic["master"].irr \ {l}
      /\ pic'["master"].isr = {l} /\ pic'["slave"].isr = {}
  BY <1>1, <1>2, MasterAcknowledges
<1>4. ~ (l >= 8)
  BY DEF Lines
<1> QED
  BY <1>1, <1>2, <1>3, <1>4, EnterStep

\* An interrupt that the slave takes comes from an open line of the slave.
LEMMA AcknowledgeSlaveFacts ==
  ASSUME IInv, NEW l \in Lines, AcknowledgeSlave(l)
  PROVE  /\ Interruptible /\ 8 + l \in Irqs \ {I8259_SLAVE_IRQ}
         /\ ChipOf(8 + l) = "slave" /\ LineOf(8 + l) = l
         /\ l \in pic["slave"].irr \ pic["slave"].mask
         /\ Complete(8 + l)
         /\ pic' = [pic EXCEPT !["master"].isr = @ \union {I8259_SLAVE_IRQ},
                               !["slave"].irr = @ \ {l}, !["slave"].isr = @ \union {l}]
         /\ Enter(IDT_IRQ_BASE + (8 + l), 8 + l, FALSE)
<1>1. /\ Interruptible
      /\ pic' = [pic EXCEPT !["master"].isr = @ \union {I8259_SLAVE_IRQ},
                            !["slave"].irr = @ \ {l}, !["slave"].isr = @ \union {l}]
      /\ Enter(pic["slave"].base + l, 8 + l, FALSE)
  BY DEF AcknowledgeSlave
<1>2. l \in pic["slave"].irr \ pic["slave"].mask
  BY DEF AcknowledgeSlave, First, SlaveDeliverable, Deliverable
<1>3. /\ 8 + l \in Irqs \ {I8259_SLAVE_IRQ}
      /\ ChipOf(8 + l) = "slave" /\ LineOf(8 + l) = l
  BY IrqLines DEF I8259_SLAVE_IRQ, Lines
<1>4. Complete(8 + l)
  BY <1>1, <1>2, <1>3, InterruptibleFacts DEF Open
<1>5. pic["slave"].base + l = IDT_IRQ_BASE + (8 + l)
  BY <1>1, InterruptibleFacts DEF IDT_IRQ_BASE, Lines
<1> QED
  BY <1>1, <1>2, <1>3, <1>4, <1>5

LEMMA AcknowledgeSlaveStep ==
  ASSUME IInv, NEW l \in Lines, AcknowledgeSlave(l)
  PROVE  IInv'
<1>1. /\ Interruptible /\ 8 + l \in Irqs /\ LineOf(8 + l) = l /\ Complete(8 + l)
      /\ pic' = [pic EXCEPT !["master"].isr = @ \union {I8259_SLAVE_IRQ},
                            !["slave"].irr = @ \ {l}, !["slave"].isr = @ \union {l}]
      /\ Enter(IDT_IRQ_BASE + (8 + l), 8 + l, FALSE)
  BY AcknowledgeSlaveFacts
<1>2. pic \in [Chips -> Controller] /\ pic["master"].isr = {} /\ pic["slave"].isr = {}
      /\ I8259_SLAVE_IRQ \notin pic["master"].irr
  BY <1>1, PicTyped, InterruptibleFacts DEF IInv, RequestsInv, Chips
<1>3. I8259_SLAVE_IRQ \in Lines
  BY DEF I8259_SLAVE_IRQ, Lines
<1>4. /\ pic' \in [Chips -> Controller] /\ SameSetup
      /\ pic'["master"].irr = pic["master"].irr
      /\ pic'["master"].isr = {I8259_SLAVE_IRQ} /\ pic'["slave"].isr = {l}
  <2>1. /\ pic["master"] \in Controller /\ pic["slave"] \in Controller
        /\ pic'["master"] = [pic["master"] EXCEPT !.isr = {I8259_SLAVE_IRQ}]
        /\ pic'["slave"] = [pic["slave"] EXCEPT !.irr = @ \ {l}, !.isr = {l}]
        /\ pic' = [c \in Chips |-> pic'[c]]
    BY <1>1, <1>2 DEF Chips
  <2> DEFINE p == pic["slave"]
             q == [icw |-> p.icw, base |-> p.base, cascade |-> p.cascade, mask |-> p.mask,
                   irr |-> p.irr \ {l}, isr |-> {l}]
  <2>2. pic'["slave"] = q
    BY <2>1 DEF Controller
  <2>3. /\ pic'["master"] \in Controller /\ pic'["slave"] \in Controller
        /\ pic'["slave"].isr = {l}
        /\ pic'["slave"].icw = pic["slave"].icw /\ pic'["slave"].base = pic["slave"].base
        /\ pic'["slave"].cascade = pic["slave"].cascade
        /\ pic'["slave"].mask = pic["slave"].mask
    BY <1>3, <2>1, <2>2 DEF Controller
  <2>4. /\ pic'["master"].icw = pic["master"].icw
        /\ pic'["master"].base = pic["master"].base
        /\ pic'["master"].cascade = pic["master"].cascade
        /\ pic'["master"].mask = pic["master"].mask
        /\ pic'["master"].irr = pic["master"].irr
        /\ pic'["master"].isr = {I8259_SLAVE_IRQ}
    BY <2>1 DEF Controller
  <2> QED
    BY <2>1, <2>3, <2>4 DEF SameSetup, Chips
<1>5. 8 + l >= 8
  BY DEF Lines
<1> QED
  BY <1>1, <1>2, <1>4, <1>5, EnterStep

LEMMA SpuriousMasterStep == IInv /\ SpuriousMaster => IInv'
<1> SUFFICES ASSUME IInv, SpuriousMaster PROVE IInv'
  OBVIOUS
<1>1. /\ Interruptible /\ pic' = pic /\ Enter(pic["master"].base + 7, 7, TRUE)
  BY DEF SpuriousMaster
<1>2. /\ pic \in [Chips -> Controller] /\ pic["master"].isr = {} /\ pic["slave"].isr = {}
      /\ I8259_SLAVE_IRQ \notin pic["master"].irr
      /\ pic["master"].base + 7 = IDT_IRQ_BASE + 7 /\ 7 \in Irqs
  BY <1>1, PicTyped, InterruptibleFacts
  DEF IInv, RequestsInv, Chips, IDT_IRQ_BASE, Irqs, I8259_NO_IRQS
<1>3. Enter(IDT_IRQ_BASE + 7, 7, TRUE) /\ ~ (7 >= 8) /\ SameSetup
  <2>1. pic["master"].base = 32
    BY <1>1, InterruptibleFacts
  <2> QED
    BY <1>1, <2>1 DEF SameSetup, Enter, IDT_IRQ_BASE
<1> QED
  BY <1>1, <1>2, <1>3, EnterStep

LEMMA SpuriousSlaveStep == IInv /\ SpuriousSlave => IInv'
<1> SUFFICES ASSUME IInv, SpuriousSlave PROVE IInv'
  OBVIOUS
<1>1. /\ Interruptible /\ Enter(pic["slave"].base + 7, 15, TRUE)
      /\ pic' = [pic EXCEPT !["master"].isr = @ \union {I8259_SLAVE_IRQ}]
  BY DEF SpuriousSlave
<1>2. /\ pic \in [Chips -> Controller] /\ pic["master"].isr = {} /\ pic["slave"].isr = {}
      /\ I8259_SLAVE_IRQ \notin pic["master"].irr
      /\ pic["slave"].base + 7 = IDT_IRQ_BASE + 15 /\ 15 \in Irqs
  BY <1>1, PicTyped, InterruptibleFacts
  DEF IInv, RequestsInv, Chips, IDT_IRQ_BASE, Irqs, I8259_NO_IRQS
<1>3. I8259_SLAVE_IRQ \in Lines
  BY DEF I8259_SLAVE_IRQ, Lines
<1>4. /\ pic' \in [Chips -> Controller] /\ SameSetup
      /\ pic'["master"].irr = pic["master"].irr
      /\ pic'["master"].isr = {I8259_SLAVE_IRQ} /\ pic'["slave"].isr = {}
  BY <1>1, <1>2, <1>3 DEF SameSetup, Controller, Chips
<1>5. Enter(IDT_IRQ_BASE + 15, 15, TRUE) /\ 15 >= 8
  <2>1. pic["slave"].base = 40
    BY <1>1, InterruptibleFacts
  <2> QED
    BY <1>1, <2>1 DEF Enter, IDT_IRQ_BASE
<1> QED
  BY <1>1, <1>2, <1>4, <1>5, EnterStep

-----------------------------------------------------------------------------
(* The interrupt code. *)

LEMMA ExceptionStep == IInv /\ Exception(13) => IInv'
<1> SUFFICES ASSUME IInv, Exception(13) PROVE IInv'
  OBVIOUS
<1>1. /\ (service = Idle /\ task.step = "run") \/ service.step = "execute"
      /\ pic' = pic
      /\ service' = [step |-> "entry", int_no |-> 13, irq |-> 0, spurious |-> FALSE]
      /\ if_flag' = FALSE
      /\ UNCHANGED <<irq_handlers, imr, task, overrun>>
  BY DEF Exception, Enter
<1>2. service = Idle => service.step = "idle"
  BY DEF Idle
<1>3. ~ Booting /\ (Quiet => task.step = "run")
  BY <1>1, <1>2 DEF IInv, ServiceInv, Booting, Quiet
<1>4. /\ service'.step = "entry" /\ service'.int_no = 13 /\ ~ HandlingIrq'
  BY <1>1 DEF HandlingIrq, IDT_IRQ_BASE
<1>5. TypeOK'
  <2>1. service' \in [step : ServiceSteps, int_no : 0 .. 255, irq : Irqs,
                      spurious : BOOLEAN]
    BY <1>1 DEF ServiceSteps, Irqs, I8259_NO_IRQS
  <2> QED
    BY <1>1, <2>1 DEF IInv, TypeOK
<1>6. SlaveLineInv' /\ TaskInv' /\ OpenLinesInv' /\ PicsSound'
  BY <1>1, <1>3, TaskUndisturbed DEF SameSetup
<1>7. ~ Booting' /\ BootInv'
  BY <1>1, <1>3 DEF BootInv, Booting
<1>8. ServiceInv' /\ RequestsInv'
  BY <1>1, <1>4, <1>7 DEF IInv, ServiceInv, RequestsInv
<1>9. pic["master"].isr = {} /\ pic["slave"].isr = {}
  BY <1>1, <1>2, <1>3 DEF IInv, InServiceIsOurs
<1>10. InServiceIsOurs'
  BY <1>1, <1>4, <1>9 DEF InServiceIsOurs
<1> QED
  BY <1>5, <1>6, <1>7, <1>8, <1>10 DEF IInv

LEMMA IsrMainPanicsStep == IInv /\ IsrMainPanics => IInv'
<1> SUFFICES ASSUME IInv, IsrMainPanics PROVE IInv'
  OBVIOUS
<1>1. /\ service.step = "entry" /\ ~ HandlingIrq
      /\ task' = [task EXCEPT !.step = "panic"]
      /\ service' = Idle
      /\ UNCHANGED <<irq_handlers, imr, pic, if_flag, overrun>>
  <2>1. service.int_no \in Nat
    BY DEF IInv, TypeOK
  <2> QED
    BY <2>1 DEF IsrMainPanics, HandlingIrq, IDT_IRQ_BASE
<1>2. ~ if_flag /\ ~ Booting /\ ~ Quiet
  BY <1>1 DEF IInv, ServiceInv, Quiet, Idle
<1>3. /\ task' \in [step : TaskSteps, word : 1 .. 10, irq : 0 .. 255,
                    driver : Drivers \union {NULL}]
      /\ task'.step = "panic" /\ task'.irq = task.irq
  BY <1>1 DEF IInv, TypeOK, TaskSteps
<1>4. ~ Booting' /\ BootInv'
  BY <1>3 DEF BootInv, Booting
<1>5. service'.step = "idle" /\ service' \in [step : ServiceSteps, int_no : 0 .. 255,
                                              irq : Irqs, spurious : BOOLEAN]
  BY <1>1 DEF Idle, ServiceSteps, Irqs, I8259_NO_IRQS
<1>6. TypeOK'
  BY <1>1, <1>3, <1>5 DEF IInv, TypeOK
<1>7. SlaveLineInv'
  BY <1>1, <1>2, <1>3, <1>4 DEF IInv, SlaveLineInv
<1>8. TaskInv'
  BY <1>3 DEF TaskInv
<1>9. OpenLinesInv'
  BY <1>1, <1>2 DEF IInv, OpenLinesInv, Open, Complete
<1>10. ServiceInv' /\ RequestsInv'
  BY <1>1, <1>5 DEF IInv, ServiceInv, RequestsInv
<1>11. PicsSound'
  <2>1. PicsProgrammed' <=> PicsProgrammed
    BY <1>1, <1>2, <1>3, <1>4
    DEF IInv, PicsSound, PicsProgrammed, Cascaded, SlaveLineInv
  <2> QED
    BY <1>3, <2>1 DEF IInv, PicsSound, MasksAgree
<1>12. InServiceIsOurs'
  <2>1. pic["master"].isr = {} /\ pic["slave"].isr = {}
    BY <1>1, <1>2 DEF IInv, InServiceIsOurs
  <2> QED
    BY <1>1, <1>5, <2>1 DEF InServiceIsOurs
<1> QED
  BY <1>4, <1>6, <1>7, <1>8, <1>9, <1>10, <1>11, <1>12 DEF IInv

\* While the interrupt code serves an IRQ, it is the IRQ that came.
LEMMA ServingFacts ==
  ASSUME IInv, service.step \in {"entry", "slave_done", "execute"}, HandlingIrq
  PROVE  /\ ~ if_flag /\ ~ Booting /\ ~ Quiet /\ service # Idle
         /\ Irq = service.irq /\ service.irq \in Irqs
         /\ ~ service.spurious => Complete(service.irq)
BY DEF IInv, ServiceInv, Quiet, Idle, TypeOK

LEMMA SendEoiSlaveStep == IInv /\ SendEoiSlave => IInv'
<1> SUFFICES ASSUME IInv, SendEoiSlave PROVE IInv'
  OBVIOUS
<1>1. /\ service.step = "entry" /\ HandlingIrq /\ Irq >= 8
      /\ pic' = [pic EXCEPT !["slave"] = CmdWritten(@, I8259_EOI_CMD)]
      /\ service' = [service EXCEPT !.step = "slave_done"]
      /\ UNCHANGED <<irq_handlers, imr, if_flag, task, overrun>>
  BY DEF SendEoiSlave, EoiForSlave
<1>2. /\ ~ if_flag /\ ~ Booting /\ ~ Quiet /\ Irq = service.irq /\ service.irq >= 8
      /\ service.irq \in Irqs
      /\ ~ service.spurious => Complete(service.irq)
  BY <1>1, ServingFacts
<1>3. pic \in [Chips -> Controller] /\ LineOf(service.irq) \in Lines
  BY <1>2, PicTyped, IrqLines DEF IInv
<1>4. pic["slave"].isr \subseteq {LineOf(service.irq)}
      /\ pic["master"].isr = {I8259_SLAVE_IRQ}
  BY <1>1, <1>2 DEF IInv, InServiceIsOurs
<1>5. /\ pic' \in [Chips -> Controller] /\ SameSetup
      /\ pic'["master"] = pic["master"] /\ pic'["slave"].isr = {}
  <2>1. /\ pic["slave"] \in Controller /\ pic'["master"] = pic["master"]
        /\ pic'["slave"] = CmdWritten(pic["slave"], I8259_EOI_CMD)
    BY <1>1, <1>3 DEF Chips
  <2>2. /\ pic'["slave"] \in Controller /\ pic'["slave"].isr = {}
        /\ pic'["slave"].icw = pic["slave"].icw /\ pic'["slave"].base = pic["slave"].base
        /\ pic'["slave"].cascade = pic["slave"].cascade
        /\ pic'["slave"].mask = pic["slave"].mask
    BY <1>3, <1>4, <2>1, EoiCommand
  <2> QED
    BY <1>1, <1>3, <2>1, <2>2 DEF SameSetup, Chips
<1>6. /\ service' \in [step : ServiceSteps, int_no : 0 .. 255, irq : Irqs,
                       spurious : BOOLEAN]
      /\ service'.step = "slave_done" /\ service'.irq = service.irq
      /\ service'.int_no = service.int_no /\ service'.spurious = service.spurious
  BY <1>1 DEF IInv, TypeOK, ServiceSteps
<1>7. HandlingIrq' /\ Irq' = Irq /\ ~ Booting'
  BY <1>1, <1>2, <1>6 DEF HandlingIrq, Irq, Booting
<1>8. TypeOK'
  BY <1>1, <1>5, <1>6, PicTyped DEF IInv, TypeOK, Controller
<1>9. SlaveLineInv' /\ TaskInv' /\ OpenLinesInv' /\ PicsSound'
  BY <1>1, <1>2, <1>5, TaskUndisturbed
<1>10. BootInv' /\ RequestsInv'
  BY <1>5, <1>7 DEF IInv, BootInv, RequestsInv
<1>11. ServiceInv'
  BY <1>1, <1>2, <1>6, <1>7 DEF ServiceInv, Complete
<1>12. InServiceIsOurs'
  BY <1>2, <1>4, <1>5, <1>6 DEF InServiceIsOurs
<1> QED
  BY <1>8, <1>9, <1>10, <1>11, <1>12 DEF IInv

LEMMA SendEoiMasterStep == IInv /\ SendEoiMaster => IInv'
<1> SUFFICES ASSUME IInv, SendEoiMaster PROVE IInv'
  OBVIOUS
<1>1. /\ service.step \in {"entry", "slave_done"} /\ HandlingIrq
      /\ service.step = "entry" => ~ (Irq >= 8)
      /\ pic' = [pic EXCEPT !["master"] = CmdWritten(@, I8259_EOI_CMD)]
      /\ service' = [service EXCEPT !.step = "execute"]
      /\ UNCHANGED <<irq_handlers, imr, if_flag, task, overrun>>
  BY DEF SendEoiMaster, MasterEoiIsDue, EoiForSlave
<1>2. /\ ~ if_flag /\ ~ Booting /\ ~ Quiet /\ Irq = service.irq
      /\ service.irq \in Irqs
      /\ ~ service.spurious => Complete(service.irq)
  BY <1>1, ServingFacts
<1>3. pic \in [Chips -> Controller] /\ service.irq \in 0 .. 15
  BY <1>2, PicTyped DEF IInv, Irqs, I8259_NO_IRQS
<1>4. pic["slave"].isr = {} /\ \E l \in Lines : pic["master"].isr \subseteq {l}
  <2>1. CASE service.step = "slave_done"
    <3>1. I8259_SLAVE_IRQ \in Lines
      BY DEF I8259_SLAVE_IRQ, Lines
    <3>2. service.irq >= 8
      BY <2>1 DEF IInv, ServiceInv
    <3> QED
      BY <1>2, <2>1, <3>1, <3>2 DEF IInv, InServiceIsOurs
  <2>2. CASE service.step = "entry"
    <3>1. service.irq \in Lines /\ ~ (service.irq >= 8)
      BY <1>1, <1>2, <1>3, <2>2 DEF Lines
    <3> QED
      BY <1>1, <1>2, <2>2, <3>1 DEF IInv, InServiceIsOurs
  <2> QED
    BY <1>1, <2>1, <2>2
<1>5. /\ pic' \in [Chips -> Controller] /\ SameSetup
      /\ pic'["master"].irr = pic["master"].irr
      /\ pic'["master"].isr = {} /\ pic'["slave"].isr = {}
  <2>1. /\ pic["master"] \in Controller /\ pic'["slave"] = pic["slave"]
        /\ pic'["master"] = CmdWritten(pic["master"], I8259_EOI_CMD)
    BY <1>1, <1>3 DEF Chips
  <2>2. /\ pic'["master"] \in Controller /\ pic'["master"].isr = {}
        /\ pic'["master"].icw = pic["master"].icw
        /\ pic'["master"].base = pic["master"].base
        /\ pic'["master"].cascade = pic["master"].cascade
        /\ pic'["master"].mask = pic["master"].mask
        /\ pic'["master"].irr = pic["master"].irr
    BY <1>4, <2>1, EoiCommand
  <2> QED
    BY <1>1, <1>3, <1>4, <2>1, <2>2 DEF SameSetup, Chips
<1>6. /\ service' \in [step : ServiceSteps, int_no : 0 .. 255, irq : Irqs,
                       spurious : BOOLEAN]
      /\ service'.step = "execute" /\ service'.irq = service.irq
      /\ service'.int_no = service.int_no /\ service'.spurious = service.spurious
  BY <1>1 DEF IInv, TypeOK, ServiceSteps
<1>7. HandlingIrq' /\ Irq' = Irq /\ ~ Booting'
  BY <1>1, <1>2, <1>6 DEF HandlingIrq, Irq, Booting
<1>8. TypeOK'
  BY <1>1, <1>5, <1>6, PicTyped DEF IInv, TypeOK, Controller
<1>9. SlaveLineInv' /\ TaskInv' /\ OpenLinesInv' /\ PicsSound'
  BY <1>1, <1>2, <1>5, TaskUndisturbed
<1>10. BootInv' /\ RequestsInv'
  BY <1>5, <1>7 DEF IInv, BootInv, RequestsInv
<1>11. ServiceInv'
  BY <1>1, <1>2, <1>6, <1>7 DEF ServiceInv, Complete
<1>12. InServiceIsOurs'
  BY <1>5, <1>6 DEF InServiceIsOurs
<1> QED
  BY <1>8, <1>9, <1>10, <1>11, <1>12 DEF IInv

LEMMA IrqHandlerReturnsStep == IInv /\ IrqHandlerReturns => IInv'
<1> SUFFICES ASSUME IInv, IrqHandlerReturns PROVE IInv'
  OBVIOUS
<1>1. /\ service.step = "execute" /\ service' = Idle /\ if_flag' = TRUE
      /\ UNCHANGED <<irq_handlers, imr, pic, task, overrun>>
  BY DEF IrqHandlerReturns
<1>2. ~ Booting /\ ~ Quiet
  BY <1>1, ServingFacts DEF IInv, ServiceInv
<1>3. service'.step = "idle" /\ service' \in [step : ServiceSteps, int_no : 0 .. 255,
                                              irq : Irqs, spurious : BOOLEAN]
  BY <1>1 DEF Idle, ServiceSteps, Irqs, I8259_NO_IRQS
<1>4. TypeOK'
  BY <1>1, <1>3 DEF IInv, TypeOK
<1>5. SlaveLineInv' /\ TaskInv' /\ OpenLinesInv' /\ PicsSound'
  BY <1>1, <1>2, TaskUndisturbed DEF SameSetup
<1>6. ~ Booting' /\ BootInv' /\ RequestsInv'
  BY <1>1, <1>2 DEF IInv, BootInv, RequestsInv, Booting
<1>7. ServiceInv'
  BY <1>1, <1>3 DEF ServiceInv
<1>8. InServiceIsOurs'
  BY <1>1, <1>2, <1>3 DEF IInv, InServiceIsOurs
<1> QED
  BY <1>4, <1>5, <1>6, <1>7, <1>8 DEF IInv

-----------------------------------------------------------------------------
(* The boot code. *)

\* A step outside interrupts leaves the interrupt code idle and nothing in service.
LEMMA IdleUndisturbed ==
  ASSUME service' = Idle, \A c \in Chips : pic'[c].isr = {}
  PROVE  ServiceInv' /\ InServiceIsOurs'
<1>1. service'.step = "idle" /\ pic'["master"].isr = {} /\ pic'["slave"].isr = {}
  BY DEF Idle, Chips
<1>2. ServiceInv'
  BY <1>1 DEF ServiceInv
<1>3. InServiceIsOurs'
  BY <1>1 DEF InServiceIsOurs
<1> QED
  BY <1>2, <1>3

LEMMA InitIInv == Init => IInv
<1> SUFFICES ASSUME Init PROVE IInv
  OBVIOUS
<1>1. /\ task.step = "start" /\ task.word = 1 /\ task.irq = 0
      /\ service = Idle /\ ~ if_flag /\ Booting
  BY DEF Init, Booting
<1>2. pic \in [Chips -> Controller] /\ \A c \in Chips : pic[c].isr = {} /\ pic[c].irr = {}
  BY DEF Init, Controller
<1>3. TypeOK
  <2>1. service \in [step : ServiceSteps, int_no : 0 .. 255, irq : Irqs, spurious : BOOLEAN]
    BY <1>1 DEF Idle, ServiceSteps, Irqs, I8259_NO_IRQS
  <2>2. task \in [step : TaskSteps, word : 1 .. 10, irq : 0 .. 255,
                  driver : Drivers \union {NULL}]
    BY DEF Init, TaskSteps
  <2>3. irq_handlers \in [Irqs -> Handler] /\ imr \in [Chips -> SUBSET Lines]
    BY DEF Init, Handler
  <2> QED
    BY <1>2, <2>1, <2>2, <2>3, PicTyped DEF Init
<1>4. BootInv
  BY <1>1, <1>2 DEF BootInv, Quiet, Init
<1>5. ServiceInv /\ RequestsInv
  BY <1>1, <1>2 DEF ServiceInv, Idle, RequestsInv, Chips
<1>6. TaskInv /\ SlaveLineInv /\ OpenLinesInv
  BY <1>1 DEF TaskInv, SlaveLineInv, OpenLinesInv
<1>7. PicsSound /\ InServiceIsOurs
  BY <1>1 DEF PicsSound, PicsProgrammed, MasksAgree, InServiceIsOurs
<1> QED
  BY <1>3, <1>4, <1>5, <1>6, <1>7 DEF IInv

LEMMA CpuInitStep == IInv /\ CpuInit => IInv'
<1> SUFFICES ASSUME IInv, CpuInit PROVE IInv'
  OBVIOUS
<1>1. /\ service = Idle /\ task.step = "start"
      /\ irq_handlers' = [irq \in Irqs |-> [fn |-> NULL, arg |-> NULL]]
      /\ imr' = [c \in Chips |-> Lines]
      /\ task' = [task EXCEPT !.step = "pics"]
      /\ UNCHANGED <<pic, if_flag, service, overrun>>
  BY DEF CpuInit, Runs
<1>2. /\ task' \in [step : TaskSteps, word : 1 .. 10, irq : 0 .. 255,
                    driver : Drivers \union {NULL}]
      /\ task'.step = "pics" /\ task'.word = task.word
  BY <1>1 DEF IInv, TypeOK, TaskSteps
<1>3. Booting /\ Booting' /\ task.word = 1 /\ Quiet /\ \A c \in Chips : pic[c].isr = {}
  BY <1>1, <1>2 DEF IInv, BootInv, Booting
<1>4. TypeOK'
  <2>1. irq_handlers' \in [Irqs -> Handler] /\ imr' \in [Chips -> SUBSET Lines]
    BY <1>1 DEF Handler
  <2> QED
    BY <1>1, <1>2, <2>1 DEF IInv, TypeOK
<1>5. BootInv'
  BY <1>1, <1>2, <1>3 DEF BootInv, Quiet, WordsWritten
<1>6. TaskInv' /\ SlaveLineInv' /\ OpenLinesInv'
  BY <1>2, <1>3 DEF TaskInv, SlaveLineInv, OpenLinesInv
<1>7. PicsSound' /\ RequestsInv'
  BY <1>1, <1>3 DEF PicsSound, PicsProgrammed, MasksAgree, IInv, RequestsInv
<1>8. ServiceInv' /\ InServiceIsOurs'
  BY <1>1, <1>3, IdleUndisturbed
<1> QED
  BY <1>4, <1>5, <1>6, <1>7, <1>8 DEF IInv

\* What one of i8259_init's writes does to the controllers.
LEMMA WordWritten ==
  ASSUME NEW w \in 1 .. 10, task.word = w, I8259Init,
         pic \in [Chips -> Controller], WordsWritten(w)
  PROVE  /\ pic' \in [Chips -> Controller]
         /\ \A c \in Chips : /\ pic'[c].irr \subseteq pic[c].irr
                             /\ pic[c].isr = {} => pic'[c].isr = {}
         /\ WordsWritten(w + 1)'
         /\ w = 10 => pic'["slave"].mask = Lines
<1> DEFINE m == pic["master"]
           s == pic["slave"]
<1>1. pic' = [pic EXCEPT ![InitWords[w][1]] =
                IF InitWords[w][2] = "cmd"
                THEN CmdWritten(@, InitWords[w][3])
                ELSE DataWritten(@, InitWords[w][3])]
  BY DEF I8259Init
<1>2. m \in Controller /\ s \in Controller /\ pic = [c \in Chips |-> pic[c]]
  BY DEF Chips
<1>3. ASSUME pic'["master"] \in Controller, pic'["slave"] \in Controller
      PROVE  pic' \in [Chips -> Controller]
  BY <1>1, <1>2, <1>3 DEF Chips
<1>4. \A n : Bits(n) \in SUBSET Lines
  BY CommandBytes
<1>5. CASE w = 1
  <2>1. pic'["master"] = CmdWritten(m, I8259_INIT_CMD) /\ pic'["slave"] = s
    BY <1>1, <1>5 DEF InitWords, Chips
  <2> QED
    BY <1>2, <1>3, <1>5, <2>1, InitCommand DEF WordsWritten, MasterIcw, Chips
<1>6. CASE w = 2
  <2>1. pic'["slave"] = CmdWritten(s, I8259_INIT_CMD) /\ pic'["master"] = m
    BY <1>1, <1>6 DEF InitWords, Chips
  <2> QED
    BY <1>2, <1>3, <1>6, <2>1, InitCommand DEF WordsWritten, MasterIcw, SlaveIcw, Chips
<1>7. CASE w = 3
  <2>1. pic'["master"] = DataWritten(m, Bits(32)) /\ pic'["slave"] = s
    BY <1>1, <1>7 DEF InitWords, Chips, IDT_IRQ_BASE
  <2>2. m.icw = 2
    BY <1>7 DEF WordsWritten, MasterIcw
  <2>3. /\ pic'["master"] \in Controller /\ pic'["master"].icw = 3
        /\ pic'["master"].base = 32
        /\ pic'["master"].irr = m.irr /\ pic'["master"].isr = m.isr
    BY <1>2, <1>4, <2>1, <2>2, DataByte, BaseOfBits
  <2> QED
    BY <1>2, <1>3, <1>7, <2>1, <2>3
    DEF WordsWritten, MasterIcw, SlaveIcw, Chips, IDT_IRQ_BASE
<1>8. CASE w = 4
  <2>1. pic'["slave"] = DataWritten(s, Bits(40)) /\ pic'["master"] = m
    BY <1>1, <1>8 DEF InitWords, Chips, IDT_IRQ_BASE
  <2>2. s.icw = 2
    BY <1>8 DEF WordsWritten, SlaveIcw
  <2>3. /\ pic'["slave"] \in Controller /\ pic'["slave"].icw = 3
        /\ pic'["slave"].base = 40
        /\ pic'["slave"].irr = s.irr /\ pic'["slave"].isr = s.isr
    BY <1>2, <1>4, <2>1, <2>2, DataByte, BaseOfBits
  <2> QED
    BY <1>2, <1>3, <1>8, <2>1, <2>3
    DEF WordsWritten, MasterIcw, SlaveIcw, Chips, IDT_IRQ_BASE
<1>9. CASE w = 5
  <2>1. pic'["master"] = DataWritten(m, {I8259_SLAVE_IRQ}) /\ pic'["slave"] = s
    BY <1>1, <1>9 DEF InitWords, Chips, Bit
  <2>2. m.icw = 3 /\ {I8259_SLAVE_IRQ} \in SUBSET Lines
    BY <1>9 DEF WordsWritten, MasterIcw, I8259_SLAVE_IRQ, Lines
  <2>3. /\ pic'["master"] \in Controller /\ pic'["master"].icw = 4
        /\ pic'["master"].base = m.base /\ pic'["master"].cascade = {I8259_SLAVE_IRQ}
        /\ pic'["master"].irr = m.irr /\ pic'["master"].isr = m.isr
    BY <1>2, <2>1, <2>2, DataByte
  <2> QED
    BY <1>2, <1>3, <1>9, <2>1, <2>3 DEF WordsWritten, MasterIcw, SlaveIcw, Chips
<1>10. CASE w = 6
  <2>1. pic'["slave"] = DataWritten(s, Bits(I8259_SLAVE_IRQ)) /\ pic'["master"] = m
    BY <1>1, <1>10 DEF InitWords, Chips
  <2>2. s.icw = 3
    BY <1>10 DEF WordsWritten, SlaveIcw
  <2>3. /\ pic'["slave"] \in Controller /\ pic'["slave"].icw = 4
        /\ pic'["slave"].base = s.base /\ pic'["slave"].cascade = Bits(I8259_SLAVE_IRQ)
        /\ pic'["slave"].irr = s.irr /\ pic'["slave"].isr = s.isr
    BY <1>2, <1>4, <2>1, <2>2, DataByte
  <2> QED
    BY <1>2, <1>3, <1>10, <2>1, <2>3 DEF WordsWritten, MasterIcw, SlaveIcw, Chips
<1>11. CASE w = 7
  <2>1. pic'["master"] = DataWritten(m, I8259_8086_MODE) /\ pic'["slave"] = s
    BY <1>1, <1>11 DEF InitWords, Chips
  <2>2. m.icw = 4 /\ I8259_8086_MODE \in SUBSET Lines
    BY <1>4, <1>11 DEF WordsWritten, MasterIcw, I8259_8086_MODE
  <2>3. /\ pic'["master"] \in Controller /\ pic'["master"].icw = 0
        /\ pic'["master"].base = m.base /\ pic'["master"].cascade = m.cascade
        /\ pic'["master"].irr = m.irr /\ pic'["master"].isr = m.isr
    BY <1>2, <2>1, <2>2, DataByte
  <2> QED
    BY <1>2, <1>3, <1>11, <2>1, <2>3 DEF WordsWritten, MasterIcw, SlaveIcw, Chips
<1>12. CASE w = 8
  <2>1. pic'["slave"] = DataWritten(s, I8259_8086_MODE) /\ pic'["master"] = m
    BY <1>1, <1>12 DEF InitWords, Chips
  <2>2. s.icw = 4 /\ I8259_8086_MODE \in SUBSET Lines
    BY <1>4, <1>12 DEF WordsWritten, SlaveIcw, I8259_8086_MODE
  <2>3. /\ pic'["slave"] \in Controller /\ pic'["slave"].icw = 0
        /\ pic'["slave"].base = s.base /\ pic'["slave"].cascade = s.cascade
        /\ pic'["slave"].irr = s.irr /\ pic'["slave"].isr = s.isr
    BY <1>2, <2>1, <2>2, DataByte
  <2> QED
    BY <1>2, <1>3, <1>12, <2>1, <2>3 DEF WordsWritten, MasterIcw, SlaveIcw, Chips
<1>13. CASE w = 9
  <2>1. pic'["master"] = DataWritten(m, Lines) /\ pic'["slave"] = s
    BY <1>1, <1>13 DEF InitWords, Chips
  <2>2. m.icw = 0 /\ Lines \in SUBSET Lines
    BY <1>13 DEF WordsWritten, MasterIcw
  <2>3. /\ pic'["master"] \in Controller /\ pic'["master"].icw = 0
        /\ pic'["master"].base = m.base /\ pic'["master"].cascade = m.cascade
        /\ pic'["master"].mask = Lines
        /\ pic'["master"].irr = m.irr /\ pic'["master"].isr = m.isr
    BY <1>2, <2>1, <2>2, DataByte
  <2> QED
    BY <1>2, <1>3, <1>13, <2>1, <2>3 DEF WordsWritten, MasterIcw, SlaveIcw, Chips
<1>14. CASE w = 10
  <2>1. pic'["slave"] = DataWritten(s, Lines) /\ pic'["master"] = m
    BY <1>1, <1>14 DEF InitWords, Chips
  <2>2. s.icw = 0 /\ Lines \in SUBSET Lines
    BY <1>14 DEF WordsWritten, SlaveIcw
  <2>3. /\ pic'["slave"] \in Controller /\ pic'["slave"].icw = 0
        /\ pic'["slave"].base = s.base /\ pic'["slave"].cascade = s.cascade
        /\ pic'["slave"].mask = Lines
        /\ pic'["slave"].irr = s.irr /\ pic'["slave"].isr = s.isr
    BY <1>2, <2>1, <2>2, DataByte
  <2> QED
    BY <1>2, <1>3, <1>14, <2>1, <2>3 DEF WordsWritten, MasterIcw, SlaveIcw, Chips
<1> QED
  BY <1>5, <1>6, <1>7, <1>8, <1>9, <1>10, <1>11, <1>12, <1>13, <1>14

LEMMA I8259InitStep == IInv /\ I8259Init => IInv'
<1> SUFFICES ASSUME IInv, I8259Init PROVE IInv'
  OBVIOUS
<1>1. /\ service = Idle /\ task.step = "pics"
      /\ UNCHANGED <<irq_handlers, imr, if_flag, service, overrun>>
  BY DEF I8259Init, Runs
<1>2. /\ Booting /\ Quiet /\ \A c \in Chips : pic[c].isr = {}
      /\ irq_handlers = [irq \in Irqs |-> [fn |-> NULL, arg |-> NULL]]
      /\ imr = [c \in Chips |-> Lines] /\ WordsWritten(task.word)
  BY <1>1 DEF IInv, BootInv, Booting
<1>3. /\ pic \in [Chips -> Controller] /\ task.word \in 1 .. 10
      /\ task \in [step : TaskSteps, word : 1 .. 10, irq : 0 .. 255,
                   driver : Drivers \union {NULL}]
  BY PicTyped DEF IInv
<1>4. PICK w \in 1 .. 10 : w = task.word
  BY <1>3
<1>5. /\ pic' \in [Chips -> Controller] /\ WordsWritten(w + 1)'
      /\ \A c \in Chips : pic'[c].irr \subseteq pic[c].irr /\ pic'[c].isr = {}
      /\ w = 10 => pic'["slave"].mask = Lines
  BY <1>2, <1>3, <1>4, WordWritten
<1>6. task' = IF w < 10 THEN [task EXCEPT !.word = @ + 1]
              ELSE [task EXCEPT !.word = 1, !.step = "enable", !.irq = I8259_SLAVE_IRQ]
  <2>1. Len(InitWords) = 10
    BY DEF InitWords
  <2> QED
    BY <1>4, <2>1 DEF I8259Init
<1>7. Quiet' /\ RequestsInv'
  BY <1>1, <1>2, <1>5 DEF Quiet, IInv, RequestsInv, Chips
<1>8. ServiceInv' /\ InServiceIsOurs'
  BY <1>1, <1>5, IdleUndisturbed
<1>9. ASSUME task' \in [step : TaskSteps, word : 1 .. 10, irq : 0 .. 255,
                        driver : Drivers \union {NULL}]
      PROVE  TypeOK'
  BY <1>1, <1>5, <1>9, PicTyped DEF IInv, TypeOK, Controller
<1>10. CASE w < 10
  <2>1. /\ task' \in [step : TaskSteps, word : 1 .. 10, irq : 0 .. 255,
                      driver : Drivers \union {NULL}]
        /\ task'.step = "pics" /\ task'.word = w + 1
    BY <1>1, <1>3, <1>4, <1>6, <1>10
  <2>2. Booting' /\ BootInv'
    BY <1>1, <1>2, <1>5, <1>7, <2>1 DEF BootInv, Booting, WordsWritten
  <2>3. TaskInv' /\ SlaveLineInv' /\ OpenLinesInv' /\ PicsSound'
    BY <2>1, <2>2 DEF TaskInv, SlaveLineInv, OpenLinesInv, PicsSound, PicsProgrammed,
                      MasksAgree
  <2> QED
    BY <1>7, <1>8, <1>9, <2>1, <2>2, <2>3 DEF IInv
<1>11. CASE w = 10
  <2>1. /\ task' \in [step : TaskSteps, word : 1 .. 10, irq : 0 .. 255,
                      driver : Drivers \union {NULL}]
        /\ task'.step = "enable" /\ task'.irq = I8259_SLAVE_IRQ
    <3>1. task' = [step |-> "enable", word |-> 1, irq |-> I8259_SLAVE_IRQ,
                   driver |-> task.driver]
      <4>1. task' = [task EXCEPT !.word = 1, !.step = "enable", !.irq = I8259_SLAVE_IRQ]
        BY <1>6, <1>11
      <4> QED
        BY <1>3, <4>1
    <3>2. I8259_SLAVE_IRQ \in 0 .. 255
      BY DEF I8259_SLAVE_IRQ
    <3> QED
      BY <1>3, <3>1, <3>2 DEF TaskSteps
  <2>2. ~ Booting' /\ BootInv'
    BY <2>1 DEF BootInv, Booting
  <2>3. /\ pic'["master"].icw = 0 /\ pic'["slave"].icw = 0 /\ Cascaded'
        /\ pic'["master"].base = IDT_IRQ_BASE /\ pic'["slave"].base = IDT_IRQ_BASE + 8
        /\ pic'["master"].mask = Lines /\ pic'["slave"].mask = Lines
    BY <1>5, <1>11 DEF WordsWritten, MasterIcw, SlaveIcw, Cascaded
  <2>4. PicsSound'
    <3>1. PicsProgrammed'
      BY <2>1, <2>3 DEF PicsProgrammed, Chips
    <3>2. MasksAgree'
      BY <1>1, <1>2, <2>3 DEF MasksAgree, Chips
    <3> QED
      BY <3>1, <3>2 DEF PicsSound
  <2>5. OpenLinesInv'
    <3>1. \A irq \in Irqs : ~ Open(irq)'
      BY <1>1, <1>2, <2>3, IrqLines DEF Open, Chips
    <3> QED
      BY <3>1 DEF OpenLinesInv
  <2>6. TaskInv' /\ SlaveLineInv'
    BY <1>7, <2>1 DEF TaskInv, SlaveLineInv
  <2> QED
    BY <1>7, <1>8, <1>9, <2>1, <2>2, <2>4, <2>5, <2>6 DEF IInv
<1> QED
  BY <1>3, <1>4, <1>10, <1>11

-----------------------------------------------------------------------------
(* The code outside interrupts, after the controllers are set up. *)

\* What holds at each of its steps.
LEMMA RunningFacts ==
  ASSUME IInv, service = Idle, ~ Booting
  PROVE  /\ \A c \in Chips : pic[c].icw = 0 /\ pic[c].isr = {}
         /\ pic \in [Chips -> Controller] /\ imr \in [Chips -> SUBSET Lines]
         /\ task \in [step : TaskSteps, word : 1 .. 10, irq : 0 .. 255,
                      driver : Drivers \union {NULL}]
         /\ if_flag \in BOOLEAN
         /\ PicsProgrammed /\ MasksAgree
BY NothingInService, PicTyped DEF IInv, PicsSound, PicsProgrammed, Chips

LEMMA CpuEnableInterruptsStep == IInv /\ CpuEnableInterrupts => IInv'
<1> SUFFICES ASSUME IInv, CpuEnableInterrupts PROVE IInv'
  OBVIOUS
<1>1. /\ service = Idle /\ task.step = "run" /\ if_flag' = TRUE
      /\ UNCHANGED <<irq_handlers, imr, pic, task, service, overrun>>
  BY DEF CpuEnableInterrupts, Runs
<1>2. ~ Booting
  BY <1>1 DEF Booting
<1>3. TypeOK' /\ BootInv' /\ RequestsInv'
  BY <1>1, <1>2 DEF IInv, TypeOK, BootInv, Booting, RequestsInv
<1>4. SlaveLineInv' /\ TaskInv' /\ OpenLinesInv' /\ PicsSound'
  BY <1>1, TaskUndisturbed DEF SameSetup
<1>5. ServiceInv' /\ InServiceIsOurs'
  BY <1>1, <1>2, RunningFacts, IdleUndisturbed
<1> QED
  BY <1>3, <1>4, <1>5 DEF IInv

LEMMA CpuHaltStep == IInv /\ CpuHalt => IInv'
<1> SUFFICES ASSUME IInv, CpuHalt PROVE IInv'
  OBVIOUS
<1>1. /\ service = Idle /\ task.step = "panic" /\ if_flag' = FALSE
      /\ task' = [task EXCEPT !.step = "halted"]
      /\ UNCHANGED <<irq_handlers, imr, pic, service, overrun>>
  BY DEF CpuHalt, Runs
<1>2. ~ Booting
  BY <1>1 DEF Booting
<1>3. /\ task' \in [step : TaskSteps, word : 1 .. 10, irq : 0 .. 255,
                    driver : Drivers \union {NULL}]
      /\ task'.step = "halted" /\ task'.irq = task.irq
  BY <1>1 DEF IInv, TypeOK, TaskSteps
<1>4. ~ Booting' /\ TypeOK' /\ BootInv' /\ RequestsInv'
  BY <1>1, <1>3 DEF IInv, TypeOK, BootInv, Booting, RequestsInv
<1>5. SlaveLineInv' /\ TaskInv'
  BY <1>1, <1>2, <1>3 DEF IInv, SlaveLineInv, TaskInv
<1>6. OpenLinesInv'
  BY <1>1, <1>2, <1>3 DEF IInv, OpenLinesInv, Open, Complete
<1>7. PicsSound'
  BY <1>1, <1>2, <1>3 DEF IInv, PicsSound, PicsProgrammed, MasksAgree, Cascaded, Booting
<1>8. ServiceInv' /\ InServiceIsOurs'
  BY <1>1, <1>2, RunningFacts, IdleUndisturbed
<1> QED
  BY <1>4, <1>5, <1>6, <1>7, <1>8 DEF IInv

LEMMA RegisterIrqStep ==
  ASSUME IInv, NEW irq \in ClientIrqs, NEW driver \in Drivers, RegisterIrq(irq, driver)
  PROVE  IInv'
<1>1. /\ service = Idle /\ task.step = "run"
      /\ irq \in Irqs => ~ if_flag \/ ImrBit(irq) \in imr[ChipOf(irq)]
      /\ task' = [task EXCEPT !.step = IF irq < SIZEOF_IRQ_HANDLERS THEN "fn" ELSE "panic",
                              !.irq = irq, !.driver = driver]
      /\ UNCHANGED <<irq_handlers, imr, pic, if_flag, service, overrun>>
  BY DEF RegisterIrq, Runs
<1>2. ~ Booting /\ irq \in 0 .. 255 /\ irq # I8259_SLAVE_IRQ
  BY <1>1, InterruptsAssumption DEF Booting, I8259_SLAVE_IRQ
<1>3. PICK step \in {"fn", "panic"} :
        task' = [step |-> step, word |-> task.word, irq |-> irq, driver |-> driver]
  <2>1. task' = [step |-> IF irq < SIZEOF_IRQ_HANDLERS THEN "fn" ELSE "panic",
                 word |-> task.word, irq |-> irq, driver |-> driver]
    BY <1>1, <1>2, RunningFacts
  <2> QED
    BY <2>1
<1>4. /\ task' \in [step : TaskSteps, word : 1 .. 10, irq : 0 .. 255,
                    driver : Drivers \union {NULL}]
      /\ task'.step \in {"fn", "panic"} /\ task'.irq = irq /\ task'.driver = driver
  <2>1. task.word \in 1 .. 10 /\ step \in TaskSteps
    BY <1>1, <1>2, RunningFacts DEF TaskSteps
  <2> QED
    BY <1>2, <1>3, <2>1
<1>5. ~ Booting' /\ TypeOK' /\ BootInv' /\ RequestsInv'
  BY <1>1, <1>4 DEF IInv, TypeOK, BootInv, Booting, RequestsInv
<1>6. SlaveLineInv'
  BY <1>1, <1>2, <1>4 DEF IInv, SlaveLineInv
<1>7. TaskInv'
  <2>1. Quiet' = Quiet /\ \A i \in Irqs : Open(i)' = Open(i)
    BY <1>1 DEF Quiet, Open
  <2>2. \A c \in Chips : pic[c].mask = imr[c]
    BY <1>1, <1>2, RunningFacts DEF MasksAgree
  <2>3. ASSUME irq \in Irqs PROVE ~ Open(irq) \/ Quiet
    BY <1>1, <2>2, <2>3, IrqLines DEF Open, Quiet
  <2> QED
    BY <1>4, <2>1, <2>3 DEF TaskInv
<1>8. OpenLinesInv'
  BY <1>1, <1>2, <1>4 DEF IInv, OpenLinesInv, Open, Complete
<1>9. PicsSound'
  BY <1>1, <1>2, <1>4 DEF IInv, PicsSound, PicsProgrammed, MasksAgree, Cascaded, Booting
<1>10. ServiceInv' /\ InServiceIsOurs'
  BY <1>1, <1>2, RunningFacts, IdleUndisturbed
<1> QED
  BY <1>5, <1>6, <1>7, <1>8, <1>9, <1>10 DEF IInv

LEMMA StoreFnStep == IInv /\ StoreFn => IInv'
<1> SUFFICES ASSUME IInv, StoreFn PROVE IInv'
  OBVIOUS
<1>1. /\ service = Idle /\ task.step = "fn" /\ Store("fn")
      /\ task' = [task EXCEPT !.step = "arg"]
      /\ UNCHANGED <<imr, pic, if_flag, service>>
  BY DEF StoreFn, Runs
<1>2. ~ Booting
  BY <1>1 DEF Booting
<1>3. /\ task' \in [step : TaskSteps, word : 1 .. 10, irq : 0 .. 255,
                    driver : Drivers \union {NULL}]
      /\ task'.step = "arg" /\ task'.irq = task.irq /\ task'.driver = task.driver
  BY <1>1 DEF IInv, TypeOK, TaskSteps
<1>4. /\ task.driver \in Drivers
      /\ task.irq \in Irqs => ~ Open(task.irq) \/ Quiet
  BY <1>1 DEF IInv, TaskInv
<1>5. /\ irq_handlers' \in [Irqs -> Handler] /\ overrun' \in BOOLEAN
      /\ task.irq \in Irqs => irq_handlers'[task.irq].fn = task.driver
      /\ \A irq \in Irqs \ {task.irq} : irq_handlers'[irq] = irq_handlers[irq]
  <2>1. irq_handlers \in [Irqs -> Handler] /\ overrun \in BOOLEAN
    BY DEF IInv, TypeOK
  <2>2. CASE task.irq \in Irqs
    <3>1. /\ irq_handlers' = [irq_handlers EXCEPT ![task.irq]["fn"] = task.driver]
          /\ overrun' = overrun
      BY <1>1, <2>2 DEF Store
    <3> QED
      BY <1>4, <2>1, <2>2, <3>1 DEF Handler
  <2>3. CASE task.irq \notin Irqs
    BY <1>1, <2>1, <2>3 DEF Store
  <2> QED
    BY <2>2, <2>3
<1>6. ~ Booting' /\ TypeOK' /\ BootInv' /\ RequestsInv'
  BY <1>1, <1>3, <1>5 DEF IInv, TypeOK, BootInv, Booting, RequestsInv
<1>7. Quiet' = Quiet /\ \A irq \in Irqs : Open(irq)' = Open(irq)
  BY <1>1 DEF Quiet, Open
<1>8. SlaveLineInv'
  BY <1>1, <1>2, <1>3 DEF IInv, SlaveLineInv
<1>9. TaskInv'
  BY <1>3, <1>4, <1>5, <1>7 DEF TaskInv
<1>10. OpenLinesInv'
  <2>1. \A irq \in Irqs \ {I8259_SLAVE_IRQ} : Open(irq) => Complete(irq)
    BY <1>1, <1>2 DEF IInv, OpenLinesInv
  <2>2. \A irq \in Irqs \ {task.irq} : Complete(irq)' = Complete(irq)
    BY <1>5 DEF Complete
  <2> QED
    BY <1>3, <1>4, <1>7, <2>1, <2>2 DEF OpenLinesInv
<1>11. PicsSound'
  BY <1>1, <1>2, <1>3 DEF IInv, PicsSound, PicsProgrammed, MasksAgree, Cascaded, Booting
<1>12. ServiceInv' /\ InServiceIsOurs'
  BY <1>1, <1>2, RunningFacts, IdleUndisturbed
<1> QED
  BY <1>6, <1>8, <1>9, <1>10, <1>11, <1>12 DEF IInv

LEMMA StoreArgStep == IInv /\ StoreArg => IInv'
<1> SUFFICES ASSUME IInv, StoreArg PROVE IInv'
  OBVIOUS
<1>1. /\ service = Idle /\ task.step = "arg" /\ Store("arg")
      /\ task' = [task EXCEPT !.step = "enable"]
      /\ UNCHANGED <<imr, pic, if_flag, service>>
  BY DEF StoreArg, Runs
<1>2. ~ Booting
  BY <1>1 DEF Booting
<1>3. /\ task' \in [step : TaskSteps, word : 1 .. 10, irq : 0 .. 255,
                    driver : Drivers \union {NULL}]
      /\ task'.step = "enable" /\ task'.irq = task.irq
  BY <1>1 DEF IInv, TypeOK, TaskSteps
<1>4. /\ task.driver \in Drivers
      /\ task.irq \in Irqs => irq_handlers[task.irq].fn = task.driver
  BY <1>1 DEF IInv, TaskInv
<1>5. /\ irq_handlers' \in [Irqs -> Handler] /\ overrun' \in BOOLEAN
      /\ task.irq \in Irqs => /\ irq_handlers'[task.irq].fn = task.driver
                              /\ irq_handlers'[task.irq].arg = task.driver
      /\ \A irq \in Irqs \ {task.irq} : irq_handlers'[irq] = irq_handlers[irq]
  <2>1. irq_handlers \in [Irqs -> Handler] /\ overrun \in BOOLEAN
    BY DEF IInv, TypeOK
  <2>2. CASE task.irq \in Irqs
    <3>1. /\ irq_handlers' = [irq_handlers EXCEPT ![task.irq]["arg"] = task.driver]
          /\ overrun' = overrun
      BY <1>1, <2>2 DEF Store
    <3> QED
      BY <1>4, <2>1, <2>2, <3>1 DEF Handler
  <2>3. CASE task.irq \notin Irqs
    BY <1>1, <2>1, <2>3 DEF Store
  <2> QED
    BY <2>2, <2>3
<1>6. ~ Booting' /\ TypeOK' /\ BootInv' /\ RequestsInv'
  BY <1>1, <1>3, <1>5 DEF IInv, TypeOK, BootInv, Booting, RequestsInv
<1>7. \A irq \in Irqs : Open(irq)' = Open(irq)
  BY <1>1 DEF Open
<1>8. SlaveLineInv'
  BY <1>1, <1>2, <1>3 DEF IInv, SlaveLineInv
<1>9. \A irq \in Irqs : irq = task.irq => Complete(irq)'
  BY <1>4, <1>5 DEF Complete
<1>10. TaskInv'
  BY <1>3, <1>9 DEF TaskInv
<1>11. OpenLinesInv'
  <2>1. \A irq \in Irqs \ {I8259_SLAVE_IRQ, task.irq} : Open(irq) => Complete(irq)
    BY <1>1, <1>2 DEF IInv, OpenLinesInv
  <2>2. \A irq \in Irqs \ {task.irq} : Complete(irq)' = Complete(irq)
    BY <1>5 DEF Complete
  <2> QED
    BY <1>7, <1>9, <2>1, <2>2 DEF OpenLinesInv
<1>12. PicsSound'
  BY <1>1, <1>2, <1>3 DEF IInv, PicsSound, PicsProgrammed, MasksAgree, Cascaded, Booting
<1>13. ServiceInv' /\ InServiceIsOurs'
  BY <1>1, <1>2, RunningFacts, IdleUndisturbed
<1> QED
  BY <1>6, <1>8, <1>10, <1>11, <1>12, <1>13 DEF IInv

LEMMA I8259EnableIrqStep == IInv /\ I8259EnableIrq => IInv'
<1> SUFFICES ASSUME IInv, I8259EnableIrq PROVE IInv'
  OBVIOUS
<1>1. /\ service = Idle /\ task.step = "enable"
      /\ UNCHANGED <<irq_handlers, pic, if_flag, service, overrun>>
  BY DEF I8259EnableIrq, Runs
<1>2. ~ Booting
  BY <1>1 DEF Booting
<1>3. /\ imr \in [Chips -> SUBSET Lines]
      /\ \A c \in Chips : pic[c].mask = imr[c]
  BY <1>1, <1>2, RunningFacts DEF MasksAgree
<1>4. PICK step \in {"port", "panic"} :
        /\ task' = [task EXCEPT !.step = step]
        /\ step = "port" <=> task.irq \in Irqs
  BY DEF I8259EnableIrq
<1>5. /\ task' \in [step : TaskSteps, word : 1 .. 10, irq : 0 .. 255,
                    driver : Drivers \union {NULL}]
      /\ task'.step \in {"port", "panic"} /\ task'.irq = task.irq
      /\ task'.step = "port" <=> task.irq \in Irqs
  BY <1>4 DEF IInv, TypeOK, TaskSteps
<1>6. /\ imr' \in [Chips -> SUBSET Lines]
      /\ imr'["master"] \subseteq imr["master"]
      /\ \A irq \in Irqs : /\ irq # task.irq =>
                                (ImrBit(irq) \in imr'[ChipOf(irq)] <=>
                                 ImrBit(irq) \in imr[ChipOf(irq)])
                           /\ irq = task.irq => ImrBit(irq) \notin imr'[ChipOf(irq)]
  <2>1. CASE task.irq \in Irqs
    <3>1. imr' = [imr EXCEPT ![ChipOf(task.irq)] = @ \ {ImrBit(task.irq)}]
      BY <2>1 DEF I8259EnableIrq
    <3> QED
      BY <1>3, <2>1, <3>1, IrqLines DEF Chips
  <2>2. CASE task.irq \notin Irqs
    BY <1>3, <2>2 DEF I8259EnableIrq
  <2> QED
    BY <2>1, <2>2
<1>7. ~ Booting' /\ TypeOK' /\ BootInv' /\ RequestsInv'
  BY <1>1, <1>5, <1>6 DEF IInv, TypeOK, BootInv, Booting, RequestsInv
<1>8. Quiet' = Quiet /\ \A irq \in Irqs : Complete(irq)' = Complete(irq)
  BY <1>1 DEF Quiet, Complete
<1>9. \A irq \in Irqs \ {task.irq} : Open(irq)' = Open(irq)
  BY <1>1, <1>6 DEF Open
<1>10. \A irq \in Irqs \ {I8259_SLAVE_IRQ} : irq = task.irq => Complete(irq)
  BY <1>1 DEF IInv, TaskInv
<1>11. I8259_SLAVE_IRQ \in Irqs /\ ChipOf(I8259_SLAVE_IRQ) = "master"
       /\ ImrBit(I8259_SLAVE_IRQ) = I8259_SLAVE_IRQ
  BY DEF I8259_SLAVE_IRQ, Irqs, I8259_NO_IRQS, ChipOf, ImrBit
<1>12. SlaveLineInv'
  <2>1. CASE task.irq = I8259_SLAVE_IRQ
    BY <1>1, <1>2, <1>5, <1>8, <1>11, <2>1 DEF IInv, SlaveLineInv
  <2>2. CASE task.irq # I8259_SLAVE_IRQ
    BY <1>1, <1>2, <1>5, <1>6, <2>2 DEF IInv, SlaveLineInv
  <2> QED
    BY <2>1, <2>2
<1>13. TaskInv'
  <2>1. \A irq \in Irqs : LineOf(irq) \in pic[ChipOf(irq)].mask <=>
                          ImrBit(irq) \in imr[ChipOf(irq)]
    BY <1>3, IrqLines
  <2> QED
    BY <1>1, <1>5, <1>6, <2>1 DEF TaskInv
<1>14. OpenLinesInv'
  BY <1>1, <1>2, <1>8, <1>9, <1>10 DEF IInv, OpenLinesInv
<1>15. PicsSound'
  <2>1. I8259_SLAVE_IRQ \notin imr'["master"]
    <3>1. CASE task.irq = I8259_SLAVE_IRQ
      BY <1>6, <1>11, <3>1
    <3>2. CASE task.irq # I8259_SLAVE_IRQ
      BY <1>2, <1>6, <3>2 DEF IInv, SlaveLineInv
    <3> QED
      BY <3>1, <3>2
  <2> QED
    BY <1>1, <1>2, <1>5, <2>1 DEF IInv, PicsSound, PicsProgrammed, MasksAgree, Cascaded
<1>16. ServiceInv' /\ InServiceIsOurs'
  BY <1>1, <1>2, RunningFacts, IdleUndisturbed
<1> QED
  BY <1>7, <1>12, <1>13, <1>14, <1>15, <1>16 DEF IInv

LEMMA I8259DisableIrqStep ==
  ASSUME IInv, NEW irq \in ClientIrqs, I8259DisableIrq(irq)
  PROVE  IInv'
<1>1. /\ service = Idle /\ task.step = "run" /\ irq \in Irqs
      /\ imr' = [imr EXCEPT ![ChipOf(irq)] = @ \union {ImrBit(irq)}]
      /\ task' = [task EXCEPT !.step = "port", !.irq = irq]
      /\ UNCHANGED <<irq_handlers, pic, if_flag, service, overrun>>
  BY DEF I8259DisableIrq, Runs
<1>2. ~ Booting /\ irq \in 0 .. 255 /\ irq # I8259_SLAVE_IRQ
  BY <1>1, InterruptsAssumption DEF Booting, I8259_SLAVE_IRQ
<1>3. /\ imr \in [Chips -> SUBSET Lines]
      /\ \A c \in Chips : pic[c].mask = imr[c]
  BY <1>1, <1>2, RunningFacts DEF MasksAgree
<1>4. task' = [step |-> "port", word |-> task.word, irq |-> irq, driver |-> task.driver]
  BY <1>1, <1>2, RunningFacts
<1>5. /\ task' \in [step : TaskSteps, word : 1 .. 10, irq : 0 .. 255,
                    driver : Drivers \union {NULL}]
      /\ task'.step = "port" /\ task'.irq = irq
  <2>1. task.word \in 1 .. 10 /\ task.driver \in Drivers \union {NULL}
    BY <1>1, <1>2, RunningFacts
  <2> QED
    BY <1>2, <1>4, <2>1 DEF TaskSteps
<1>6. /\ imr' \in [Chips -> SUBSET Lines]
      /\ \A i \in Irqs : /\ ImrBit(i) \in imr[ChipOf(i)] => ImrBit(i) \in imr'[ChipOf(i)]
                         /\ i # irq => (ImrBit(i) \in imr'[ChipOf(i)] <=>
                                        ImrBit(i) \in imr[ChipOf(i)])
      /\ I8259_SLAVE_IRQ \in imr'["master"] => I8259_SLAVE_IRQ \in imr["master"]
  <2>1. ChipOf(irq) = "master" => ImrBit(irq) # I8259_SLAVE_IRQ
    BY <1>1, <1>2 DEF ChipOf, ImrBit
  <2> QED
    BY <1>1, <1>3, <2>1, IrqLines DEF Chips
<1>7. ~ Booting' /\ TypeOK' /\ BootInv' /\ RequestsInv'
  BY <1>1, <1>5, <1>6 DEF IInv, TypeOK, BootInv, Booting, RequestsInv
<1>8. \A i \in Irqs : (Complete(i)' = Complete(i)) /\ (Open(i)' => Open(i))
  BY <1>1, <1>6 DEF Complete, Open
<1>9. SlaveLineInv'
  BY <1>1, <1>2, <1>5, <1>6 DEF IInv, SlaveLineInv
<1>10. TaskInv'
  <2>1. \A i \in Irqs : LineOf(i) \in pic[ChipOf(i)].mask <=> ImrBit(i) \in imr[ChipOf(i)]
    BY <1>3, IrqLines
  <2> QED
    BY <1>1, <1>5, <1>6, <2>1 DEF TaskInv
<1>11. OpenLinesInv'
  BY <1>1, <1>2, <1>8 DEF IInv, OpenLinesInv
<1>12. PicsSound'
  <2>1. I8259_SLAVE_IRQ \notin imr'["master"]
    BY <1>1, <1>2, <1>6 DEF IInv, PicsSound, PicsProgrammed
  <2> QED
    BY <1>1, <1>2, <1>5, <2>1 DEF IInv, PicsSound, PicsProgrammed, MasksAgree, Cascaded
<1>13. ServiceInv' /\ InServiceIsOurs'
  BY <1>1, <1>2, RunningFacts, IdleUndisturbed
<1> QED
  BY <1>7, <1>9, <1>10, <1>11, <1>12, <1>13 DEF IInv

\* The port write gives the controller the mask the driver remembers, and changes
\* nothing else there.
LEMMA UpdateImrFacts ==
  ASSUME IInv, UpdateImr
  PROVE  /\ service = Idle /\ task.step = "port" /\ task.irq \in Irqs /\ ~ Booting
         /\ UNCHANGED <<irq_handlers, imr, if_flag, service, overrun>>
         /\ pic' \in [Chips -> Controller]
         /\ \A c \in Chips :
              /\ pic'[c].icw = pic[c].icw /\ pic'[c].base = pic[c].base
              /\ pic'[c].cascade = pic[c].cascade
              /\ pic'[c].irr = pic[c].irr /\ pic'[c].isr = pic[c].isr
              /\ pic'[c].mask = imr[c]
         /\ task' = [step |-> "run", word |-> task.word, irq |-> 0, driver |-> NULL]
<1>1. /\ service = Idle /\ task.step = "port"
      /\ UNCHANGED <<irq_handlers, imr, if_flag, service, overrun>>
      /\ task' = [task EXCEPT !.step = "run", !.irq = 0, !.driver = NULL]
      /\ pic' = [pic EXCEPT ![ChipOf(task.irq)] = DataWritten(@, imr[ChipOf(task.irq)])]
  BY DEF UpdateImr, Runs
<1>2. ~ Booting
  BY <1>1 DEF Booting
<1>3. /\ task.irq \in Irqs
      /\ \A irq \in Irqs \ {task.irq} :
           LineOf(irq) \in pic[ChipOf(irq)].mask <=> ImrBit(irq) \in imr[ChipOf(irq)]
  BY <1>1 DEF IInv, TaskInv
<1>4. PICK chip \in Chips : chip = ChipOf(task.irq)
  BY <1>3, IrqLines
<1>5. /\ pic \in [Chips -> Controller] /\ imr \in [Chips -> SUBSET Lines]
      /\ \A c \in Chips : pic[c].icw = 0
  BY <1>1, <1>2, RunningFacts
<1>6. pic' = [pic EXCEPT ![chip] = DataWritten(pic[chip], imr[chip])]
  BY <1>1, <1>4
<1>7. /\ DataWritten(pic[chip], imr[chip]) \in Controller
      /\ DataWritten(pic[chip], imr[chip]).icw = pic[chip].icw
      /\ DataWritten(pic[chip], imr[chip]).base = pic[chip].base
      /\ DataWritten(pic[chip], imr[chip]).cascade = pic[chip].cascade
      /\ DataWritten(pic[chip], imr[chip]).irr = pic[chip].irr
      /\ DataWritten(pic[chip], imr[chip]).isr = pic[chip].isr
      /\ DataWritten(pic[chip], imr[chip]).mask = imr[chip]
  <2>1. pic[chip] \in Controller /\ imr[chip] \in SUBSET Lines /\ pic[chip].icw = 0
    BY <1>5
  <2> QED
    BY <2>1, DataByte
<1>8. ASSUME NEW c \in Chips, c # chip PROVE pic[c].mask = imr[c]
  <2>1. pic[c].mask \subseteq Lines /\ imr[c] \subseteq Lines
    BY <1>5 DEF Controller
  <2>2. \A l \in Lines : l \in pic[c].mask <=> l \in imr[c]
    <3>1. CASE c = "master"
      <4>1. \A l \in Lines : l \in Irqs \ {task.irq} /\ ChipOf(l) = c /\ LineOf(l) = l
                             /\ ImrBit(l) = l
        BY <1>4, <1>8, <3>1, IrqLines
      <4> QED
        BY <1>3, <4>1
    <3>2. CASE c = "slave"
      <4>1. \A l \in Lines : 8 + l \in Irqs \ {task.irq} /\ ChipOf(8 + l) = c
                             /\ LineOf(8 + l) = l /\ ImrBit(8 + l) = l
        BY <1>4, <1>8, <3>2, IrqLines
      <4> QED
        BY <1>3, <4>1
    <3> QED
      BY <3>1, <3>2 DEF Chips
  <2> QED
    BY <2>1, <2>2
<1>9. \A c \in Chips : c # chip => pic'[c] = pic[c]
  BY <1>5, <1>6
<1>10. pic'[chip] = DataWritten(pic[chip], imr[chip])
  BY <1>5, <1>6
<1>11. pic' \in [Chips -> Controller]
  BY <1>5, <1>6, <1>7
<1>12. \A c \in Chips :
         /\ pic'[c].icw = pic[c].icw /\ pic'[c].base = pic[c].base
         /\ pic'[c].cascade = pic[c].cascade
         /\ pic'[c].irr = pic[c].irr /\ pic'[c].isr = pic[c].isr
         /\ pic'[c].mask = imr[c]
  BY <1>7, <1>8, <1>9, <1>10
<1>13. task' = [step |-> "run", word |-> task.word, irq |-> 0, driver |-> NULL]
  BY <1>1, <1>2, RunningFacts
<1> QED
  BY <1>1, <1>2, <1>3, <1>11, <1>12, <1>13

LEMMA UpdateImrStep == IInv /\ UpdateImr => IInv'
<1> SUFFICES ASSUME IInv, UpdateImr PROVE IInv'
  OBVIOUS
<1>1. /\ service = Idle /\ task.step = "port" /\ task.irq \in Irqs /\ ~ Booting
      /\ UNCHANGED <<irq_handlers, imr, if_flag, service, overrun>>
      /\ pic' \in [Chips -> Controller]
      /\ \A c \in Chips :
           /\ pic'[c].icw = pic[c].icw /\ pic'[c].base = pic[c].base
           /\ pic'[c].cascade = pic[c].cascade
           /\ pic'[c].irr = pic[c].irr /\ pic'[c].isr = pic[c].isr
           /\ pic'[c].mask = imr[c]
      /\ task' = [step |-> "run", word |-> task.word, irq |-> 0, driver |-> NULL]
  BY UpdateImrFacts
<1>2. /\ task' \in [step : TaskSteps, word : 1 .. 10, irq : 0 .. 255,
                    driver : Drivers \union {NULL}]
      /\ task'.step = "run" /\ task'.irq = 0
  <2>1. task.word \in 1 .. 10
    BY <1>1, RunningFacts
  <2> QED
    BY <1>1, <2>1 DEF TaskSteps
<1>3. "master" \in Chips /\ "slave" \in Chips
  BY DEF Chips
<1>4. ~ Booting' /\ TypeOK' /\ BootInv' /\ RequestsInv'
  <2>1. TypeOK'
    BY <1>1, <1>2, PicTyped DEF IInv, TypeOK, Controller
  <2> QED
    BY <1>1, <1>2, <1>3, <2>1 DEF IInv, BootInv, Booting, RequestsInv
<1>5. PicsProgrammed /\ I8259_SLAVE_IRQ \notin imr["master"]
  BY <1>1, RunningFacts DEF PicsProgrammed
<1>6. SlaveLineInv'
  BY <1>1, <1>2, <1>3, <1>5 DEF SlaveLineInv, I8259_SLAVE_IRQ
<1>7. TaskInv'
  BY <1>2 DEF TaskInv
<1>8. OpenLinesInv'
  <2>1. \A irq \in Irqs : Open(irq)' => Open(irq)
    BY <1>1, IrqLines DEF Open
  <2> QED
    BY <1>1, <2>1 DEF IInv, OpenLinesInv, Complete
<1>9. PicsSound'
  <2>1. PicsProgrammed'
    BY <1>1, <1>3, <1>5 DEF PicsProgrammed, Cascaded
  <2>2. MasksAgree'
    BY <1>1 DEF MasksAgree
  <2> QED
    BY <2>1, <2>2 DEF PicsSound
<1>10. ServiceInv' /\ InServiceIsOurs'
  BY <1>1, RunningFacts, IdleUndisturbed
<1> QED
  BY <1>4, <1>6, <1>7, <1>8, <1>9, <1>10 DEF IInv

-----------------------------------------------------------------------------
(* The safety theorems. *)

LEMMA NextIInv == IInv /\ [Next]_vars => IInv'
<1> SUFFICES ASSUME IInv, [Next]_vars PROVE IInv'
  OBVIOUS
<1>1. CASE UNCHANGED vars
  <2>1. UNCHANGED <<irq_handlers, imr, pic, if_flag, task, service, overrun>>
    BY <1>1 DEF vars
  <2>2. TypeOK' /\ RequestsInv' /\ Quiet' = Quiet
    BY <2>1 DEF IInv, TypeOK, RequestsInv, Quiet
  <2>3. BootInv'
    BY <2>1, <2>2 DEF IInv, BootInv, Booting, WordsWritten
  <2>4. SlaveLineInv' /\ TaskInv' /\ OpenLinesInv' /\ PicsSound'
    BY <2>1, <2>2, TaskUndisturbed DEF SameSetup
  <2>5. ServiceInv' /\ InServiceIsOurs'
    BY <2>1 DEF IInv, ServiceInv, InServiceIsOurs, HandlingIrq, Irq, Complete, Booting
  <2> QED
    BY <2>2, <2>3, <2>4, <2>5 DEF IInv
<1>2. CASE Next
  BY <1>2, RaiseStep, AcknowledgeMasterStep, AcknowledgeSlaveStep, SpuriousMasterStep,
     SpuriousSlaveStep, ExceptionStep, IsrMainPanicsStep, SendEoiSlaveStep,
     SendEoiMasterStep, IrqHandlerReturnsStep, CpuInitStep, I8259InitStep,
     CpuEnableInterruptsStep, RegisterIrqStep, I8259DisableIrqStep, StoreFnStep,
     StoreArgStep, I8259EnableIrqStep, UpdateImrStep, CpuHaltStep
  DEF Next, Acknowledge, InterruptCode
<1> QED
  BY <1>1, <1>2

LEMMA InductiveInvariant == Spec => []IInv
BY InitIInv, NextIInv, PTL DEF Spec

\* Every variable has its type, whatever devices raise and clients register.
THEOREM TypeCorrect == Spec => []TypeOK
<1>1. IInv => TypeOK
  BY DEF IInv
<1> QED
  BY <1>1, InductiveInvariant, PTL

\* The controllers are what i8259.c remembers: after i8259_init they are programmed as
\* it meant, and have the masks it keeps but for the write that is under way.
THEOREM ControllersAreAsRemembered == Spec => []DispatchSound
<1>1. IInv => DispatchSound
  BY DEF IInv, DispatchSound
<1> QED
  BY <1>1, InductiveInvariant, PTL

\* The end-of-interrupt commands of interrupt_handle_irq end the interrupt that it
\* handles, and no other; a spurious one, for which nothing is in service, included.
THEOREM EoiEndsItsInterrupt == Spec => []InServiceIsOurs
<1>1. IInv => InServiceIsOurs
  BY DEF IInv
<1> QED
  BY <1>1, InductiveInvariant, PTL

\* A device's request reaches the completely stored handler of its own line, also
\* when it comes in the middle of interrupts_register_irq.
THEOREM RequestsReachTheirDrivers == Spec => []RequestReachesItsDriver
<1>1. IInv => RequestReachesItsDriver
  BY DEF IInv, ServiceInv, Complete, RequestReachesItsDriver
<1> QED
  BY <1>1, InductiveInvariant, PTL

\* Behind cpu_halt no interrupt can come and none is handled.
HaltedInv == task.step = "halted" => ~ if_flag /\ service = Idle

\* A panic is final: wherever it came from, after cpu_halt no handler and no other code of
\* the kernel runs again, whatever devices request.
THEOREM PanicsAreFinal == Spec => PanicIsFinal
<1>1. Init => HaltedInv
  BY DEF Init, HaltedInv
<1>2. ASSUME TypeOK, HaltedInv, task.step = "halted", [Next]_vars
      PROVE  UNCHANGED <<irq_handlers, imr, if_flag, task, service, overrun>>
  <2>1. /\ task.step = "halted" /\ ~ if_flag /\ service = Idle
        /\ service.step = "idle"
    BY <1>2 DEF HaltedInv, Idle
  <2>2. CASE \E irq \in Devices : Raise(irq)
    BY <2>2 DEF Raise
  <2>3. CASE Acknowledge \/ SpuriousMaster \/ SpuriousSlave
    BY <2>1, <2>3 DEF Acknowledge, AcknowledgeMaster, AcknowledgeSlave, SpuriousMaster,
       SpuriousSlave, Interruptible
  <2>4. CASE Exception(13) \/ InterruptCode
    BY <2>1, <2>4 DEF Exception, InterruptCode, IsrMainPanics, SendEoiSlave, SendEoiMaster,
       MasterEoiIsDue, IrqHandlerReturns
  <2>5. CASE \/ CpuInit \/ I8259Init \/ CpuEnableInterrupts \/ StoreFn \/ StoreArg
             \/ I8259EnableIrq \/ UpdateImr \/ CpuHalt
             \/ \E irq \in ClientIrqs, driver \in Drivers : RegisterIrq(irq, driver)
             \/ \E irq \in ClientIrqs : I8259DisableIrq(irq)
    BY <2>1, <2>5 DEF CpuInit, I8259Init, CpuEnableInterrupts, StoreFn, StoreArg,
       I8259EnableIrq, UpdateImr, CpuHalt, RegisterIrq, I8259DisableIrq, Runs
  <2>6. CASE UNCHANGED vars
    BY <2>6 DEF vars
  <2> QED
    BY <1>2, <2>2, <2>3, <2>4, <2>5, <2>6 DEF Next
<1>3. TypeOK /\ HaltedInv /\ [Next]_vars => HaltedInv'
  <2> SUFFICES ASSUME TypeOK, HaltedInv, [Next]_vars, task'.step = "halted"
               PROVE  ~ if_flag' /\ service' = Idle
    BY DEF HaltedInv
  <2>1. CASE task.step = "halted"
    BY <1>2, <2>1 DEF HaltedInv
  <2>2. CASE task.step # "halted"
    <3>1. CpuHalt
      <4>1. task' # task
        BY <2>2
      <4>2. CASE \/ \E irq \in Devices : Raise(irq)
                 \/ Acknowledge \/ SpuriousMaster \/ SpuriousSlave \/ Exception(13)
        BY <4>1, <4>2 DEF Raise, Acknowledge, AcknowledgeMaster, AcknowledgeSlave,
           SpuriousMaster, SpuriousSlave, Exception, Enter
      <4>3. CASE InterruptCode
        <5>1. IsrMainPanics
          BY <4>1, <4>3 DEF InterruptCode, SendEoiSlave, SendEoiMaster, IrqHandlerReturns
        <5>2. task' = [task EXCEPT !.step = "panic"]
          BY <5>1 DEF IsrMainPanics
        <5> QED
          BY <5>2 DEF TypeOK
      <4>4. CASE CpuInit \/ I8259Init \/ CpuEnableInterrupts
        <5>1. CASE CpuInit \/ CpuEnableInterrupts
          BY <4>1, <5>1 DEF TypeOK, CpuInit, CpuEnableInterrupts
        <5>2. CASE I8259Init
          <6>1. \/ task' = [task EXCEPT !.word = @ + 1]
                \/ task' = [task EXCEPT !.word = 1, !.step = "enable", !.irq = I8259_SLAVE_IRQ]
            BY <5>2 DEF I8259Init
          <6> QED
            BY <2>2, <6>1 DEF TypeOK
        <5> QED
          BY <4>4, <5>1, <5>2
      <4>5. CASE \/ \E irq \in ClientIrqs, driver \in Drivers : RegisterIrq(irq, driver)
                 \/ \E irq \in ClientIrqs : I8259DisableIrq(irq)
        BY <4>5 DEF TypeOK, RegisterIrq, I8259DisableIrq
      <4>6. CASE StoreFn \/ StoreArg
        BY <4>6 DEF TypeOK, StoreFn, StoreArg
      <4>7. CASE I8259EnableIrq \/ UpdateImr
        BY <4>7 DEF TypeOK, I8259EnableIrq, UpdateImr
      <4> QED
        BY <4>1, <4>2, <4>3, <4>4, <4>5, <4>6, <4>7 DEF Next, vars
    <3> QED
      BY <3>1 DEF CpuHalt, Runs
  <2> QED
    BY <2>1, <2>2
<1>4. TypeOK /\ HaltedInv /\ [Next]_vars =>
        [task.step = "halted" =>
           UNCHANGED <<irq_handlers, imr, if_flag, task, service, overrun>>]_vars
  BY <1>2
<1> QED
  BY <1>1, <1>3, <1>4, TypeCorrect, PTL DEF Spec, PanicIsFinal

-----------------------------------------------------------------------------
(* The refinement of the abstract interrupt service. *)

\* What the state of the service is mapped to.
Pending == {irq \in Irqs : LineOf(irq) \in pic[ChipOf(irq)].irr}
Bound == [irq \in Irqs |-> IF LineOf(irq) \in pic[ChipOf(irq)].mask
                           THEN NULL ELSE DriverOf(irq)]
Active == IF service = Idle \/ service.spurious \/ ~ HandlingIrq
          THEN <<>> ELSE <<service.irq, DriverOf(Irq)>>

\* The service's actions, in those terms.
LEMMA StutterMaps ==
  ASSUME Booting' = Booting, Pending' = Pending, Bound' = Bound, Active' = Active
  PROVE  [Service!INext]_(Service!ivars)
BY DEF Pending, Bound, Active, Service!ivars

LEMMA SignalMaps ==
  ASSUME NEW i \in Irqs, Pending' = Pending \union {i},
         Booting' = Booting, Bound' = Bound, Active' = Active
  PROVE  [Service!INext]_(Service!ivars)
BY DEF Pending, Bound, Active, Service!INext, Service!Signal

LEMMA SetUpMaps ==
  ASSUME Booting, Booting' \in BOOLEAN, Pending' \subseteq Pending,
         Bound' = Bound, Active' = Active
  PROVE  [Service!INext]_(Service!ivars)
BY DEF Pending, Bound, Active, Service!INext, Service!SetUp

LEMMA BindMaps ==
  ASSUME NEW i \in Irqs, Active = <<>>,
         \A j \in Irqs \ {i} : Bound'[j] = Bound[j],
         Booting' = Booting, Pending' = Pending, Active' = Active
  PROVE  [Service!INext]_(Service!ivars)
<1>1. Service!Bind(i)
  BY DEF Pending, Bound, Active, Service!Bind
<1> QED
  BY <1>1 DEF Service!INext

LEMMA CallMaps ==
  ASSUME NEW i \in Irqs, ~ Booting, Active = <<>>, i \in Pending, Bound[i] # NULL,
         \A j \in Pending : Bound[j] # NULL => Service!Rank(i) <= Service!Rank(j),
         Active' = <<i, Bound[i]>>, Pending' = Pending \ {i},
         Booting' = Booting, Bound' = Bound
  PROVE  [Service!INext]_(Service!ivars)
<1>1. Service!Call(i)
  BY DEF Pending, Bound, Active, Service!Call
<1> QED
  BY <1>1 DEF Service!INext

LEMMA ReturnMaps ==
  ASSUME Active' = <<>>, Booting' = Booting, Pending' = Pending, Bound' = Bound
  PROVE  [Service!INext]_(Service!ivars)
BY DEF Pending, Bound, Active, Service!INext, Service!Return

\* Who is bound depends on the masks and the handlers only, and who is pending on the
\* requests.
LEMMA BoundKept ==
  ASSUME irq_handlers' = irq_handlers, \A c \in Chips : pic'[c].mask = pic[c].mask
  PROVE  Bound' = Bound
<1>1. \A irq \in Irqs : (LineOf(irq) \in pic[ChipOf(irq)].mask)' <=>
                        LineOf(irq) \in pic[ChipOf(irq)].mask
  BY IrqLines
<1>2. \A irq \in Irqs : DriverOf(irq)' = DriverOf(irq)
  BY DEF DriverOf
<1> QED
  BY <1>1, <1>2 DEF Bound

LEMMA PendingKept ==
  ASSUME \A c \in Chips : pic'[c].irr = pic[c].irr
  PROVE  Pending' = Pending
BY IrqLines DEF Pending

LEMMA IdleIsInactive ==
  /\ service = Idle => Active = <<>>
  /\ service' = Idle => Active' = <<>>
BY DEF Active, Idle

LEMMA RaiseRefines ==
  ASSUME IInv, NEW irq \in Devices, Raise(irq)
  PROVE  [Service!INext]_(Service!ivars)
<1>1. irq \in Irqs
  BY InterruptsAssumption DEF Irqs, I8259_NO_IRQS
<1>2. pic \in [Chips -> Controller]
  BY PicTyped DEF IInv
<1>3. /\ pic' = [pic EXCEPT ![ChipOf(irq)].irr = @ \union {LineOf(irq)}]
      /\ UNCHANGED <<irq_handlers, task, service>>
  BY DEF Raise
<1>4. /\ \A c \in Chips : pic'[c].mask = pic[c].mask
      /\ \A c \in Chips : pic'[c].irr = IF c = ChipOf(irq)
                                        THEN pic[c].irr \union {LineOf(irq)}
                                        ELSE pic[c].irr
  <2>1. PICK chip \in Chips, line \in Lines : chip = ChipOf(irq) /\ line = LineOf(irq)
    BY <1>1, IrqLines
  <2>2. pic' = [pic EXCEPT ![chip].irr = @ \union {line}]
    BY <1>3, <2>1
  <2>3. \A c \in Chips : /\ pic'[c].mask = pic[c].mask
                         /\ pic'[c].irr = IF c = chip THEN pic[c].irr \union {line}
                                          ELSE pic[c].irr
    <3>1. \A c \in Chips : c # chip => pic'[c] = pic[c]
      BY <1>2, <2>2
    <3>2. pic[chip] \in Controller /\ pic'[chip] = [pic[chip] EXCEPT !.irr = @ \union {line}]
      BY <1>2, <2>2
    <3>3. pic'[chip].mask = pic[chip].mask /\ pic'[chip].irr = pic[chip].irr \union {line}
      BY <3>2 DEF Controller
    <3> QED
      BY <3>1, <3>3
  <2> QED
    BY <2>1, <2>3
<1>5. Pending' = Pending \union {irq}
  <2>1. ASSUME NEW j \in Irqs
        PROVE  LineOf(j) \in pic'[ChipOf(j)].irr <=>
               LineOf(j) \in pic[ChipOf(j)].irr \/ j = irq
    <3>1. /\ ChipOf(j) \in Chips
          /\ ChipOf(j) = ChipOf(irq) /\ LineOf(j) = LineOf(irq) <=> j = irq
      BY <1>1, IrqLines
    <3> QED
      BY <1>4, <3>1
  <2> QED
    BY <1>1, <2>1 DEF Pending
<1>6. Bound' = Bound
  BY <1>3, <1>4, BoundKept
<1>7. Booting' = Booting /\ Active' = Active
  BY <1>3 DEF Booting, Active, HandlingIrq, DriverOf, Irq
<1> QED
  BY <1>1, <1>5, <1>6, <1>7, SignalMaps

\* What a request that the master delivers, or the slave, comes before.
LEMMA DeliveredFirst ==
  ASSUME IInv, Interruptible, NEW j \in Pending, Bound[j] # NULL
  PROVE  /\ j \in Irqs \ {I8259_SLAVE_IRQ}
         /\ j < 8 => j \in MasterDeliverable
         /\ j >= 8 => I8259_SLAVE_IRQ \in MasterDeliverable /\ j - 8 \in SlaveDeliverable
<1>1. /\ j \in Irqs /\ LineOf(j) \in pic[ChipOf(j)].irr \ pic[ChipOf(j)].mask
  BY DEF Pending, Bound
<1>2. /\ \A c \in Chips : pic[c].icw = 0 /\ pic[c].isr = {}
      /\ Cascaded /\ I8259_SLAVE_IRQ \notin pic["master"].mask
  BY InterruptibleFacts
<1>3. CASE j < 8
  <2>1. ChipOf(j) = "master" /\ LineOf(j) = j /\ "master" \in Chips
    BY <1>1, <1>3, IrqLines DEF Lines, Irqs, I8259_NO_IRQS, Chips
  <2>2. j # I8259_SLAVE_IRQ
    BY <1>1, <2>1 DEF IInv, RequestsInv
  <2> QED
    BY <1>1, <1>2, <1>3, <2>1, <2>2 DEF MasterDeliverable, Deliverable, Irqs, I8259_NO_IRQS
<1>4. CASE j >= 8
  <2>1. ChipOf(j) = "slave" /\ LineOf(j) = j - 8 /\ "slave" \in Chips /\ "master" \in Chips
    BY <1>1, <1>4 DEF Irqs, I8259_NO_IRQS, Chips, ChipOf, LineOf
  <2>2. j - 8 \in SlaveDeliverable
    BY <1>1, <1>2, <2>1 DEF SlaveDeliverable, Deliverable
  <2>3. I8259_SLAVE_IRQ \in MasterDeliverable
    BY <1>2, <2>1, <2>2 DEF MasterDeliverable, Deliverable
  <2> QED
    BY <1>1, <1>4, <2>2, <2>3 DEF I8259_SLAVE_IRQ, Irqs, I8259_NO_IRQS
<1> QED
  BY <1>1, <1>3, <1>4 DEF Irqs, I8259_NO_IRQS

\* Entering the interrupt of a request calls the driver bound to its line.
LEMMA EnterCalls ==
  ASSUME IInv, Interruptible, NEW irq \in Irqs \ {I8259_SLAVE_IRQ},
         Enter(IDT_IRQ_BASE + irq, irq, FALSE), Complete(irq),
         LineOf(irq) \in pic[ChipOf(irq)].irr \ pic[ChipOf(irq)].mask,
         \A c \in Chips :
           /\ pic'[c].mask = pic[c].mask
           /\ pic'[c].irr = IF c = ChipOf(irq) THEN pic[c].irr \ {LineOf(irq)}
                            ELSE pic[c].irr,
         \A j \in Pending : Bound[j] # NULL => Service!Rank(irq) <= Service!Rank(j)
  PROVE  [Service!INext]_(Service!ivars)
<1>1. /\ service = Idle /\ ~ Booting
      /\ service' = [step |-> "entry", int_no |-> IDT_IRQ_BASE + irq, irq |-> irq,
                     spurious |-> FALSE]
      /\ UNCHANGED <<irq_handlers, task>>
  BY InterruptibleFacts DEF Interruptible, Enter
<1>2. Bound' = Bound
  BY <1>1, BoundKept
<1>3. Bound[irq] = DriverOf(irq) /\ DriverOf(irq) \in Drivers
  BY DEF Bound, DriverOf, Complete
<1>4. Active = <<>>
  BY <1>1, IdleIsInactive
<1>5. Active' = <<irq, Bound[irq]>>
  <2>1. service'.step = "entry" /\ service'.int_no = IDT_IRQ_BASE + irq
        /\ service'.irq = irq /\ ~ service'.spurious /\ service' # Idle
    BY <1>1 DEF Idle
  <2>2. IDT_IRQ_BASE + irq \in 32 .. 47 /\ irq \in 0 .. 15
    BY DEF IDT_IRQ_BASE, Irqs, I8259_NO_IRQS
  <2>3. HandlingIrq' /\ Irq' = irq
    BY <2>1, <2>2 DEF HandlingIrq, Irq, IsrVectors, IDT_IRQ_BASE
  <2>4. Active' = <<irq, DriverOf(Irq)'>>
    BY <2>1, <2>3 DEF Active
  <2>5. DriverOf(Irq)' = DriverOf(irq)
    BY <1>1, <2>3 DEF DriverOf
  <2> QED
    BY <1>3, <2>4, <2>5
<1>6. irq \in Pending /\ Pending' = Pending \ {irq}
  <2>1. \A j \in Irqs : LineOf(j) \in pic'[ChipOf(j)].irr <=>
                        LineOf(j) \in pic[ChipOf(j)].irr /\ j # irq
    BY IrqLines
  <2> QED
    BY <2>1 DEF Pending
<1>7. Booting' = Booting
  BY <1>1 DEF Booting
<1> QED
  BY <1>1, <1>2, <1>3, <1>4, <1>5, <1>6, <1>7, CallMaps, InterruptsAssumption

LEMMA AcknowledgeMasterRefines ==
  ASSUME IInv, NEW l \in Lines, AcknowledgeMaster(l)
  PROVE  [Service!INext]_(Service!ivars)
<1>1. /\ Interruptible /\ l # I8259_SLAVE_IRQ /\ l \in Irqs
      /\ ChipOf(l) = "master" /\ LineOf(l) = l
      /\ l \in pic["master"].irr \ pic["master"].mask
      /\ Complete(l)
      /\ pic' = [pic EXCEPT !["master"].irr = @ \ {l}, !["master"].isr = @ \union {l}]
      /\ Enter(IDT_IRQ_BASE + l, l, FALSE)
  BY AcknowledgeMasterFacts
<1>2. \A k \in MasterDeliverable : l <= k
  BY DEF AcknowledgeMaster, First
<1>3. \A c \in Chips : /\ pic'[c].mask = pic[c].mask
                       /\ pic'[c].irr = IF c = "master" THEN pic[c].irr \ {l}
                                        ELSE pic[c].irr
  <2>1. pic \in [Chips -> Controller]
    BY PicTyped DEF IInv
  <2>2. /\ SameSetup /\ pic'["slave"] = pic["slave"]
        /\ pic'["master"].irr = pic["master"].irr \ {l}
    BY <1>1, <2>1, MasterAcknowledges
  <2> QED
    BY <2>2 DEF SameSetup, Chips
<1>4. ASSUME NEW j \in Pending, Bound[j] # NULL
      PROVE  Service!Rank(l) <= Service!Rank(j)
  <2>1. /\ j \in 0 .. 15 /\ j # 2
        /\ j < 8 => l <= j
        /\ j >= 8 => l <= 2
    BY <1>1, <1>2, <1>4, DeliveredFirst DEF I8259_SLAVE_IRQ, Irqs, I8259_NO_IRQS
  <2>2. l \in 0 .. 7 /\ l # 2
    BY <1>1 DEF Lines, I8259_SLAVE_IRQ
  <2> QED
    BY <2>1, <2>2 DEF Service!Rank
<1> QED
  BY <1>1, <1>3, <1>4, EnterCalls

LEMMA AcknowledgeSlaveRefines ==
  ASSUME IInv, NEW l \in Lines, AcknowledgeSlave(l)
  PROVE  [Service!INext]_(Service!ivars)
<1>1. /\ Interruptible /\ 8 + l \in Irqs \ {I8259_SLAVE_IRQ}
      /\ ChipOf(8 + l) = "slave" /\ LineOf(8 + l) = l
      /\ l \in pic["slave"].irr \ pic["slave"].mask
      /\ Complete(8 + l)
      /\ pic' = [pic EXCEPT !["master"].isr = @ \union {I8259_SLAVE_IRQ},
                            !["slave"].irr = @ \ {l}, !["slave"].isr = @ \union {l}]
      /\ Enter(IDT_IRQ_BASE + (8 + l), 8 + l, FALSE)
  BY AcknowledgeSlaveFacts
<1>2. /\ \A k \in MasterDeliverable : I8259_SLAVE_IRQ <= k
      /\ \A k \in SlaveDeliverable : l <= k
  BY DEF AcknowledgeSlave, First
<1>3. \A c \in Chips : /\ pic'[c].mask = pic[c].mask
                       /\ pic'[c].irr = IF c = "slave" THEN pic[c].irr \ {l}
                                        ELSE pic[c].irr
  <2>1. pic \in [Chips -> Controller]
    BY PicTyped DEF IInv
  <2>2. /\ pic'["master"] = [pic["master"] EXCEPT !.isr = @ \union {I8259_SLAVE_IRQ}]
        /\ pic'["slave"] = [pic["slave"] EXCEPT !.irr = @ \ {l}, !.isr = @ \union {l}]
    BY <1>1, <2>1 DEF Chips
  <2>3. /\ pic["master"] \in Controller /\ pic["slave"] \in Controller
    BY <2>1 DEF Chips
  <2>4. pic'["slave"].mask = pic["slave"].mask /\ pic'["slave"].irr = pic["slave"].irr \ {l}
    <3> DEFINE p == pic["slave"]
    <3>1. pic'["slave"] = [icw |-> p.icw, base |-> p.base, cascade |-> p.cascade,
                           mask |-> p.mask, irr |-> p.irr \ {l}, isr |-> p.isr \union {l}]
      BY <2>2, <2>3 DEF Controller
    <3> QED
      BY <3>1
  <2>5. /\ pic'["master"].mask = pic["master"].mask
        /\ pic'["master"].irr = pic["master"].irr
    BY <2>2, <2>3 DEF Controller
  <2> QED
    BY <2>4, <2>5 DEF Chips
<1>4. ASSUME NEW j \in Pending, Bound[j] # NULL
      PROVE  Service!Rank(8 + l) <= Service!Rank(j)
  <2>1. /\ j \in 0 .. 15 /\ j # 2
        /\ j < 8 => 2 <= j
        /\ j >= 8 => l <= j - 8
    BY <1>1, <1>2, <1>4, DeliveredFirst DEF I8259_SLAVE_IRQ, Irqs, I8259_NO_IRQS
  <2>2. l \in 0 .. 7
    BY DEF Lines
  <2> QED
    BY <2>1, <2>2 DEF Service!Rank
<1> QED
  BY <1>1, <1>3, <1>4, EnterCalls

\* A spurious interrupt calls nobody for a request.
LEMMA SpuriousRefines ==
  ASSUME IInv, SpuriousMaster \/ SpuriousSlave
  PROVE  [Service!INext]_(Service!ivars)
<1>1. /\ service = Idle /\ service'.spurious
      /\ UNCHANGED <<irq_handlers, task>>
  BY DEF SpuriousMaster, SpuriousSlave, Enter, Interruptible
<1>2. \A c \in Chips : pic'[c].mask = pic[c].mask /\ pic'[c].irr = pic[c].irr
  <2>1. CASE SpuriousMaster
    BY <2>1 DEF SpuriousMaster
  <2>2. CASE SpuriousSlave
    <3>1. pic \in [Chips -> Controller]
      BY PicTyped DEF IInv
    <3>2. pic' = [pic EXCEPT !["master"].isr = @ \union {I8259_SLAVE_IRQ}]
      BY <2>2 DEF SpuriousSlave
    <3> QED
      BY <3>1, <3>2 DEF Controller, Chips
  <2> QED
    BY <2>1, <2>2
<1>3. Active = <<>> /\ Active' = <<>>
  BY <1>1, IdleIsInactive DEF Active
<1>4. Bound' = Bound /\ Pending' = Pending /\ Booting' = Booting
  BY <1>1, <1>2, BoundKept, PendingKept DEF Booting
<1> QED
  BY <1>3, <1>4, StutterMaps

LEMMA ExceptionRefines ==
  ASSUME IInv, Exception(13)
  PROVE  [Service!INext]_(Service!ivars)
<1>1. /\ service'.int_no = 13 /\ UNCHANGED <<irq_handlers, pic, task>>
  BY DEF Exception, Enter
<1>2. Active' = <<>>
  BY <1>1 DEF Active, HandlingIrq, IDT_IRQ_BASE
<1>3. Bound' = Bound /\ Pending' = Pending /\ Booting' = Booting
  BY <1>1, BoundKept, PendingKept DEF Booting
<1> QED
  BY <1>2, <1>3, ReturnMaps

LEMMA InterruptCodeRefines ==
  ASSUME IInv, InterruptCode
  PROVE  [Service!INext]_(Service!ivars)
<1>1. CASE IsrMainPanics
  <2>1. /\ ~ HandlingIrq /\ service' = Idle /\ service.step = "entry"
        /\ task' = [task EXCEPT !.step = "panic"] /\ UNCHANGED <<irq_handlers, pic>>
    <3>1. service.int_no \in Nat
      BY DEF IInv, TypeOK
    <3> QED
      BY <1>1, <3>1 DEF IsrMainPanics, HandlingIrq, IDT_IRQ_BASE
  <2>2. ~ Booting
    BY <2>1 DEF IInv, ServiceInv
  <2>3. ~ Booting'
    BY <2>1 DEF IInv, TypeOK, Booting
  <2>4. Active' = <<>> /\ Booting' = Booting
    BY <2>1, <2>2, <2>3, IdleIsInactive DEF Booting
  <2>5. Bound' = Bound /\ Pending' = Pending
    BY <2>1, BoundKept, PendingKept
  <2> QED
    BY <2>4, <2>5, ReturnMaps
<1>2. CASE SendEoiSlave \/ SendEoiMaster
  <2>1. PICK chip \in Chips, step \in {"slave_done", "execute"} :
          /\ HandlingIrq /\ service.step \in {"entry", "slave_done"}
          /\ pic' = [pic EXCEPT ![chip] = CmdWritten(pic[chip], I8259_EOI_CMD)]
          /\ service' = [service EXCEPT !.step = step]
          /\ UNCHANGED <<irq_handlers, task>>
    BY <1>2 DEF SendEoiSlave, SendEoiMaster, MasterEoiIsDue, Chips
  <2>2. \A c \in Chips : pic'[c].mask = pic[c].mask /\ pic'[c].irr = pic[c].irr
    <3>1. pic \in [Chips -> Controller] /\ pic[chip] \in Controller
      BY PicTyped DEF IInv
    <3>2. /\ CmdWritten(pic[chip], I8259_EOI_CMD).mask = pic[chip].mask
          /\ CmdWritten(pic[chip], I8259_EOI_CMD).irr = pic[chip].irr
      BY <3>1, EoiCommand
    <3> QED
      BY <2>1, <3>1, <3>2
  <2>3. /\ service'.step # "idle" /\ service'.irq = service.irq
        /\ service'.int_no = service.int_no /\ service'.spurious = service.spurious
    BY <2>1 DEF IInv, TypeOK
  <2>4. service' # Idle /\ service # Idle
    BY <2>1, <2>3 DEF Idle
  <2>5. Active' = Active
    BY <2>1, <2>3, <2>4 DEF Active, HandlingIrq, Irq, DriverOf
  <2>6. Bound' = Bound /\ Pending' = Pending /\ Booting' = Booting
    BY <2>1, <2>2, BoundKept, PendingKept DEF Booting
  <2> QED
    BY <2>5, <2>6, StutterMaps
<1>3. CASE IrqHandlerReturns
  <2>1. service' = Idle /\ UNCHANGED <<irq_handlers, pic, task>>
    BY <1>3 DEF IrqHandlerReturns
  <2>2. Active' = <<>> /\ Bound' = Bound /\ Pending' = Pending /\ Booting' = Booting
    BY <2>1, IdleIsInactive, BoundKept, PendingKept DEF Booting
  <2> QED
    BY <2>2, ReturnMaps
<1> QED
  BY <1>1, <1>2, <1>3 DEF InterruptCode

\* Before the controllers are set up nobody is bound, and requests may be forgotten.
LEMMA BootRefines ==
  ASSUME IInv, CpuInit \/ I8259Init
  PROVE  [Service!INext]_(Service!ivars)
<1>1. /\ service = Idle /\ service' = Idle /\ task.step \in {"start", "pics"}
      /\ CpuInit => pic' = pic
  BY DEF CpuInit, I8259Init, Runs
<1>2. /\ Booting
      /\ irq_handlers = [irq \in Irqs |-> [fn |-> NULL, arg |-> NULL]]
      /\ irq_handlers' = irq_handlers
  BY <1>1 DEF IInv, BootInv, Booting, CpuInit, I8259Init
<1>3. \A c \in Chips : pic'[c].irr \subseteq pic[c].irr
  <2>1. CASE CpuInit
    BY <1>1, <2>1
  <2>2. CASE I8259Init
    <3>1. /\ pic \in [Chips -> Controller] /\ task.word \in 1 .. 10
          /\ WordsWritten(task.word)
      BY <1>2, <2>2, PicTyped DEF IInv, BootInv, I8259Init, Runs
    <3>2. PICK w \in 1 .. 10 : w = task.word
      BY <3>1
    <3> QED
      BY <2>2, <3>1, <3>2, WordWritten
  <2> QED
    BY <2>1, <2>2
<1>4. Pending' \subseteq Pending
  BY <1>3, IrqLines DEF Pending
<1>5. Bound' = Bound
  <2>1. \A irq \in Irqs : DriverOf(irq) = NULL /\ DriverOf(irq)' = NULL
    BY <1>2 DEF DriverOf
  <2>2. Bound = [irq \in Irqs |-> NULL]
    BY <2>1 DEF Bound
  <2>3. Bound' = [irq \in Irqs |-> NULL]
    BY <2>1 DEF Bound
  <2> QED
    BY <2>2, <2>3
<1>6. Active = <<>> /\ Active' = <<>>
  BY <1>1, IdleIsInactive
<1>7. Booting' \in BOOLEAN
  BY DEF Booting
<1> QED
  BY <1>2, <1>4, <1>5, <1>6, <1>7, SetUpMaps

\* Registering and disabling bind a driver to a line at most.
LEMMA StoreRefines ==
  ASSUME IInv, StoreFn \/ StoreArg
  PROVE  [Service!INext]_(Service!ivars)
<1>1. /\ service = Idle /\ service' = Idle /\ pic' = pic
      /\ task.step \in {"fn", "arg"} /\ task'.step \in {"arg", "enable"}
  BY DEF StoreFn, StoreArg, Runs, IInv, TypeOK
<1>2. PICK field \in {"fn", "arg"} : Store(field)
  BY DEF StoreFn, StoreArg
<1>3. Active = <<>> /\ Active' = <<>> /\ Pending' = Pending /\ Booting' = Booting
  BY <1>1, IdleIsInactive, PendingKept DEF Booting
<1>4. CASE task.irq \in Irqs
  <2>1. irq_handlers' = [irq_handlers EXCEPT ![task.irq][field] = task.driver]
    BY <1>2, <1>4 DEF Store
  <2>2. \A j \in Irqs \ {task.irq} : irq_handlers'[j] = irq_handlers[j]
    BY <2>1 DEF IInv, TypeOK
  <2>3. \A j \in Irqs \ {task.irq} : Bound'[j] = Bound[j]
    BY <1>1, <2>2 DEF Bound, DriverOf
  <2> QED
    BY <1>3, <1>4, <2>3, BindMaps
<1>5. CASE task.irq \notin Irqs
  <2>1. irq_handlers' = irq_handlers
    BY <1>2, <1>5 DEF Store
  <2> QED
    BY <1>1, <1>3, <2>1, BoundKept, StutterMaps
<1> QED
  BY <1>4, <1>5

LEMMA UpdateImrRefines ==
  ASSUME IInv, UpdateImr
  PROVE  [Service!INext]_(Service!ivars)
<1>1. /\ service = Idle /\ service' = Idle /\ ~ Booting
      /\ task.step = "port" /\ task.irq \in Irqs
      /\ irq_handlers' = irq_handlers /\ task'.step = "run"
      /\ \A c \in Chips : pic'[c].irr = pic[c].irr /\ pic'[c].mask = imr[c]
  BY UpdateImrFacts
<1>2. /\ Active = <<>> /\ Active' = <<>> /\ Pending' = Pending
      /\ Booting' = Booting
  BY <1>1, IdleIsInactive, PendingKept DEF Booting
<1>3. ASSUME NEW j \in Irqs \ {task.irq} PROVE Bound'[j] = Bound[j]
  <2>1. LineOf(j) \in pic[ChipOf(j)].mask <=> ImrBit(j) \in imr[ChipOf(j)]
    BY <1>1 DEF IInv, TaskInv
  <2>2. LineOf(j) \in pic'[ChipOf(j)].mask <=> LineOf(j) \in pic[ChipOf(j)].mask
    BY <1>1, <2>1, IrqLines
  <2>3. DriverOf(j)' = DriverOf(j)
    BY <1>1 DEF DriverOf
  <2> QED
    BY <2>2, <2>3 DEF Bound
<1> QED
  BY <1>1, <1>2, <1>3, BindMaps

LEMMA InitRefines == Init => Service!IInit
<1> SUFFICES ASSUME Init PROVE Service!IInit
  OBVIOUS
<1>1. Booting /\ service = Idle
  BY DEF Init, Booting
<1>2. Pending = {}
  BY IrqLines DEF Init, Pending
<1>3. Bound = [irq \in Irqs |-> NULL]
  <2>1. \A irq \in Irqs : DriverOf(irq) = NULL
    BY DEF Init, DriverOf
  <2> QED
    BY <2>1 DEF Bound
<1>4. Active = <<>>
  BY <1>1, IdleIsInactive
<1> QED
  BY <1>1, <1>2, <1>3, <1>4 DEF Service!IInit, Pending, Bound, Active

LEMMA StepRefines ==
  ASSUME IInv, [Next]_vars
  PROVE  [Service!INext]_(Service!ivars)
<1>1. CASE \/ CpuEnableInterrupts \/ CpuHalt \/ I8259EnableIrq \/ UNCHANGED vars
           \/ \E irq \in ClientIrqs, driver \in Drivers : RegisterIrq(irq, driver)
           \/ \E irq \in ClientIrqs : I8259DisableIrq(irq)
  <2>1. UNCHANGED <<irq_handlers, pic, service>>
    BY <1>1
    DEF CpuEnableInterrupts, CpuHalt, I8259EnableIrq, RegisterIrq, I8259DisableIrq, vars
  <2>2. Booting' = Booting
    <3>1. task' = task \/ (/\ task.step \in {"panic", "enable", "run"}
                          /\ task'.step \in {"halted", "port", "panic", "fn"})
      <4>1. DOMAIN task = {"step", "word", "irq", "driver"}
        BY DEF IInv, TypeOK
      <4> QED
        BY <1>1, <4>1
        DEF CpuEnableInterrupts, CpuHalt, I8259EnableIrq, RegisterIrq, I8259DisableIrq,
            vars, Runs
    <3> QED
      BY <3>1 DEF Booting
  <2>3. Active' = Active
    BY <2>1 DEF Active, HandlingIrq, Irq, DriverOf
  <2> QED
    BY <2>1, <2>2, <2>3, BoundKept, PendingKept, StutterMaps
<1>2. CASE /\ Next
           /\ ~ (\/ CpuEnableInterrupts \/ CpuHalt \/ I8259EnableIrq \/ UNCHANGED vars
                 \/ \E irq \in ClientIrqs, driver \in Drivers : RegisterIrq(irq, driver)
                 \/ \E irq \in ClientIrqs : I8259DisableIrq(irq))
  BY <1>2, RaiseRefines, AcknowledgeMasterRefines, AcknowledgeSlaveRefines,
     SpuriousRefines, ExceptionRefines, InterruptCodeRefines, BootRefines, StoreRefines,
     UpdateImrRefines
  DEF Next, Acknowledge
<1> QED
  BY <1>1, <1>2

\* Every request of a device waits until the handler bound to its line is called for
\* it, once; handlers run one at a time, in the order of priority.
THEOREM InterruptsImplementService == Spec => ImplementsService
<1>1. IInv /\ [Next]_vars => [Service!INext]_(Service!ivars)
  BY StepRefines
<1> QED
  BY <1>1, InitRefines, InductiveInvariant, PTL
  DEF Spec, ImplementsService, Service!ISpec

==============================================================================
