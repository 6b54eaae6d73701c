-------------------------- MODULE DescriptorTables --------------------------
(***************************************************************************)
(* The segment and interrupt tables: gdt_init and idt_init of cpu_init     *)
(* with gdt_asm.S and idt_asm.S, and then interrupts on any vector through *)
(* the tables and the stubs of interrupts_asm.S.  Words are sets of bits.  *)
(* What the processor makes of a descriptor is modelled from the i386 and  *)
(* says when it faults.  The entry points are abstract addresses above     *)
(* 1 MiB, where the kernel is linked.  Boot composes this with the rest.   *)
(***************************************************************************)
EXTENDS Integers, Sequences

VARIABLES
  gdt, idt,    \* the tables in memory
  gdtr, idtr,  \* which table the processor uses, and its limit
  segments,    \* the descriptor loaded in each segment register
  pc,          \* the step the code is at, and the entry it works on
  stack,       \* what an interrupt has pushed, top first
  faulted      \* the processor found no use for a descriptor, and was reset

vars == <<gdt, idt, gdtr, idtr, segments, pc, stack, faulted>>

Bits(n) == {b \in 0 .. 30 : (n \div 2^b) % 2 = 1}
ShiftLeft(bits, n) == {b + n : b \in bits}

GDT_SIZE == 3
IDT_SIZE == 256
GDT_CODE_SEGMENT_INDEX == 1
GDT_DATA_SEGMENT_INDEX == 2
SelectorOf(index) == ShiftLeft(Bits(index), 3)

CPU_SEG_S_FLAG == {12}
CPU_SEG_P_FLAG == {15}
CPU_SEG_DB_FLAG == {22}
CPU_SEG_G_FLAG == {23}
GDT_SEG_DATA_RW == {9}
GDT_SEG_CODE_RX == {9, 11}
IDT_SEG_INT_GATE == {9, 10, 11}

ZeroDescriptor == [low |-> {}, high |-> {}]

SegmentDescriptor(access) ==
  [low  |-> 0 .. 15,
   high |-> (16 .. 19) \union CPU_SEG_S_FLAG \union CPU_SEG_P_FLAG
            \union CPU_SEG_DB_FLAG \union CPU_SEG_G_FLAG \union access]

GdtDescriptor(index) ==
  CASE index = GDT_CODE_SEGMENT_INDEX -> SegmentDescriptor(GDT_SEG_CODE_RX)
    [] index = GDT_DATA_SEGMENT_INDEX -> SegmentDescriptor(GDT_SEG_DATA_RW)
    [] OTHER -> ZeroDescriptor

\* isr_0 to isr_47, and idt_default_interrupt_handler.
Isr(n) == {20} \union Bits(16 * n)
DefaultHandler == {13, 20}

\* idt_interrupt_gate_descriptor_init
Gate(entry_fn) ==
  [low  |-> (entry_fn \intersect 0 .. 15) \union ShiftLeft(SelectorOf(GDT_CODE_SEGMENT_INDEX), 16),
   high |-> (entry_fn \intersect 16 .. 31) \union CPU_SEG_P_FLAG \union IDT_SEG_INT_GATE]

\* The entries idt_init sets one by one.
IsrVectors == (0 .. 21) \union (32 .. 47)

\* cpu_pseudo_descriptor_init: the offset of the last byte, in 16 bits.
LimitOfEntries(entries) == (8 * entries - 1) % 2^16

\* load_gdt, after lgdt: five moves and a far jump.
SegmentLoads == <<"ds", "es", "fs", "gs", "ss", "cs">>

-----------------------------------------------------------------------------
(* The processor. *)

Within(register, index) == 8 * index + 7 <= register.limit

IsSegment(desc) == {12, 15} \subseteq desc.high
IsCode(desc) == IsSegment(desc) /\ 11 \in desc.high
IsWritableData(desc) == IsSegment(desc) /\ 11 \notin desc.high /\ 9 \in desc.high

\* Base 0, 4 GiB in pages, 32 bits, privilege 0.
IsFlat(desc) ==
  /\ desc.low \intersect (16 .. 31) = {} /\ desc.high \intersect (0 .. 7 \union 24 .. 31) = {}
  /\ 0 .. 15 \subseteq desc.low /\ 16 .. 19 \subseteq desc.high
  /\ {22, 23} \subseteq desc.high
  /\ desc.high \intersect {13, 14} = {}

\* A present gate of 32 bits that clears IF and leads to a code segment.
IsInterruptGate(desc) ==
  /\ desc.high \intersect (5 .. 15) = {9, 10, 11, 15}
  /\ \E index \in 0 .. GDT_SIZE - 1 :
       /\ desc.low \intersect (16 .. 31) = ShiftLeft(SelectorOf(index), 16)
       /\ Within(gdtr, index) /\ IsCode(gdt[index])

OffsetOf(desc) == (desc.low \intersect 0 .. 15) \union (desc.high \intersect 16 .. 31)

\* The exceptions for which the processor pushes an error code.
ErrorCodeVectors == {8, 10, 11, 12, 13, 14, 17, 21}

Loader == [low |-> 0 .. 15, high |-> {8, 9, 12, 15, 22, 23} \union 16 .. 19]

-----------------------------------------------------------------------------
\* The loader has flat segments loaded and tables of its own, which may be gone.
Init ==
  /\ gdt = [i \in 0 .. GDT_SIZE - 1 |-> ZeroDescriptor]
  /\ idt = [i \in 0 .. IDT_SIZE - 1 |-> ZeroDescriptor]
  /\ gdtr = [table |-> "loader", limit |-> 0] /\ idtr = [table |-> "loader", limit |-> 0]
  /\ segments = [r \in {"cs", "ds", "es", "fs", "gs", "ss"} |-> Loader]
  /\ pc = [step |-> "gdt", i |-> 0]
  /\ stack = <<>> /\ faulted = FALSE

At(step) == pc.step = step /\ ~ faulted
GoTo(step, i) == pc' = [step |-> step, i |-> i]

GdtDescriptorsInit ==
  /\ At("gdt")
  /\ gdt' = [i \in 0 .. GDT_SIZE - 1 |-> GdtDescriptor(i)]
  /\ GoTo("lgdt", 0)
  /\ UNCHANGED <<idt, gdtr, idtr, segments, stack, faulted>>

LoadGdt ==
  /\ At("lgdt")
  /\ gdtr' = [table |-> "gdt", limit |-> LimitOfEntries(GDT_SIZE)]
  /\ GoTo("segments", 1)
  /\ UNCHANGED <<gdt, idt, idtr, segments, stack, faulted>>

\* A segment register is loaded; the processor faults on a descriptor of the wrong kind.
LoadSegment ==
  /\ At("segments")
  /\ LET register == SegmentLoads[pc.i]
         index == IF register = "cs" THEN GDT_CODE_SEGMENT_INDEX ELSE GDT_DATA_SEGMENT_INDEX
         fits == IF register = "cs" THEN IsCode(gdt[index]) ELSE IsWritableData(gdt[index])
     IN  /\ segments' = [segments EXCEPT ![register] = gdt[index]]
         /\ faulted' = ~ (gdtr.table = "gdt" /\ Within(gdtr, index) /\ fits)
  /\ IF pc.i < Len(SegmentLoads) THEN GoTo("segments", pc.i + 1) ELSE GoTo("default", 0)
  /\ UNCHANGED <<gdt, idt, gdtr, idtr, stack>>

\* idt_init: every entry gets the default handler ...
IdtDefault ==
  /\ At("default")
  /\ idt' = [i \in 0 .. IDT_SIZE - 1 |-> Gate(DefaultHandler)]
  /\ GoTo("isr", 0)
  /\ UNCHANGED <<gdt, gdtr, idtr, segments, stack, faulted>>

\* ... then those with an entry point theirs.
InitIdtEntries ==
  /\ At("isr")
  /\ idt' = [i \in DOMAIN idt |-> IF i \in IsrVectors THEN Gate(Isr(i)) ELSE idt[i]]
  /\ GoTo("lidt", 0)
  /\ UNCHANGED <<gdt, gdtr, idtr, segments, stack, faulted>>

LoadIdt ==
  /\ At("lidt")
  /\ idtr' = [table |-> "idt", limit |-> LimitOfEntries(IDT_SIZE)]
  /\ GoTo("run", 0)
  /\ UNCHANGED <<gdt, idt, gdtr, segments, stack, faulted>>

\* The processor takes vector v: it pushes where the code was, and an error code for
\* some exceptions, and goes where the gate says.
Interrupt(v) ==
  /\ At("run")
  /\ IF Within(idtr, v) /\ IsInterruptGate(idt[v])
     THEN /\ stack' = (IF v \in ErrorCodeVectors THEN <<"error">> ELSE <<>>)
                        \o <<"eip", "cs", "eflags">>
          /\ GoTo(IF OffsetOf(idt[v]) = DefaultHandler THEN "halted" ELSE "stub", v)
          /\ UNCHANGED faulted
     ELSE faulted' = TRUE /\ UNCHANGED <<stack, pc>>
  /\ UNCHANGED <<gdt, idt, gdtr, idtr, segments>>

\* Variant: the last stub is declared like that of vector 21.
IsrWithErrorLast == {8, 10, 11, 12, 13, 14, 17, 21, 47}

\* The vectors declared with ISR_WITH_ERROR.
IsrWithError == {8, 10, 11, 12, 13, 14, 17, 21}

\* The stub the gate led to, n, up to isr_main: it pushes a dummy error code if it was
\* declared so, and n.
Stub ==
  /\ At("stub")
  /\ \E n \in IsrVectors :
       /\ Isr(n) = OffsetOf(idt[pc.i])
       /\ stack' = <<n>> \o (IF n \in IsrWithError THEN <<>> ELSE <<"error">>) \o stack
  /\ GoTo("isr_main", pc.i)
  /\ UNCHANGED <<gdt, idt, gdtr, idtr, segments, faulted>>

\* isr_main panics on an exception; else isr_common drops number and error code.
IsrMain ==
  /\ At("isr_main")
  /\ IF stack[1] < 32
     THEN GoTo("halted", pc.i) /\ UNCHANGED stack
     ELSE GoTo("iret", pc.i) /\ stack' = SubSeq(stack, 3, Len(stack))
  /\ UNCHANGED <<gdt, idt, gdtr, idtr, segments, faulted>>

\* iret pops three words.
Iret ==
  /\ At("iret")
  /\ stack' = SubSeq(stack, 4, Len(stack))
  /\ faulted' = (SubSeq(stack, 1, 3) # <<"eip", "cs", "eflags">>)
  /\ GoTo("run", 0)
  /\ UNCHANGED <<gdt, idt, gdtr, idtr, segments>>

-----------------------------------------------------------------------------
\* Every variable has its type, descriptors have bits of 32, and no store goes past a table.
TypeOK ==
  /\ \A t \in {gdt[i] : i \in DOMAIN gdt} \union {idt[i] : i \in DOMAIN idt} :
       t.low \subseteq 0 .. 31 /\ t.high \subseteq 0 .. 31
  /\ DOMAIN gdt = 0 .. GDT_SIZE - 1 /\ DOMAIN idt = 0 .. IDT_SIZE - 1
  /\ gdtr.limit \in 0 .. 2^16 - 1 /\ idtr.limit \in 0 .. 2^16 - 1
  /\ pc.i \in 0 .. IDT_SIZE - 1

\* Neither a segment load, nor an interrupt on any vector, nor the return from one finds
\* a descriptor or a stack the processor cannot use.
NeverFaults == ~ faulted

\* From load_gdt on every segment register has one of the kernel's segments: all of
\* memory at base 0 for the kernel's privilege, as the loader had it.
SegmentsAreFlat ==
  pc.step \notin {"gdt", "lgdt", "segments"} =>
    \A r \in DOMAIN segments :
      /\ segments[r] \in {gdt[i] : i \in DOMAIN gdt}
      /\ IsFlat(segments[r])
      /\ IF r = "cs" THEN IsCode(segments[r]) ELSE IsWritableData(segments[r])

\* Once idt_init has returned the table has a usable gate for each of the 256 vectors:
\* its own entry point for those that Interrupts takes to have one, else the default.
EveryVectorHasItsGate ==
  idtr.table = "idt" =>
    \A v \in 0 .. 255 :
      /\ Within(idtr, v) /\ IsInterruptGate(idt[v])
      /\ OffsetOf(idt[v]) = IF v \in (0 .. 21) \union (32 .. 47) THEN Isr(v) ELSE DefaultHandler

\* Whichever of the 38 stubs a vector led to, those of the 16 lines included, isr_main finds
\* the same frame: the number of the vector, an error code, real or not, and the state of
\* the interrupted code.
FrameIsUniform ==
  pc.step = "isr_main" => stack = <<pc.i, "error", "eip", "cs", "eflags">>

\* The way into the kernel from any vector: flat segments, the vector's gate, and in
\* isr_main, where the gates of 38 vectors lead, one layout of the frame.
InterruptsEnterIsrMain == SegmentsAreFlat /\ EveryVectorHasItsGate /\ FrameIsUniform
=============================================================================
