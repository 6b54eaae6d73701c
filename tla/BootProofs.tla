------------------------------ MODULE BootProofs ------------------------------
(***************************************************************************)
(* Proofs about the boot, for every set of devices and of raised vectors,  *)
(* everything the firmware may leave behind and every length of a message. *)
(***************************************************************************)
EXTENDS Boot, SequenceTheorems, TLAPS

-----------------------------------------------------------------------------
(* Bits. *)

LEMMA Powers ==
  /\ 2^0 = 1 /\ 2^1 = 2 /\ 2^2 = 4 /\ 2^3 = 8 /\ 2^4 = 16 /\ 2^5 = 32 /\ 2^6 = 64
  /\ 2^7 = 128 /\ 2^8 = 256 /\ 2^9 = 512 /\ 2^10 = 1024 /\ 2^11 = 2048 /\ 2^12 = 4096
  /\ 2^13 = 8192 /\ 2^14 = 16384 /\ 2^15 = 32768 /\ 2^16 = 65536
OBVIOUS

\* The selector of the code segment.
LEMMA CodeSelector == ShiftLeft(SelectorOf(GDT_CODE_SEGMENT_INDEX), 16) = {19}
<1>1. Bits(1) = {0}
  <2> DEFINE power(b) == 2^b
  <2>1. /\ power(0) = 1 /\ power(1) = 2 /\ power(2) = 4
        /\ power(3) = 8 /\ power(4) = 16 /\ power(5) = 32
        /\ power(6) = 64 /\ power(7) = 128 /\ power(8) = 256
        /\ power(9) = 512 /\ power(10) = 1024 /\ power(11) = 2048
        /\ power(12) = 4096 /\ power(13) = 8192 /\ power(14) = 16384
        /\ power(15) = 32768 /\ power(16) = 65536 /\ power(17) = 131072
        /\ power(18) = 262144 /\ power(19) = 524288 /\ power(20) = 1048576
        /\ power(21) = 2097152 /\ power(22) = 4194304 /\ power(23) = 8388608
        /\ power(24) = 16777216 /\ power(25) = 33554432 /\ power(26) = 67108864
        /\ power(27) = 134217728 /\ power(28) = 268435456 /\ power(29) = 536870912
        /\ power(30) = 1073741824
    OBVIOUS
  <2> HIDE DEF power
  <2>2. ASSUME NEW b \in 1 .. 30
        PROVE  power(b) \in Nat /\ power(b) > 1
    <3>1. \/ b = 1 \/ b = 2 \/ b = 3 \/ b = 4 \/ b = 5 \/ b = 6 \/ b = 7 \/ b = 8 \/ b = 9
          \/ b = 10 \/ b = 11 \/ b = 12 \/ b = 13 \/ b = 14 \/ b = 15 \/ b = 16 \/ b = 17
          \/ b = 18 \/ b = 19 \/ b = 20 \/ b = 21 \/ b = 22 \/ b = 23 \/ b = 24 \/ b = 25
          \/ b = 26 \/ b = 27 \/ b = 28 \/ b = 29 \/ b = 30
      OBVIOUS
    <3> QED
      BY <2>1, <3>1
  <2>3. \A p \in Nat : p > 1 => (1 \div p) % 2 # 1
    OBVIOUS
  <2>4. \A b \in 1 .. 30 : (1 \div power(b)) % 2 # 1
    BY <2>2, <2>3
  <2>5. (1 \div power(0)) % 2 = 1
    BY <2>1
  <2>6. Bits(1) = {b \in 0 .. 30 : (1 \div power(b)) % 2 = 1}
    BY DEF Bits, power
  <2>7. \A b \in 0 .. 30 : b = 0 \/ b \in 1 .. 30
    OBVIOUS
  <2> QED
    BY <2>4, <2>5, <2>6, <2>7
<1> QED
  BY <1>1 DEF ShiftLeft, SelectorOf, GDT_CODE_SEGMENT_INDEX

\* The entry points of two vectors differ, and none is the default's.
LEMMA IsrIsInjective ==
  ASSUME NEW n \in 0 .. 47, NEW m \in 0 .. 47, Isr(n) = Isr(m)
  PROVE  n = m
<1>1. \A b \in {4, 5, 6, 7, 8, 9} : b \in Bits(16 * n) <=> b \in Bits(16 * m)
  BY DEF Isr
<1>2. /\ ((16 * n) \div 16) % 2 = 1 <=> ((16 * m) \div 16) % 2 = 1
      /\ ((16 * n) \div 32) % 2 = 1 <=> ((16 * m) \div 32) % 2 = 1
      /\ ((16 * n) \div 64) % 2 = 1 <=> ((16 * m) \div 64) % 2 = 1
      /\ ((16 * n) \div 128) % 2 = 1 <=> ((16 * m) \div 128) % 2 = 1
      /\ ((16 * n) \div 256) % 2 = 1 <=> ((16 * m) \div 256) % 2 = 1
      /\ ((16 * n) \div 512) % 2 = 1 <=> ((16 * m) \div 512) % 2 = 1
  BY <1>1, Powers DEF Bits
<1> QED
  BY <1>2

LEMMA IsrIsNotDefault ==
  ASSUME NEW n \in 0 .. 47
  PROVE  Isr(n) # DefaultHandler
<1>1. ((16 * n) \div 8192) % 2 # 1
  OBVIOUS
<1>2. 13 \notin Bits(16 * n)
  BY <1>1, Powers DEF Bits
<1> QED
  BY <1>2 DEF Isr, DefaultHandler

-----------------------------------------------------------------------------
(* What the processor, the stub and iret push and pop. *)

LEMMA Push ==
  ASSUME NEW S, NEW a \in S, NEW s \in Seq(S), NEW f \in Seq(S), Len(f) = Len(s) + 1, f[1] = a,
         \A i \in 1 .. Len(s) : f[i + 1] = s[i]
  PROVE  <<a>> \o s = f
<1> DEFINE top == <<a>>
          pushed == top \o s
<1>1. top \in Seq(S) /\ Len(top) = 1 /\ top[1] = a
  OBVIOUS
<1> HIDE DEF top
<1>2. /\ pushed \in Seq(S) /\ Len(pushed) = Len(top) + Len(s)
      /\ \A i \in 1 .. Len(top) + Len(s) :
           pushed[i] = IF i <= Len(top) THEN top[i] ELSE s[i - Len(top)]
  BY <1>1, ConcatProperties
<1> HIDE DEF pushed
<1>3. Len(s) \in Nat /\ Len(pushed) = Len(f)
  BY <1>1, <1>2
<1>4. ASSUME NEW i \in 1 .. Len(pushed)
      PROVE  pushed[i] = f[i]
  <2>1. i = 1 \/ (i - 1 \in 1 .. Len(s) /\ f[(i - 1) + 1] = s[i - 1] /\ (i - 1) + 1 = i)
    BY <1>1, <1>2, <1>3, <1>4
  <2> QED
    BY <1>1, <1>2, <1>3, <1>4, <2>1
<1>5. pushed = f
  BY <1>2, <1>3, <1>4, SeqEqual
<1> QED
  BY <1>5 DEF pushed, top

\* The frame of an interrupt, with an error code or without, and under a number n.
LEMMA Frames ==
  ASSUME NEW n
  PROVE  /\ <<"error">> \o <<"eip", "cs", "eflags">> = <<"error", "eip", "cs", "eflags">>
         /\ <<>> \o <<"eip", "cs", "eflags">> = <<"eip", "cs", "eflags">>
         /\ <<n>> \o <<>> \o <<"error", "eip", "cs", "eflags">>
              = <<n, "error", "eip", "cs", "eflags">>
         /\ <<n>> \o <<"error">> \o <<"eip", "cs", "eflags">>
              = <<n, "error", "eip", "cs", "eflags">>
         /\ SubSeq(<<n, "error", "eip", "cs", "eflags">>, 3, 5) = <<"eip", "cs", "eflags">>
         /\ SubSeq(<<"eip", "cs", "eflags">>, 1, 3) = <<"eip", "cs", "eflags">>
<1> DEFINE S == {n, "error", "eip", "cs", "eflags"}
           three == <<"eip", "cs", "eflags">>
           four == <<"error", "eip", "cs", "eflags">>
           five == <<n, "error", "eip", "cs", "eflags">>
           popped == SubSeq(five, 3, 5)
           whole == SubSeq(three, 1, 3)
<1>1. /\ three \in Seq(S) /\ four \in Seq(S) /\ five \in Seq(S)
      /\ Len(three) = 3 /\ Len(four) = 4 /\ Len(five) = 5
      /\ n \in S /\ "error" \in S
  OBVIOUS
<1>2. /\ three[1] = "eip" /\ three[2] = "cs" /\ three[3] = "eflags"
      /\ four[1] = "error" /\ four[2] = "eip" /\ four[3] = "cs" /\ four[4] = "eflags"
      /\ five[1] = n /\ five[2] = "error" /\ five[3] = "eip" /\ five[4] = "cs"
      /\ five[5] = "eflags"
  OBVIOUS
<1>S. \A e \in {n, "error", "eip", "cs", "eflags"} : e \in S
  OBVIOUS
<1>3. /\ <<n>> \in Seq(S) /\ <<"error">> \in Seq(S)
      /\ <<>> \o three = three /\ <<n>> \o <<>> = <<n>>
  BY <1>1, ConcatEmptySeq
<1> HIDE DEF S, three, four, five
<1>4. /\ \A i \in 1 .. 3 : i = 1 \/ i = 2 \/ i = 3
      /\ \A i \in 1 .. 4 : i = 1 \/ i = 2 \/ i = 3 \/ i = 4
      /\ \A i \in 3 .. 5 : i = 3 \/ i = 4 \/ i = 5
  OBVIOUS
<1>5. <<"error">> \o three = four
  <2>1. \A i \in 1 .. Len(three) : four[i + 1] = three[i]
    BY <1>1, <1>2, <1>4
  <2>2. Len(four) = Len(three) + 1
    BY <1>1
  <2> QED
    BY <1>1, <1>2, <2>1, <2>2, Push, Zenon
<1>6. <<n>> \o four = five
  <2>1. \A i \in 1 .. Len(four) : five[i + 1] = four[i]
    BY <1>1, <1>2, <1>4
  <2>2. Len(five) = Len(four) + 1
    BY <1>1
  <2> QED
    BY <1>1, <1>2, <2>1, <2>2, Push, Zenon
<1>7. <<n>> \o <<"error">> \o three = five
  <2>1. <<n>> \o <<"error">> \o three = <<n>> \o (<<"error">> \o three)
    BY <1>1, <1>3, ConcatAssociative
  <2> QED
    BY <1>5, <1>6, <2>1
<1>8. popped = three
  <2>1. \A i \in 3 .. 5 : five[i] \in S
    BY <1>S, <1>2, <1>4
  <2>2. /\ popped \in Seq(S) /\ Len(popped) = 3
        /\ \A i \in 1 .. 5 - 3 + 1 : popped[i] = five[3 + i - 1]
    BY <2>1, SubSeqProperties
  <2> HIDE DEF popped
  <2>3. popped[1] = five[3] /\ popped[2] = five[4] /\ popped[3] = five[5]
    BY <2>2
  <2>4. \A i \in 1 .. Len(popped) : popped[i] = three[i]
    BY <1>2, <1>4, <2>2, <2>3
  <2> QED
    BY <1>1, <2>2, <2>4, SeqEqual
<1>9. whole = three
  <2>1. \A i \in 1 .. 3 : three[i] \in S
    BY <1>S, <1>2, <1>4
  <2>2. /\ whole \in Seq(S) /\ Len(whole) = 3
        /\ \A i \in 1 .. 3 - 1 + 1 : whole[i] = three[1 + i - 1]
    BY <2>1, SubSeqProperties
  <2> HIDE DEF whole
  <2>3. whole[1] = three[1] /\ whole[2] = three[2] /\ whole[3] = three[3]
    BY <2>2
  <2>4. \A i \in 1 .. Len(whole) : whole[i] = three[i]
    BY <1>4, <2>2, <2>3
  <2> QED
    BY <1>1, <2>2, <2>4, SeqEqual
<1> QED
  BY <1>3, <1>5, <1>6, <1>7, <1>8, <1>9 DEF three, four, five, popped, whole
-----------------------------------------------------------------------------
(* The inductive invariant, part by part. *)

\* What the writes before write step of uart_init have left in the chip, which has sent
\* nothing yet, and what is printed after them.
UartInv ==
  /\ Com1!TypeOK
  /\ step \in 2 .. 4 => lcr = {7}
  /\ step = 5 => lcr = {}
  /\ step = 6 => lcr = {0, 1}
  /\ step > 2 => divisor[1] = 1
  /\ step > 3 => divisor[2] = 0
  /\ step < 6 => thr = 0 /\ sent = <<>> /\ written = 0 /\ ~ overrun
  /\ thr <= written
  /\ \A i \in 1 .. Len(sent) : thr # 0 => sent[i] < thr
  /\ LineSound

\* Which call builds the tables, and how far it has come.
CallInv ==
  /\ pc.step \in {"gdt", "lgdt", "segments"} => call = 1
  /\ pc.step \in {"default", "isr", "lidt"} => call = 2
  /\ pc.step = "run" => call \in 3 .. 11
  /\ pc.step \in {"stub", "isr_main", "iret", "halted"} => call \in {10, 11}
  /\ pc.step \in {"gdt", "lgdt", "segments", "default", "isr", "lidt", "run", "stub",
                  "isr_main", "iret", "halted"}
  /\ pc.i \in 0 .. 255

Kernel(r) == IF r = "cs" THEN GDT_CODE_SEGMENT_INDEX ELSE GDT_DATA_SEGMENT_INDEX

\* The tables as the loader's zeroed data, the loops of gdt_init and of idt_init leave them.
ZeroGdt == [i \in 0 .. 2 |-> ZeroDescriptor]
KernelGdt == [i \in 0 .. 2 |-> GdtDescriptor(i)]
ZeroIdt == [v \in 0 .. 255 |-> ZeroDescriptor]
DefaultIdt == [v \in 0 .. 255 |-> Gate(DefaultHandler)]
KernelIdt ==
  [v \in 0 .. 255 |-> IF v \in IsrVectors THEN Gate(Isr(v)) ELSE Gate(DefaultHandler)]

\* What each step of gdt_init and of idt_init has left, for good.
TablesInv ==
  /\ gdt = IF call = 1 /\ pc.step = "gdt" THEN ZeroGdt ELSE KernelGdt
  /\ pc.step \notin {"gdt", "lgdt"} => gdtr = [table |-> "gdt", limit |-> 23]
  /\ gdtr.limit \in {0, 23}
  /\ DOMAIN segments = {"cs", "ds", "es", "fs", "gs", "ss"}
  /\ pc.step = "segments" =>
       pc.i \in 1 .. 6 /\ \A k \in 1 .. pc.i - 1 :
                            segments[SegmentLoads[k]] = gdt[Kernel(SegmentLoads[k])]
  /\ call > 1 => \A r \in DOMAIN segments : segments[r] = gdt[Kernel(r)]
  /\ idt = IF pc.step \in {"gdt", "lgdt", "segments", "default"} THEN ZeroIdt
           ELSE IF pc.step = "isr" THEN DefaultIdt ELSE KernelIdt
  /\ idtr = IF call > 2 THEN [table |-> "idt", limit |-> 2047]
            ELSE [table |-> "loader", limit |-> 0]

\* What an interrupt and the stub have pushed.
FrameInv ==
  /\ pc.step = "stub" =>
       /\ pc.i \in IsrVectors
       /\ stack = (IF pc.i \in ErrorCodeVectors THEN <<"error">> ELSE <<>>)
                    \o <<"eip", "cs", "eflags">>
  /\ pc.step = "isr_main" => pc.i \in IsrVectors
  /\ pc.step = "iret" => stack = <<"eip", "cs", "eflags">>
  /\ FrameIsUniform

\* What each call of start_kernel has left to those after it.
KernelInv ==
  /\ irq_handlers = IF call > 5 THEN {I8254_IRQ_NO} ELSE {}
  /\ call > 4 =>
       /\ pic = [masked |-> imr, vectors |-> "kernel"]
       /\ imr = Lines \ (IF call > 5 THEN {I8254_IRQ_NO, I8259_SLAVE_IRQ}
                         ELSE {I8259_SLAVE_IRQ})
  /\ call > 7 => heap
  /\ call > 8 => idle_thread
  /\ if_flag <=> call > 9 /\ pc.step = "run"
  /\ pc.step \in {"stub", "isr_main"} =>
       /\ raised \/ pc.i \in 32 .. 47
       /\ \/ unhandled = {}
          \/ pc.i = IDT_IRQ_BASE + I8254_IRQ_NO /\ unhandled = {I8254_IRQ_NO}
  /\ imr \subseteq Lines /\ pic \in [masked : SUBSET Lines, vectors : {"firmware", "kernel"}]
  /\ requests \subseteq Devices
  /\ heap \in BOOLEAN /\ idle_thread \in BOOLEAN /\ if_flag \in BOOLEAN
  /\ ticks \in {0, 1} /\ raised \in BOOLEAN
  /\ NeverFaults /\ PanicHasItsCause /\ AcknowledgedIsHandled

IInv == UartInv /\ CallInv /\ TablesInv /\ FrameInv /\ KernelInv

-----------------------------------------------------------------------------
(* The UART. *)

LEMMA WriteList ==
  /\ Com1!Initialised <=> step > 5
  /\ Len(Com1!InitWrites) = 5
  /\ Com1!InitWrites[1] = <<3, {7}>>
  /\ Com1!InitWrites[2] = <<0, 1>>
  /\ Com1!InitWrites[3] = <<1, 0>>
  /\ Com1!InitWrites[4] = <<3, {}>>
  /\ Com1!InitWrites[5] = <<3, {0, 1}>>
<1>1. 115200 \div 115200 = 1 /\ 1 % 256 = 1 /\ 1 \div 256 = 0
  OBVIOUS
<1> QED
  BY <1>1 DEF Com1!Initialised, Com1!InitWrites, Com1!UART_LCR_REG_OFFSET, Com1!UART_DLAB_BIT,
     Com1!UART_DIV_LOW_REG_OFFSET, Com1!UART_DIV_HIGH_REG_OFFSET, Com1!UART_DIVISOR,
     Com1!UART_LCR_8_DATA_BITS

LEMMA InitUartInv == KInit => UartInv
<1> SUFFICES ASSUME KInit PROVE UartInv
  OBVIOUS
<1>1. /\ lcr \in {{}, {7}, {0, 1, 2, 3}, {0, 1, 7}} /\ divisor \in Divisors /\ ier \in {0, 1}
      /\ thr = 0 /\ sent = <<>> /\ step = 1 /\ written = 0 /\ overrun = FALSE
  BY DEF KInit, Com1!Init, Com1!UART_DLAB_BIT
<1>2. divisor \in (0 .. 255) \X (0 .. 255)
  BY <1>1, BootAssumption
<1>3. sent \in Seq(1 .. MaxWritten) /\ Len(sent) = 0
  BY <1>1
<1>4. Com1!TypeOK
  <2>1. /\ step \in 1 .. Len(Com1!InitWrites) + 1
        /\ thr \in 0 .. MaxWritten /\ written \in 0 .. MaxWritten
    BY <1>1, WriteList, BootAssumption
  <2>2. lcr \subseteq 0 .. 7
    <3>1. lcr = {} \/ lcr = {7} \/ lcr = {0, 1, 2, 3} \/ lcr = {0, 1, 7}
      BY <1>1
    <3>2. {7} \subseteq 0 .. 7 /\ {0, 1, 2, 3} \subseteq 0 .. 7 /\ {0, 1, 7} \subseteq 0 .. 7
      OBVIOUS
    <3> QED
      BY <3>1, <3>2
  <2>3. overrun \in BOOLEAN
    BY <1>1
  <2> QED
    BY <1>1, <1>2, <1>3, <2>1, <2>2, <2>3 DEF Com1!TypeOK
<1>5. Com1!LineIsSet /\ Com1!SentInOrder /\ Com1!LostOnlyByOverrun
  BY <1>1, <1>3, WriteList DEF Com1!LineIsSet, Com1!SentInOrder, Com1!LostOnlyByOverrun
<1> QED
  BY <1>1, <1>3, <1>4, <1>5 DEF UartInv, LineSound

\* One port write of uart_init.
LEMMA UartInitStep ==
  ASSUME UartInv, Com1!UartInit
  PROVE  UartInv'
<1>1. /\ step \in 1 .. 5 /\ step' = step + 1 /\ sent' = sent /\ written' = written
      /\ thr = 0 /\ sent = <<>> /\ written = 0 /\ overrun = FALSE
      /\ divisor \in (0 .. 255) \X (0 .. 255) /\ ier \in {0, 1} /\ lcr \subseteq 0 .. 7
  BY WriteList DEF UartInv, Com1!UartInit, Com1!TypeOK
<1>2. /\ step \in 2 .. 4 => lcr = {7}
      /\ step > 2 => divisor[1] = 1
      /\ step > 3 => divisor[2] = 0
  BY DEF UartInv
<1>3. Com1!IoWriteByte(Com1!InitWrites[step][1], Com1!InitWrites[step][2])
  BY DEF Com1!UartInit
<1>4. /\ thr' = thr /\ overrun' = overrun /\ ier' = ier
      /\ lcr' = IF step = 1 THEN {7} ELSE IF step = 4 THEN {} ELSE IF step = 5 THEN {0, 1}
                ELSE lcr
      /\ divisor' = IF step = 2 THEN [divisor EXCEPT ![1] = 1]
                    ELSE IF step = 3 THEN [divisor EXCEPT ![2] = 0] ELSE divisor
  <2>1. step = 1 \/ step = 2 \/ step = 3 \/ step = 4 \/ step = 5
    BY <1>1
  <2>2. CASE step = 1
    BY <1>3, <2>2, WriteList DEF Com1!IoWriteByte
  <2>3. CASE step = 2
    <3>1. Com1!IoWriteByte(0, 1)
      BY <1>3, <2>3, WriteList
    <3> QED
      BY <1>2, <2>3, <3>1 DEF Com1!IoWriteByte
  <2>4. CASE step = 3
    <3>1. Com1!IoWriteByte(1, 0)
      BY <1>3, <2>4, WriteList
    <3> QED
      BY <1>2, <2>4, <3>1 DEF Com1!IoWriteByte
  <2>5. CASE step = 4
    BY <1>3, <2>5, WriteList DEF Com1!IoWriteByte
  <2>6. CASE step = 5
    BY <1>3, <2>6, WriteList DEF Com1!IoWriteByte
  <2> QED
    BY <2>1, <2>2, <2>3, <2>4, <2>5, <2>6
<1>5. /\ divisor' \in (0 .. 255) \X (0 .. 255)
      /\ step' > 2 => divisor'[1] = 1
      /\ step' > 3 => divisor'[2] = 0
  <2>1. PICK l \in 0 .. 255, h \in 0 .. 255 : divisor = <<l, h>>
    <3>1. /\ divisor = <<divisor[1], divisor[2]>>
          /\ divisor[1] \in 0 .. 255 /\ divisor[2] \in 0 .. 255
      BY <1>1
    <3> QED
      BY <3>1
  <2>2. /\ [divisor EXCEPT ![1] = 1] = <<1, h>>
        /\ [divisor EXCEPT ![2] = 0] = <<l, 0>>
    BY <2>1
  <2>3. divisor' = IF step = 2 THEN <<1, h>> ELSE IF step = 3 THEN <<l, 0>> ELSE <<l, h>>
    BY <1>4, <2>1, <2>2
  <2>4. (step > 2 => l = 1) /\ (step > 3 => h = 0)
    BY <1>2, <2>1
  <2>5. step = 1 \/ step = 2 \/ step = 3 \/ step = 4 \/ step = 5
    BY <1>1
  <2>6. PICK lo \in 0 .. 255, hi \in 0 .. 255 :
          lo = (IF step = 2 THEN 1 ELSE l) /\ hi = (IF step = 3 THEN 0 ELSE h)
    <3>1. /\ (IF step = 2 THEN 1 ELSE l) \in 0 .. 255
          /\ (IF step = 3 THEN 0 ELSE h) \in 0 .. 255
      OBVIOUS
    <3> QED
      BY <3>1
  <2>7. divisor' = <<lo, hi>>
    BY <2>3, <2>6
  <2>8. (step' > 2 => lo = 1) /\ (step' > 3 => hi = 0)
    BY <1>1, <2>4, <2>5, <2>6
  <2> QED
    BY <2>7, <2>8
<1>6. /\ step' \in 2 .. 4 => lcr' = {7}
      /\ step' = 5 => lcr' = {}
      /\ step' = 6 => lcr' = {0, 1}
      /\ lcr' \subseteq 0 .. 7
      /\ step' \in 2 .. 6
  BY <1>1, <1>2, <1>4
<1>7. /\ sent' \in Seq(1 .. MaxWritten) /\ Len(sent') = 0 /\ sent' = <<>>
      /\ thr' = 0 /\ written' = 0 /\ overrun' = FALSE /\ ier' \in {0, 1}
  BY <1>1, <1>4
<1>8. Com1!TypeOK'
  <2>1. /\ step' \in 1 .. Len(Com1!InitWrites) + 1
        /\ thr' \in 0 .. MaxWritten /\ written' \in 0 .. MaxWritten
    BY <1>6, <1>7, WriteList, BootAssumption
  <2>2. overrun' \in BOOLEAN
    BY <1>7
  <2> QED
    BY <1>5, <1>6, <1>7, <2>1, <2>2 DEF Com1!TypeOK
<1>9. Com1!LineIsSet' /\ Com1!SentInOrder' /\ Com1!LostOnlyByOverrun'
  <2>1. divisor' = <<divisor'[1], divisor'[2]>>
    BY <1>5
  <2>2. Com1!LineIsSet'
    <3>1. Com1!Initialised' => step' > 5
      BY WriteList DEF Com1!Initialised, Com1!InitWrites
    <3> QED
      BY <1>5, <1>6, <2>1, <3>1 DEF Com1!LineIsSet
  <2> QED
    BY <1>7, <2>2 DEF Com1!SentInOrder, Com1!LostOnlyByOverrun
<1> QED
  BY <1>5, <1>6, <1>7, <1>8, <1>9 DEF UartInv, LineSound

\* A byte of a message is written to the holding register, which may be full.
LEMMA PrintedStep ==
  ASSUME UartInv, Com1!Printed
  PROVE  UartInv'
<1>1. /\ step = 6 /\ lcr = {0, 1} /\ written \in 0 .. MaxWritten /\ written < MaxWritten
      /\ thr \in 0 .. MaxWritten /\ thr <= written /\ sent \in Seq(1 .. MaxWritten)
      /\ overrun \in BOOLEAN /\ Len(sent) \in Nat /\ MaxWritten \in Nat
  BY WriteList, BootAssumption, LenProperties DEF UartInv, Com1!Printed, Com1!TypeOK
<1>2. /\ written' = written + 1 /\ sent' = sent /\ step' = step
      /\ thr' = written + 1 /\ overrun' = (overrun \/ thr # 0)
      /\ UNCHANGED <<lcr, divisor, ier>>
  BY <1>1 DEF Com1!Printed, Com1!UartWriteByte, Com1!IoWriteByte, Com1!UART_DATA_REG_OFFSET
<1>3. \A i \in 1 .. Len(sent) : sent[i] \in 1 .. MaxWritten /\ sent[i] <= written
  BY <1>1, ElementOfSeq DEF UartInv, LineSound, Com1!SentInOrder
<1>4. Com1!TypeOK'
  BY <1>1, <1>2 DEF UartInv, Com1!TypeOK
<1>5. Com1!LineIsSet'
  BY <1>2 DEF UartInv, LineSound, Com1!LineIsSet, Com1!Initialised
<1>6. Com1!SentInOrder'
  BY <1>1, <1>2, <1>3 DEF UartInv, LineSound, Com1!SentInOrder
<1>7. Com1!LostOnlyByOverrun'
  <2>1. ~ overrun' => ~ overrun
    BY <1>2
  <2>2. ~ overrun' => thr = 0
    BY <1>2
  <2>3. ~ overrun => Len(sent) + (IF thr = 0 THEN 0 ELSE 1) = written
    BY DEF UartInv, LineSound, Com1!LostOnlyByOverrun
  <2>4. ~ overrun' => Len(sent') + 1 = written' /\ thr' # 0
    BY <1>1, <1>2, <2>1, <2>2, <2>3
  <2> QED
    BY <2>4 DEF Com1!LostOnlyByOverrun
<1>8. /\ thr' <= written' /\ \A i \in 1 .. Len(sent') : thr' # 0 => sent'[i] < thr'
      /\ step' > 5
  BY <1>1, <1>2, <1>3
<1> QED
  BY <1>1, <1>2, <1>4, <1>5, <1>6, <1>7, <1>8 DEF UartInv, LineSound

\* The transmitter sends the byte it holds, the last one written.
LEMMA TransmitStep ==
  ASSUME UartInv, Com1!Transmit
  PROVE  UartInv'
<1>1. /\ thr \in 1 .. MaxWritten /\ thr <= written /\ sent \in Seq(1 .. MaxWritten)
      /\ written \in 0 .. MaxWritten /\ Len(sent) \in Nat /\ MaxWritten \in Nat
      /\ step \in 1 .. 6 /\ step > 5
  BY WriteList, BootAssumption, LenProperties DEF UartInv, Com1!Transmit, Com1!TypeOK
<1>2. /\ sent' = Append(sent, thr) /\ thr' = 0
      /\ UNCHANGED <<lcr, divisor, ier, step, written, overrun>>
  BY DEF Com1!Transmit
<1>3. \A i \in 1 .. Len(sent) :
         sent[i] \in 1 .. MaxWritten /\ sent[i] <= written /\ sent[i] < thr
  BY <1>1, ElementOfSeq DEF UartInv, LineSound, Com1!SentInOrder
<1>4. PICK s \in Seq(1 .. MaxWritten) :
         /\ s = sent' /\ Len(s) = Len(sent) + 1
         /\ \A i \in 1 .. Len(sent) : s[i] = sent[i]
         /\ s[Len(sent) + 1] = thr
  <2> DEFINE longer == Append(sent, thr)
  <2>1. /\ longer \in Seq(1 .. MaxWritten) /\ Len(longer) = Len(sent) + 1
        /\ \A i \in 1 .. Len(sent) : longer[i] = sent[i]
        /\ longer[Len(sent) + 1] = thr
    BY <1>1, AppendProperties
  <2>2. longer = sent'
    BY <1>2
  <2> HIDE DEF longer
  <2> QED
    BY <2>1, <2>2
<1>5. Com1!TypeOK'
  BY <1>1, <1>2, <1>4 DEF UartInv, Com1!TypeOK
<1>6. Com1!LineIsSet'
  BY <1>2 DEF UartInv, LineSound, Com1!LineIsSet, Com1!Initialised
<1>7. Com1!SentInOrder'
  <2>1. ASSUME NEW i \in 1 .. Len(s)
        PROVE  s[i] <= written
    <3>1. CASE i = Len(sent) + 1
      BY <1>1, <1>4, <3>1
    <3>2. CASE i \in 1 .. Len(sent)
      BY <1>3, <1>4, <3>2
    <3> QED
      BY <1>1, <1>4, <3>1, <3>2
  <2>2. ASSUME NEW i \in 1 .. Len(s), NEW j \in 1 .. Len(s), i < j
        PROVE  s[i] < s[j]
    <3>1. i \in 1 .. Len(sent)
      BY <1>1, <1>4, <2>2
    <3>2. CASE j = Len(sent) + 1
      BY <1>3, <1>4, <3>1, <3>2
    <3>3. CASE j \in 1 .. Len(sent)
      BY <1>4, <2>2, <3>1, <3>3 DEF UartInv, LineSound, Com1!SentInOrder
    <3> QED
      BY <1>1, <1>4, <3>2, <3>3
  <2> QED
    BY <1>2, <1>4, <2>1, <2>2 DEF Com1!SentInOrder
<1>8. Com1!LostOnlyByOverrun'
  BY <1>1, <1>2, <1>4 DEF UartInv, LineSound, Com1!LostOnlyByOverrun
<1> QED
  BY <1>1, <1>2, <1>5, <1>6, <1>7, <1>8 DEF UartInv, LineSound

LEMMA UartRests ==
  ASSUME UartInv, UNCHANGED serialVars
  PROVE  UartInv'
BY DEF UartInv, serialVars, LineSound, Com1!TypeOK, Com1!LineIsSet, Com1!SentInOrder,
   Com1!LostOnlyByOverrun, Com1!Initialised

-----------------------------------------------------------------------------
(* Descriptors and calls. *)

LEMMA CallList ==
  /\ Len(StartKernel) = 10
  /\ StartKernel[1] = "gdt_init" /\ StartKernel[2] = "idt_init"
  /\ StartKernel[3] = "interrupts_init" /\ StartKernel[4] = "i8259_init"
  /\ StartKernel[5] = "i8254_init" /\ StartKernel[6] = "uart_init"
  /\ StartKernel[7] = "heap_init" /\ StartKernel[8] = "thread_init"
  /\ StartKernel[9] = "cpu_enable_interrupts" /\ StartKernel[10] = "thread_start_scheduler"
BY DEF StartKernel

\* Which call is under way.
LEMMA CallNumber ==
  ASSUME CallInv
  PROVE  /\ call \in 1 .. 11
         /\ Scheduling <=> call = 11
         /\ InCall("gdt_init") => call = 1
         /\ InCall("idt_init") => call = 2
         /\ InCall("interrupts_init") => call = 3
         /\ InCall("i8259_init") => call = 4
         /\ InCall("i8254_init") => call = 5
         /\ InCall("uart_init") => call = 6
         /\ InCall("heap_init") => call = 7
         /\ InCall("thread_init") => call = 8
         /\ InCall("cpu_enable_interrupts") => call = 9
         /\ InCall("thread_start_scheduler") => call = 10
<1>1. call \in 1 .. 11
  BY DEF CallInv
<1>2. Scheduling <=> call = 11
  BY <1>1, CallList DEF Scheduling
<1>3. ~ Scheduling => \/ call = 1 \/ call = 2 \/ call = 3 \/ call = 4 \/ call = 5 \/ call = 6
                      \/ call = 7 \/ call = 8 \/ call = 9 \/ call = 10
  BY <1>1, <1>2
<1> QED
  BY <1>1, <1>2, <1>3, CallList DEF InCall

\* The kernel's segments.
LEMMA Segments ==
  /\ IsCode(GdtDescriptor(1)) /\ IsFlat(GdtDescriptor(1))
  /\ IsWritableData(GdtDescriptor(2)) /\ IsFlat(GdtDescriptor(2))
  /\ \A i \in 0 .. 2 : GdtDescriptor(i).low \subseteq 0 .. 31
                       /\ GdtDescriptor(i).high \subseteq 0 .. 31
<1>1. /\ GdtDescriptor(1) = SegmentDescriptor(GDT_SEG_CODE_RX)
      /\ GdtDescriptor(2) = SegmentDescriptor(GDT_SEG_DATA_RW)
      /\ GdtDescriptor(0) = ZeroDescriptor
  BY DEF GdtDescriptor, GDT_CODE_SEGMENT_INDEX, GDT_DATA_SEGMENT_INDEX
<1>2. ASSUME NEW access, access \in {GDT_SEG_CODE_RX, GDT_SEG_DATA_RW}
      PROVE  /\ SegmentDescriptor(access).low = 0 .. 15
             /\ SegmentDescriptor(access).high = (16 .. 19) \union {12, 15, 22, 23} \union access
             /\ access \subseteq {9, 11}
  BY <1>2 DEF SegmentDescriptor, CPU_SEG_S_FLAG, CPU_SEG_P_FLAG, CPU_SEG_DB_FLAG, CPU_SEG_G_FLAG,
     GDT_SEG_CODE_RX, GDT_SEG_DATA_RW
<1>3. ASSUME NEW access, access \in {GDT_SEG_CODE_RX, GDT_SEG_DATA_RW}
      PROVE  /\ IsFlat(SegmentDescriptor(access)) /\ IsSegment(SegmentDescriptor(access))
             /\ SegmentDescriptor(access).low \subseteq 0 .. 31
             /\ SegmentDescriptor(access).high \subseteq 0 .. 31
  BY <1>2, <1>3 DEF IsFlat, IsSegment
<1>4. /\ 11 \in SegmentDescriptor(GDT_SEG_CODE_RX).high
      /\ 9 \in SegmentDescriptor(GDT_SEG_DATA_RW).high
      /\ 11 \notin SegmentDescriptor(GDT_SEG_DATA_RW).high
  BY <1>2 DEF GDT_SEG_CODE_RX, GDT_SEG_DATA_RW
<1>5. ZeroDescriptor.low \subseteq 0 .. 31 /\ ZeroDescriptor.high \subseteq 0 .. 31
  BY DEF ZeroDescriptor
<1>6. \A i \in 0 .. 2 : i = 0 \/ i = 1 \/ i = 2
  OBVIOUS
<1> QED
  BY <1>1, <1>3, <1>4, <1>5, <1>6 DEF IsCode, IsWritableData

LEMMA EntryPoints ==
  /\ DefaultHandler \subseteq 0 .. 31
  /\ \A v \in 0 .. 255 : Isr(v) \subseteq 0 .. 31
BY DEF DefaultHandler, Isr, Bits

\* A gate as idt_init makes it leads the processor to its entry point.
LEMMA Gates ==
  ASSUME NEW entry \in SUBSET (0 .. 31),
         gdt = [i \in 0 .. 2 |-> GdtDescriptor(i)], gdtr = [table |-> "gdt", limit |-> 23]
  PROVE  /\ IsInterruptGate(Gate(entry)) /\ OffsetOf(Gate(entry)) = entry
         /\ Gate(entry).low \subseteq 0 .. 31 /\ Gate(entry).high \subseteq 0 .. 31
<1>1. /\ Gate(entry).low = (entry \intersect 0 .. 15) \union {19}
      /\ Gate(entry).high = (entry \intersect 16 .. 31) \union {9, 10, 11, 15}
  BY CodeSelector DEF Gate, CPU_SEG_P_FLAG, IDT_SEG_INT_GATE
<1>2. /\ Gate(entry).high \intersect (5 .. 15) = {9, 10, 11, 15}
      /\ Gate(entry).low \intersect (16 .. 31) = {19}
  BY <1>1
<1>3. 1 \in 0 .. GDT_SIZE - 1 /\ Within(gdtr, 1) /\ IsCode(gdt[1])
  BY Segments DEF GDT_SIZE, Within
<1>4. IsInterruptGate(Gate(entry))
  BY <1>2, <1>3, CodeSelector DEF IsInterruptGate, GDT_CODE_SEGMENT_INDEX
<1>5. OffsetOf(Gate(entry)) = entry
  <2>1. /\ Gate(entry).low \intersect 0 .. 15 = entry \intersect 0 .. 15
        /\ Gate(entry).high \intersect 16 .. 31 = entry \intersect 16 .. 31
    BY <1>1
  <2>2. \A b \in 0 .. 31 : b \in 0 .. 15 \/ b \in 16 .. 31
    OBVIOUS
  <2> QED
    BY <2>1, <2>2 DEF OffsetOf
<1> QED
  BY <1>1, <1>4, <1>5

LEMMA Limits == LimitOfEntries(GDT_SIZE) = 23 /\ LimitOfEntries(IDT_SIZE) = 2047
BY Powers DEF LimitOfEntries, GDT_SIZE, IDT_SIZE

-----------------------------------------------------------------------------
(* The tables. *)

Late == {"run", "stub", "isr_main", "iret", "halted"}

\* Once they are built the tables do not change.
LEMMA TablesRest ==
  ASSUME CallInv, TablesInv, UNCHANGED <<gdt, idt, gdtr, idtr, segments>>,
         pc.step \in Late, pc'.step \in Late, call' > 2
  PROVE  TablesInv'
<1>1. /\ call > 2 /\ call # 1 /\ call' # 1 /\ call > 1
  BY DEF CallInv, Late
<1>2. /\ pc.step \notin {"gdt", "lgdt", "segments", "default"} /\ pc.step # "isr"
      /\ pc'.step \notin {"gdt", "lgdt", "segments", "default"} /\ pc'.step # "isr"
      /\ pc'.step # "segments"
  BY DEF Late
<1>3. gdt = KernelGdt /\ idt = KernelIdt
  BY <1>1, <1>2 DEF TablesInv
<1>4. /\ gdtr = [table |-> "gdt", limit |-> 23] /\ idtr = [table |-> "idt", limit |-> 2047]
      /\ gdtr.limit \in {0, 23}
      /\ DOMAIN segments = {"cs", "ds", "es", "fs", "gs", "ss"}
      /\ \A r \in DOMAIN segments : segments[r] = gdt[Kernel(r)]
  BY <1>1, <1>2 DEF TablesInv
<1>5. /\ gdt' = KernelGdt /\ idt' = KernelIdt
      /\ gdtr' = [table |-> "gdt", limit |-> 23] /\ idtr' = [table |-> "idt", limit |-> 2047]
      /\ gdtr'.limit \in {0, 23}
      /\ DOMAIN segments' = {"cs", "ds", "es", "fs", "gs", "ss"}
  BY <1>3, <1>4
<1>6. \A r \in DOMAIN segments' : segments'[r] = gdt'[Kernel(r)]
  BY <1>4
<1> QED
  BY <1>1, <1>2, <1>5, <1>6 DEF TablesInv

\* The processor reaches the gate of a vector, and through it the vector's entry point.
GateLeads(v) ==
  /\ Within(idtr, v) /\ IsInterruptGate(idt[v])
  /\ OffsetOf(idt[v]) = IF v \in IsrVectors THEN Isr(v) ELSE DefaultHandler

\* What the tables are once they are built.
LEMMA TablesBuilt ==
  ASSUME CallInv, TablesInv, pc.step \in Late
  PROVE  /\ call > 2
         /\ gdt = [i \in 0 .. 2 |-> GdtDescriptor(i)]
         /\ gdtr = [table |-> "gdt", limit |-> 23]
         /\ idtr = [table |-> "idt", limit |-> 2047]
         /\ \A v \in 0 .. 255 : GateLeads(v)
<1>1. call > 2
  BY DEF CallInv, Late
<1>2. /\ gdt = KernelGdt /\ idt = KernelIdt
      /\ gdtr = [table |-> "gdt", limit |-> 23]
      /\ idtr = [table |-> "idt", limit |-> 2047]
  <2>1. /\ pc.step \notin {"gdt", "lgdt", "segments", "default"} /\ pc.step # "isr"
        /\ call # 1
    BY <1>1 DEF Late
  <2> QED
    BY <1>1, <2>1 DEF TablesInv
<1>3. \A v \in 0 .. 255 : idt[v] = IF v \in IsrVectors THEN Gate(Isr(v)) ELSE Gate(DefaultHandler)
  BY <1>2 DEF KernelIdt
<1>5. gdt = [i \in 0 .. 2 |-> GdtDescriptor(i)]
  BY <1>2 DEF KernelGdt
<1>4. ASSUME NEW v \in 0 .. 255
      PROVE  GateLeads(v)
  <2>1. Within(idtr, v)
    BY <1>2 DEF Within
  <2>2. /\ IsInterruptGate(Gate(Isr(v))) /\ OffsetOf(Gate(Isr(v))) = Isr(v)
        /\ IsInterruptGate(Gate(DefaultHandler))
        /\ OffsetOf(Gate(DefaultHandler)) = DefaultHandler
    <3>1. Isr(v) \in SUBSET (0 .. 31) /\ DefaultHandler \in SUBSET (0 .. 31)
      BY EntryPoints
    <3> QED
      BY <1>2, <1>5, <3>1, Gates
  <2>3. idt[v] = IF v \in IsrVectors THEN Gate(Isr(v)) ELSE Gate(DefaultHandler)
    BY <1>3
  <2> QED
    BY <2>1, <2>2, <2>3 DEF GateLeads
<1> QED
  BY <1>1, <1>2, <1>5, <1>4

\* An interrupt on a vector enters its stub, or default_isr, without a fault.
Enters(v) ==
  /\ pc.step = "run" /\ faulted' = faulted
  /\ stack' = (IF v \in ErrorCodeVectors THEN <<"error">> ELSE <<>>)
                \o <<"eip", "cs", "eflags">>
  /\ pc' = [step |-> IF v \in IsrVectors THEN "stub" ELSE "halted", i |-> v]
  /\ UNCHANGED <<gdt, idt, gdtr, idtr, segments>>

LEMMA InterruptTaken ==
  ASSUME CallInv, TablesInv, NEW v \in 0 .. 255, Interrupt(v)
  PROVE  Enters(v)
<1>1. pc.step = "run" /\ pc.step \in Late
  BY DEF Interrupt, At, Late
<1>2. /\ Within(idtr, v) /\ IsInterruptGate(idt[v])
      /\ OffsetOf(idt[v]) = IF v \in IsrVectors THEN Isr(v) ELSE DefaultHandler
  <2>1. GateLeads(v)
    BY <1>1, TablesBuilt
  <2> QED
    BY <2>1 DEF GateLeads
<1>3. OffsetOf(idt[v]) = DefaultHandler <=> v \notin IsrVectors
  BY <1>2, IsrIsNotDefault DEF IsrVectors
<1> QED
  BY <1>1, <1>2, <1>3 DEF Interrupt, GoTo, Enters

-----------------------------------------------------------------------------
(* The steps of start_kernel. *)

LEMMA InitIInv == KInit => IInv
<1> SUFFICES ASSUME KInit PROVE IInv
  OBVIOUS
<1>1. /\ gdt = ZeroGdt /\ idt = ZeroIdt
      /\ gdtr = [table |-> "loader", limit |-> 0] /\ idtr = [table |-> "loader", limit |-> 0]
      /\ segments = [r \in {"cs", "ds", "es", "fs", "gs", "ss"} |-> Loader]
      /\ pc = [step |-> "gdt", i |-> 0] /\ stack = <<>> /\ faulted = FALSE /\ call = 1
  BY DEF KInit, Init, GDT_SIZE, IDT_SIZE, ZeroGdt, ZeroIdt
<1>2. UartInv
  BY InitUartInv
<1>3. CallInv
  BY <1>1 DEF CallInv
<1>4. TablesInv
  BY <1>1 DEF TablesInv
<1>5. FrameInv
  BY <1>1 DEF FrameInv, FrameIsUniform
<1>6. KernelInv
  <2>1. /\ irq_handlers = {} /\ imr = {} /\ requests = {}
        /\ pic \in [masked : SUBSET Lines, vectors : {"firmware"}]
        /\ heap = FALSE /\ idle_thread = FALSE /\ if_flag = FALSE
        /\ ticks = 0 /\ unhandled = {} /\ raised = FALSE
    <3>1. /\ irq_handlers = {} /\ imr = {} /\ requests = {}
          /\ pic \in [masked : FirmwareMasks, vectors : {"firmware"}]
          /\ heap = FALSE /\ idle_thread = FALSE /\ if_flag = FALSE
          /\ ticks = 0 /\ unhandled = {} /\ raised = FALSE
      BY DEF KInit
    <3>2. \A m \in FirmwareMasks : m \in SUBSET Lines
      BY BootAssumption DEF Lines
    <3>3. pic \in [masked : SUBSET Lines, vectors : {"firmware"}]
      BY <3>1, <3>2
    <3> QED
      BY <3>1, <3>3
  <2>2. pic \in [masked : SUBSET Lines, vectors : {"firmware", "kernel"}]
    BY <2>1
  <2>3. if_flag <=> call > 9 /\ pc.step = "run"
    BY <1>1, <2>1
  <2>4. /\ irq_handlers = IF call > 5 THEN {I8254_IRQ_NO} ELSE {}
        /\ ~ (call > 4) /\ ~ (call > 7) /\ ~ (call > 8)
        /\ pc.step \notin {"stub", "isr_main"}
    BY <1>1, <2>1
  <2>5. imr \subseteq Lines /\ requests \subseteq Devices
    BY <2>1
  <2>6. /\ heap \in BOOLEAN /\ idle_thread \in BOOLEAN /\ if_flag \in BOOLEAN
        /\ ticks \in {0, 1} /\ raised \in BOOLEAN
    BY <2>1
  <2>7. NeverFaults /\ PanicHasItsCause /\ AcknowledgedIsHandled
    BY <1>1, <2>1 DEF NeverFaults, PanicHasItsCause, AcknowledgedIsHandled
  <2> QED
    BY <2>2, <2>3, <2>4, <2>5, <2>6, <2>7 DEF KernelInv
<1> QED
  BY <1>2, <1>3, <1>4, <1>5, <1>6 DEF IInv

LEMMA GdtInitStep ==
  ASSUME IInv, GdtInit
  PROVE  IInv'
<1>1. /\ call = 1 /\ call' = IF pc'.step = "default" THEN 2 ELSE 1
      /\ UNCHANGED <<irqVars, coreVars, seenVars, serialVars>>
  BY CallNumber DEF IInv, GdtInit, Calls
<1>2. UartInv'
  BY <1>1, UartRests DEF IInv
<1>3. CASE GdtDescriptorsInit
  <2>1. /\ pc.step = "gdt" /\ pc' = [step |-> "lgdt", i |-> 0]
        /\ gdt' = KernelGdt
        /\ UNCHANGED <<idt, gdtr, idtr, segments, stack, faulted>>
    BY <1>3 DEF GdtDescriptorsInit, At, GoTo, GDT_SIZE, KernelGdt
  <2>2. CallInv' /\ FrameInv'
    BY <1>1, <2>1 DEF CallInv, FrameInv, FrameIsUniform
  <2>3. TablesInv'
    BY <1>1, <2>1 DEF IInv, TablesInv
  <2>4. KernelInv'
    BY <1>1, <2>1 DEF IInv, KernelInv, NeverFaults, PanicHasItsCause, AcknowledgedIsHandled,
       irqVars, picVars, coreVars, seenVars
  <2> QED
    BY <1>2, <2>2, <2>3, <2>4 DEF IInv
<1>4. CASE LoadGdt
  <2>1. /\ pc.step = "lgdt" /\ pc' = [step |-> "segments", i |-> 1]
        /\ gdtr' = [table |-> "gdt", limit |-> 23]
        /\ UNCHANGED <<gdt, idt, idtr, segments, stack, faulted>>
    BY <1>4, Limits DEF LoadGdt, At, GoTo
  <2>2. CallInv' /\ FrameInv'
    BY <1>1, <2>1 DEF CallInv, FrameInv, FrameIsUniform
  <2>3. TablesInv'
    BY <1>1, <2>1 DEF IInv, TablesInv
  <2>4. KernelInv'
    BY <1>1, <2>1 DEF IInv, KernelInv, NeverFaults, PanicHasItsCause, AcknowledgedIsHandled,
       irqVars, picVars, coreVars, seenVars
  <2> QED
    BY <1>2, <2>2, <2>3, <2>4 DEF IInv
<1>5. CASE LoadSegment
  <2> DEFINE register == SegmentLoads[pc.i]
             index == Kernel(register)
  <2>1. /\ pc.step = "segments" /\ pc.i \in 1 .. 6 /\ ~ faulted
        /\ gdt = KernelGdt /\ gdtr = [table |-> "gdt", limit |-> 23]
        /\ DOMAIN segments = {"cs", "ds", "es", "fs", "gs", "ss"}
        /\ \A k \in 1 .. pc.i - 1 : segments[SegmentLoads[k]] = gdt[Kernel(SegmentLoads[k])]
    BY <1>5 DEF IInv, TablesInv, LoadSegment, At
  <2>2. /\ segments' = [segments EXCEPT ![register] = gdt[index]]
        /\ pc' = IF pc.i < 6 THEN [step |-> "segments", i |-> pc.i + 1]
                 ELSE [step |-> "default", i |-> 0]
        /\ faulted' = ~ (gdtr.table = "gdt" /\ Within(gdtr, index)
                          /\ IF register = "cs" THEN IsCode(gdt[index])
                             ELSE IsWritableData(gdt[index]))
        /\ UNCHANGED <<gdt, idt, gdtr, idtr, stack>>
    BY <1>5 DEF LoadSegment, GoTo, Kernel, SegmentLoads
  <2>3. ~ faulted'
    <3>1. index = (IF register = "cs" THEN 1 ELSE 2)
      BY DEF Kernel, GDT_CODE_SEGMENT_INDEX, GDT_DATA_SEGMENT_INDEX
    <3>2. Within(gdtr, index) /\ gdtr.table = "gdt"
      BY <2>1, <3>1 DEF Within
    <3>3. IF register = "cs" THEN IsCode(gdt[index]) ELSE IsWritableData(gdt[index])
      BY <2>1, <3>1, Segments DEF KernelGdt
    <3> HIDE DEF register, index
    <3> QED
      BY <2>2, <3>2, <3>3
  <2>4. register \in DOMAIN segments
    BY <2>1 DEF SegmentLoads
  <2>5. \A k \in 1 .. pc.i : segments'[SegmentLoads[k]] = gdt'[Kernel(SegmentLoads[k])]
    <3>1. \A k \in 1 .. pc.i : SegmentLoads[k] \in DOMAIN segments
      BY <2>1 DEF SegmentLoads
    <3>2. \A k \in 1 .. pc.i : k \in 1 .. pc.i - 1 \/ k = pc.i
      BY <2>1
    <3> QED
      BY <2>1, <2>2, <2>4, <3>1, <3>2
  <2>6. pc'.step = "default" =>
          \A r \in DOMAIN segments' : segments'[r] = gdt'[Kernel(r)]
    <3>1. ASSUME pc.i = 6, NEW r \in {"cs", "ds", "es", "fs", "gs", "ss"}
          PROVE  \E k \in 1 .. 6 : SegmentLoads[k] = r
      BY DEF SegmentLoads
    <3> QED
      BY <2>1, <2>2, <2>5, <3>1
  <2>7. CallInv'
    BY <1>1, <2>1, <2>2 DEF CallInv
  <2>8. FrameInv'
    BY <1>1, <2>1, <2>2 DEF FrameInv, FrameIsUniform
  <2>9. TablesInv'
    <3>1. /\ pc'.step \in {"segments", "default"} /\ call' \in {1, 2}
          /\ call' > 1 => pc'.step = "default"
      BY <1>1, <2>1, <2>2
    <3>2. gdt' = KernelGdt /\ pc'.step # "gdt"
      BY <2>1, <2>2, <3>1
    <3>3. idt' = ZeroIdt /\ pc'.step \in {"gdt", "lgdt", "segments", "default"}
      BY <2>1, <2>2, <3>1 DEF IInv, TablesInv
    <3>4. /\ gdtr' = [table |-> "gdt", limit |-> 23]
          /\ idtr' = [table |-> "loader", limit |-> 0]
          /\ DOMAIN segments' = {"cs", "ds", "es", "fs", "gs", "ss"}
      BY <1>1, <2>1, <2>2 DEF IInv, TablesInv
    <3>5. pc'.step = "segments" => pc'.i \in 1 .. 6 /\ pc'.i - 1 = pc.i
      BY <2>1, <2>2
    <3> QED
      BY <2>5, <2>6, <3>1, <3>2, <3>3, <3>4, <3>5 DEF TablesInv
  <2>10. KernelInv'
    BY <1>1, <2>1, <2>2, <2>3
       DEF IInv, KernelInv, NeverFaults, PanicHasItsCause, AcknowledgedIsHandled,
           irqVars, picVars, coreVars, seenVars
  <2> QED
    BY <1>2, <2>7, <2>8, <2>9, <2>10 DEF IInv
<1> QED
  BY <1>3, <1>4, <1>5 DEF GdtInit

LEMMA IdtInitStep ==
  ASSUME IInv, IdtInit
  PROVE  IInv'
<1>1. /\ call = 2 /\ call' = IF pc'.step = "run" THEN 3 ELSE 2
      /\ UNCHANGED <<irqVars, coreVars, seenVars, serialVars>>
  BY CallNumber DEF IInv, IdtInit, Calls
<1>2. UartInv'
  BY <1>1, UartRests DEF IInv
<1>3. \/ /\ pc.step = "default" /\ pc' = [step |-> "isr", i |-> 0]
         /\ idt' = DefaultIdt /\ idtr' = idtr
      \/ /\ pc.step = "isr" /\ pc' = [step |-> "lidt", i |-> 0]
         /\ idt' = [v \in DOMAIN idt |-> IF v \in IsrVectors THEN Gate(Isr(v)) ELSE idt[v]]
         /\ idtr' = idtr
      \/ /\ pc.step = "lidt" /\ pc' = [step |-> "run", i |-> 0]
         /\ idt' = idt /\ idtr' = [table |-> "idt", limit |-> 2047]
  BY Limits DEF IdtInit, IdtDefault, InitIdtEntries, LoadIdt, At, GoTo, IDT_SIZE, DefaultIdt
<1>4. UNCHANGED <<gdt, gdtr, segments, stack, faulted>>
  BY DEF IdtInit, IdtDefault, InitIdtEntries, LoadIdt
<1>5. CallInv'
  BY <1>1, <1>3 DEF CallInv
<1>6. FrameInv'
  <2>1. pc'.step \in {"isr", "lidt", "run"}
    BY <1>3
  <2> QED
    BY <2>1 DEF FrameInv, FrameIsUniform
<1>7. TablesInv'
  <2>1. /\ pc.step \in {"default", "isr", "lidt"} /\ pc'.step \in {"isr", "lidt", "run"}
        /\ call' \in {2, 3} /\ (call' > 2 <=> pc'.step = "run")
    BY <1>1, <1>3
  <2>0. TablesInv /\ call > 1 /\ call # 1 /\ call' # 1
    BY <1>1, <2>1 DEF IInv
  <2>2. gdt' = KernelGdt
    BY <1>4, <2>0 DEF TablesInv
  <2>3. /\ gdtr' = [table |-> "gdt", limit |-> 23]
        /\ DOMAIN segments' = {"cs", "ds", "es", "fs", "gs", "ss"}
        /\ \A r \in DOMAIN segments' : segments'[r] = gdt'[Kernel(r)]
    <3>1. /\ gdtr = [table |-> "gdt", limit |-> 23]
          /\ DOMAIN segments = {"cs", "ds", "es", "fs", "gs", "ss"}
          /\ \A r \in DOMAIN segments : segments[r] = gdt[Kernel(r)]
      BY <2>1, <2>0 DEF TablesInv
    <3> QED
      BY <1>4, <3>1
  <2>4. idtr' = IF call' > 2 THEN [table |-> "idt", limit |-> 2047]
                ELSE [table |-> "loader", limit |-> 0]
    <3>1. idtr = [table |-> "loader", limit |-> 0]
      BY <1>1, <2>0 DEF TablesInv
    <3> QED
      BY <1>3, <2>1, <3>1
  <2>5. idt' = IF pc'.step = "isr" THEN DefaultIdt ELSE KernelIdt
    <3>1. CASE pc.step = "default"
      BY <1>3, <3>1
    <3>2. CASE pc.step = "isr"
      <4>1. idt = DefaultIdt
        BY <2>0, <3>2 DEF TablesInv
      <4>2. idt' = [v \in DOMAIN idt |-> IF v \in IsrVectors THEN Gate(Isr(v)) ELSE idt[v]]
        BY <1>3, <3>2
      <4>3. idt' = KernelIdt
        BY <4>1, <4>2 DEF DefaultIdt, KernelIdt
      <4> QED
        BY <1>3, <3>2, <4>3
    <3>3. CASE pc.step = "lidt"
      <4>1. idt = KernelIdt
        BY <2>0, <3>3 DEF TablesInv
      <4> QED
        BY <1>3, <3>3, <4>1
    <3> QED
      BY <2>1, <3>1, <3>2, <3>3
  <2>6. /\ pc'.step \notin {"gdt", "lgdt", "segments", "default"} /\ pc'.step # "segments"
        /\ gdtr'.limit \in {0, 23}
    BY <2>1, <2>3
  <2> QED
    BY <2>0, <2>2, <2>3, <2>4, <2>5, <2>6 DEF TablesInv
<1>8. KernelInv'
  BY <1>1, <1>3, <1>4
     DEF IInv, KernelInv, NeverFaults, PanicHasItsCause, AcknowledgedIsHandled,
         irqVars, picVars, coreVars, seenVars
<1> QED
  BY <1>2, <1>5, <1>6, <1>7, <1>8 DEF IInv

\* The calls that leave the tables alone.
LEMMA SetupSteps ==
  ASSUME IInv, \/ InterruptsInit \/ I8259Init \/ I8254Init \/ UartInit \/ HeapInit
               \/ CpuEnableInterrupts
  PROVE  IInv'
<1>1. /\ pc.step = "run" /\ UNCHANGED vars /\ call \in {3, 4, 5, 6, 7, 9}
      /\ ~ UartInit => call' = call + 1
      /\ UartInit => call = 6 /\ call' \in {6, 7}
  <2>1. InterruptsInit => pc.step = "run" /\ UNCHANGED vars /\ call = 3 /\ call' = call + 1
    BY CallNumber DEF IInv, InterruptsInit, Calls, At
  <2>2. I8259Init => pc.step = "run" /\ UNCHANGED vars /\ call = 4 /\ call' = call + 1
    BY CallNumber DEF IInv, I8259Init, Calls, At
  <2>3. I8254Init => pc.step = "run" /\ UNCHANGED vars /\ call = 5 /\ call' = call + 1
    BY CallNumber DEF IInv, I8254Init, Calls, At
  <2>4. UartInit => pc.step = "run" /\ UNCHANGED vars /\ call = 6 /\ call' \in {6, 7}
    BY CallNumber DEF IInv, UartInit, Calls, At
  <2>5. HeapInit => pc.step = "run" /\ UNCHANGED vars /\ call = 7 /\ call' = call + 1
    BY CallNumber DEF IInv, HeapInit, Calls, At
  <2>6. CpuEnableInterrupts => pc.step = "run" /\ UNCHANGED vars /\ call = 9 /\ call' = call + 1
    BY CallNumber DEF IInv, CpuEnableInterrupts, Calls, At
  <2> QED
    BY <2>1, <2>2, <2>3, <2>4, <2>5, <2>6
<1>2. UNCHANGED <<gdt, idt, gdtr, idtr, segments, pc, stack, faulted>>
  BY <1>1 DEF vars
<1>3. call' \in 3 .. 10
  BY <1>1
<1>4. CallInv' /\ FrameInv'
  BY <1>1, <1>2, <1>3 DEF IInv, CallInv, FrameInv, FrameIsUniform
<1>5. TablesInv'
  <2>1. pc.step \in Late /\ pc'.step \in Late /\ call' > 2
    BY <1>1, <1>2, <1>3 DEF Late
  <2> QED
    BY <1>2, <2>1, TablesRest DEF IInv
<1>6. UartInv'
  BY UartInitStep, UartRests
     DEF IInv, InterruptsInit, I8259Init, I8254Init, UartInit, HeapInit, CpuEnableInterrupts
<1>7. KernelInv'
  <2>1. /\ pc.step = "run" /\ pc'.step = "run" /\ pc' = pc /\ faulted' = faulted
        /\ KernelInv
    BY <1>1, <1>2 DEF IInv
  <2>2. CASE InterruptsInit
    <3>1. call = 3 /\ call' = 4
      BY <2>2, CallNumber DEF IInv, InterruptsInit, Calls
    <3>2. irq_handlers' = {} /\ UNCHANGED <<picVars, coreVars, seenVars>>
      BY <2>2 DEF InterruptsInit
    <3> QED
      BY <2>1, <3>1, <3>2
         DEF KernelInv, NeverFaults, PanicHasItsCause, AcknowledgedIsHandled, picVars, coreVars,
             seenVars
  <2>3. CASE I8259Init
    <3>1. call = 4 /\ call' = 5
      BY <2>3, CallNumber DEF IInv, I8259Init, Calls
    <3>2. /\ imr' = Lines \ {I8259_SLAVE_IRQ} /\ pic' = [masked |-> imr', vectors |-> "kernel"]
          /\ requests' = {} /\ UNCHANGED <<irq_handlers, coreVars, seenVars>>
      BY <2>3 DEF I8259Init
    <3>3. imr' \subseteq Lines /\ pic' \in [masked : SUBSET Lines, vectors : {"firmware", "kernel"}]
      BY <3>2
    <3> QED
      BY <2>1, <3>1, <3>2, <3>3
         DEF KernelInv, NeverFaults, PanicHasItsCause, AcknowledgedIsHandled, coreVars, seenVars
  <2>4. CASE I8254Init
    <3>1. call = 5 /\ call' = 6
      BY <2>4, CallNumber DEF IInv, I8254Init, Calls
    <3>2. /\ irq_handlers' = irq_handlers \union {I8254_IRQ_NO} /\ imr' = imr \ {I8254_IRQ_NO}
          /\ pic' = [pic EXCEPT !.masked = imr']
          /\ UNCHANGED <<requests, coreVars, seenVars>>
      BY <2>4 DEF I8254Init
    <3>3. /\ irq_handlers = {} /\ imr = Lines \ {I8259_SLAVE_IRQ}
          /\ pic = [masked |-> imr, vectors |-> "kernel"]
      BY <2>1, <3>1 DEF KernelInv
    <3>4. /\ irq_handlers' = {I8254_IRQ_NO} /\ imr' = Lines \ {I8254_IRQ_NO, I8259_SLAVE_IRQ}
          /\ pic' = [masked |-> imr', vectors |-> "kernel"] /\ imr' \subseteq Lines
      BY <3>2, <3>3
    <3>5. pic' \in [masked : SUBSET Lines, vectors : {"firmware", "kernel"}]
      BY <3>4
    <3>6. /\ call' > 4 /\ call' > 5 /\ ~ (call' > 7) /\ ~ (call' > 8) /\ ~ (call' > 9)
          /\ ~ (call > 9)
      BY <3>1
    <3>7. /\ requests' = requests /\ heap' = heap /\ idle_thread' = idle_thread
          /\ if_flag' = if_flag /\ ticks' = ticks /\ unhandled' = unhandled
          /\ raised' = raised
      BY <3>2 DEF coreVars, seenVars
    <3> QED
      BY <2>1, <3>4, <3>5, <3>6, <3>7
         DEF KernelInv, NeverFaults, PanicHasItsCause, AcknowledgedIsHandled
  <2>5. CASE UartInit
    <3>1. call = 6 /\ call' \in {6, 7}
      BY <1>1, <2>5
    <3>2. UNCHANGED <<irqVars, coreVars, seenVars>>
      BY <2>5 DEF UartInit
    <3> QED
      BY <2>1, <3>1, <3>2
         DEF KernelInv, NeverFaults, PanicHasItsCause, AcknowledgedIsHandled, irqVars, picVars,
             coreVars, seenVars
  <2>6. CASE HeapInit
    <3>1. call = 7 /\ call' = 8
      BY <2>6, CallNumber DEF IInv, HeapInit, Calls
    <3>2. heap' = TRUE /\ UNCHANGED <<irqVars, idle_thread, if_flag, seenVars>>
      BY <2>6 DEF HeapInit
    <3> QED
      BY <2>1, <3>1, <3>2
         DEF KernelInv, NeverFaults, PanicHasItsCause, AcknowledgedIsHandled, irqVars, picVars,
             seenVars
  <2>7. CASE CpuEnableInterrupts
    <3>1. call = 9 /\ call' = 10
      BY <2>7, CallNumber DEF IInv, CpuEnableInterrupts, Calls
    <3>2. if_flag' = TRUE /\ UNCHANGED <<irqVars, heap, idle_thread, seenVars>>
      BY <2>7 DEF CpuEnableInterrupts
    <3> QED
      BY <2>1, <3>1, <3>2
         DEF KernelInv, NeverFaults, PanicHasItsCause, AcknowledgedIsHandled, irqVars, picVars,
             seenVars
  <2> QED
    BY <2>2, <2>3, <2>4, <2>5, <2>6, <2>7
<1> QED
  BY <1>4, <1>5, <1>6, <1>7 DEF IInv

\* thread_init finds a heap, and the scheduler an idle thread.
LEMMA ThreadSteps ==
  ASSUME IInv, ThreadInit \/ ThreadStartScheduler
  PROVE  IInv'
<1>1. CASE ThreadInit
  <2>1. call = 8 /\ call' = 9 /\ heap
    BY <1>1, CallNumber DEF IInv, KernelInv, ThreadInit, Calls
  <2>2. /\ pc.step = "run" /\ pc' = [step |-> "run", i |-> 0] /\ idle_thread' = heap
        /\ UNCHANGED <<gdt, idt, gdtr, idtr, segments, stack, faulted>>
        /\ UNCHANGED <<irqVars, heap, if_flag, seenVars, serialVars>>
    BY <1>1, <2>1 DEF ThreadInit, At, GoTo
  <2>3. CallInv' /\ FrameInv' /\ UartInv'
    BY <2>1, <2>2, UartRests DEF IInv, CallInv, FrameInv, FrameIsUniform
  <2>4. TablesInv'
    BY <2>1, <2>2, TablesRest DEF IInv, Late
  <2>5. KernelInv'
    BY <2>1, <2>2
       DEF IInv, KernelInv, NeverFaults, PanicHasItsCause, AcknowledgedIsHandled, irqVars,
           picVars, seenVars
  <2> QED
    BY <2>3, <2>4, <2>5 DEF IInv
<1>2. CASE ThreadStartScheduler
  <2>1. call = 10 /\ call' = 11 /\ idle_thread
    BY <1>2, CallNumber, CallList DEF IInv, KernelInv, ThreadStartScheduler
  <2>2. /\ pc.step = "run" /\ ~ faulted'
        /\ UNCHANGED <<gdt, idt, gdtr, idtr, segments, pc, stack>>
        /\ UNCHANGED <<irqVars, coreVars, seenVars, serialVars>>
    BY <1>2, <2>1 DEF ThreadStartScheduler, At
  <2>3. CallInv' /\ FrameInv' /\ UartInv'
    BY <2>1, <2>2, UartRests DEF IInv, CallInv, FrameInv, FrameIsUniform
  <2>4. TablesInv'
    BY <2>1, <2>2, TablesRest DEF IInv, Late
  <2>5. KernelInv'
    BY <2>1, <2>2
       DEF IInv, KernelInv, NeverFaults, PanicHasItsCause, AcknowledgedIsHandled, irqVars,
           picVars, coreVars, seenVars
  <2> QED
    BY <2>3, <2>4, <2>5 DEF IInv
<1> QED
  BY <1>1, <1>2

-----------------------------------------------------------------------------
(* The devices, interrupts and panic. *)

\* Steps outside the code leave it where it is.
LEMMA OutsideSteps ==
  ASSUME IInv, \/ \E line \in Devices : Request(line)
               \/ PanicPrints \/ CpuHalt \/ LineSends \/ UNCHANGED allVars
  PROVE  IInv'
<1>1. /\ UNCHANGED <<gdt, idt, gdtr, idtr, segments, pc, stack, faulted>>
      /\ UNCHANGED <<call, irq_handlers, imr, pic, coreVars, seenVars>>
      /\ requests' \subseteq Devices
  <2>1. requests \subseteq Devices
    BY DEF IInv, KernelInv
  <2> QED
    BY <2>1 DEF Request, PanicPrints, CpuHalt, LineSends, allVars, vars, irqVars, picVars
<1>2. CallInv' /\ FrameInv' /\ TablesInv'
  <2>1. CallInv'
    BY <1>1 DEF IInv, CallInv
  <2>2. FrameInv'
    BY <1>1 DEF IInv, FrameInv, FrameIsUniform
  <2>3. TablesInv'
    BY <1>1 DEF IInv, TablesInv, Kernel
  <2> QED
    BY <2>1, <2>2, <2>3
<1>3. UartInv'
  BY PrintedStep, TransmitStep, UartRests
     DEF IInv, Request, PanicPrints, CpuHalt, LineSends, allVars
<1>4. KernelInv'
  BY <1>1 DEF IInv, KernelInv, NeverFaults, PanicHasItsCause, AcknowledgedIsHandled, coreVars,
     seenVars
<1> QED
  BY <1>2, <1>3, <1>4 DEF IInv

\* An interrupt of a device comes once interrupts are on, and then only the timer's line
\* is open: it goes through the gate of its vector.
LEMMA AcknowledgeStep ==
  ASSUME IInv, NEW line \in Devices, Acknowledge(line)
  PROVE  IInv'
<1>1. if_flag /\ call \in 10 .. 11 /\ pc.step = "run"
  BY DEF IInv, KernelInv, CallInv, Acknowledge
<1>2. /\ pic = [masked |-> Lines \ {I8254_IRQ_NO, I8259_SLAVE_IRQ}, vectors |-> "kernel"]
  BY <1>1 DEF IInv, KernelInv
<1>3. line = I8254_IRQ_NO
  <2>1. line \in Lines /\ line # I8259_SLAVE_IRQ
    BY BootAssumption DEF Lines, I8259_SLAVE_IRQ
  <2>2. line \notin pic.masked
    BY DEF Acknowledge, Unmasked
  <2> QED
    BY <1>2, <2>1, <2>2
<1>4. VectorOf(line) = IDT_IRQ_BASE + I8254_IRQ_NO
  BY <1>2, <1>3 DEF VectorOf
<1>5. IDT_IRQ_BASE + I8254_IRQ_NO = 32 /\ 32 \in 0 .. 255 /\ 32 \in IsrVectors
      /\ 32 \notin ErrorCodeVectors
  BY DEF IDT_IRQ_BASE, I8254_IRQ_NO, IsrVectors, ErrorCodeVectors
<1>6. /\ faulted' = faulted /\ pc' = [step |-> "stub", i |-> 32]
      /\ stack' = <<>> \o <<"eip", "cs", "eflags">>
      /\ UNCHANGED <<gdt, idt, gdtr, idtr, segments>>
  <2>1. Interrupt(32)
    BY <1>4, <1>5 DEF Acknowledge
  <2> QED
    <3>1. CallInv /\ TablesInv
      BY DEF IInv
    <3>2. Enters(32)
      BY <1>5, <2>1, <3>1, InterruptTaken
    <3> QED
      BY <1>5, <3>2 DEF Enters
<1>7. /\ requests' = requests \ {line} /\ if_flag' = FALSE
      /\ unhandled' = unhandled \union {line}
      /\ UNCHANGED <<call, irq_handlers, imr, pic, heap, idle_thread, ticks, raised, serialVars>>
  BY DEF Acknowledge
<1>8. CallInv'
  BY <1>1, <1>6, <1>7 DEF CallInv
<1>9. FrameInv'
  BY <1>5, <1>6 DEF FrameInv, FrameIsUniform
<1>10. TablesInv'
  BY <1>1, <1>6, <1>7, TablesRest DEF IInv, Late
<1>11. UartInv'
  BY <1>7, UartRests DEF IInv
<1>12. KernelInv'
  <2>1. KernelInv /\ (pc'.step = "stub" /\ pc'.i = 32) /\ unhandled' = {I8254_IRQ_NO}
    BY <1>1, <1>3, <1>6, <1>7 DEF IInv, KernelInv, AcknowledgedIsHandled
  <2>2. /\ requests' \subseteq requests /\ ~ if_flag' /\ if_flag' \in BOOLEAN
        /\ UNCHANGED <<call, irq_handlers, imr, pic, heap, idle_thread>>
        /\ UNCHANGED <<ticks, raised, faulted>>
    BY <1>6, <1>7
  <2> QED
    BY <1>1, <1>5, <2>1, <2>2
       DEF KernelInv, NeverFaults, PanicHasItsCause, AcknowledgedIsHandled
<1> QED
  BY <1>8, <1>9, <1>10, <1>11, <1>12 DEF IInv

LEMMA LineVectorRange == LineVectors = 32 .. 47
BY DEF LineVectors, Lines, IDT_IRQ_BASE

LEMMA RaiseStep ==
  ASSUME IInv, NEW v \in Raised, Raise(v)
  PROVE  IInv'
<1>1. v \in 0 .. 255 /\ (v \in LineVectors <=> v \in 32 .. 47)
  BY BootAssumption, LineVectorRange
<1>2. call = 11
  BY CallNumber DEF IInv, Raise
<1>3. /\ pc.step = "run" /\ faulted' = faulted
      /\ stack' = (IF v \in ErrorCodeVectors THEN <<"error">> ELSE <<>>)
                    \o <<"eip", "cs", "eflags">>
      /\ pc' = [step |-> IF v \in IsrVectors THEN "stub" ELSE "halted", i |-> v]
      /\ UNCHANGED <<gdt, idt, gdtr, idtr, segments>>
  <2>1. CallInv /\ TablesInv /\ Interrupt(v)
    BY DEF IInv, Raise
  <2>2. Enters(v)
    BY <1>1, <2>1, InterruptTaken
  <2> QED
    BY <2>2 DEF Enters
<1>4. /\ raised' = (raised \/ v \notin LineVectors) /\ if_flag' = FALSE
      /\ UNCHANGED <<call, irqVars, heap, idle_thread, ticks, unhandled, serialVars>>
  BY DEF Raise
<1>5. pc'.step \in {"stub", "halted"} /\ pc'.i = v
  BY <1>3
<1>6. CallInv'
  BY <1>1, <1>2, <1>4, <1>5 DEF CallInv
<1>7. FrameInv'
  BY <1>3, <1>5 DEF FrameInv, FrameIsUniform
<1>8. TablesInv'
  BY <1>2, <1>3, <1>4, <1>5, TablesRest DEF IInv, Late
<1>9. UartInv'
  BY <1>4, UartRests DEF IInv
<1>10. KernelInv'
  <2>1. unhandled' = {} /\ raised' \in BOOLEAN
    BY <1>3, <1>4 DEF IInv, KernelInv, AcknowledgedIsHandled
  <2>2. pc'.step = "halted" \/ v \notin 32 .. 47 => raised'
    BY <1>1, <1>3, <1>4 DEF IsrVectors
  <2> QED
    BY <1>2, <1>3, <1>4, <1>5, <2>1, <2>2
       DEF IInv, KernelInv, NeverFaults, PanicHasItsCause, AcknowledgedIsHandled, irqVars, picVars
<1> QED
  BY <1>6, <1>7, <1>8, <1>9, <1>10 DEF IInv

\* The stub levels the frame: an error code lies below the number, pushed by the
\* processor or by the stub.
LEMMA IsrEntryStep ==
  ASSUME IInv, IsrEntry
  PROVE  IInv'
<1>1. pc.step = "stub" /\ pc.i \in IsrVectors /\ call \in {10, 11} /\ ~ if_flag
  BY DEF IInv, CallInv, KernelInv, FrameInv, IsrEntry, Stub, At
<1>2. pc' = [step |-> "isr_main", i |-> pc.i]
      /\ UNCHANGED <<gdt, idt, gdtr, idtr, segments, faulted>>
      /\ UNCHANGED <<call, irqVars, coreVars, seenVars, serialVars>>
  BY DEF IsrEntry, Stub, GoTo
<1>3. pc.i \in 0 .. 47 /\ pc.i \in 0 .. 255
  BY <1>1 DEF IsrVectors
<1>4. OffsetOf(idt[pc.i]) = Isr(pc.i)
  <2>1. pc.step \in Late
    BY <1>1 DEF Late
  <2> QED
    <3>1. CallInv /\ TablesInv
      BY DEF IInv
    <3>2. GateLeads(pc.i)
      BY <1>3, <2>1, <3>1, TablesBuilt
    <3> QED
      BY <1>1, <3>2 DEF GateLeads
<1>5. PICK n \in IsrVectors :
        /\ Isr(n) = OffsetOf(idt[pc.i])
        /\ stack' = <<n>> \o (IF n \in IsrWithError THEN <<>> ELSE <<"error">>) \o stack
  BY DEF IsrEntry, Stub
<1>6. n = pc.i
  <2>1. n \in 0 .. 47
    BY DEF IsrVectors
  <2> QED
    BY <1>3, <1>4, <1>5, <2>1, IsrIsInjective
<1>7. stack' = <<pc.i, "error", "eip", "cs", "eflags">>
  <2>1. stack = (IF pc.i \in ErrorCodeVectors THEN <<"error">> ELSE <<>>)
                  \o <<"eip", "cs", "eflags">>
    BY <1>1 DEF IInv, FrameInv
  <2>2. pc.i \in IsrWithError <=> pc.i \in ErrorCodeVectors
    BY DEF IsrWithError, ErrorCodeVectors
  <2>3. CASE pc.i \in ErrorCodeVectors
    <3>1. stack = <<"error", "eip", "cs", "eflags">>
      BY <2>1, <2>3, Frames
    <3>2. stack' = <<pc.i>> \o <<>> \o stack
      BY <1>5, <1>6, <2>2, <2>3
    <3>3. <<pc.i>> \o <<>> \o <<"error", "eip", "cs", "eflags">>
            = <<pc.i, "error", "eip", "cs", "eflags">>
      BY Frames
    <3> QED
      BY <3>1, <3>2, <3>3
  <2>4. CASE pc.i \notin ErrorCodeVectors
    <3>1. stack = <<"eip", "cs", "eflags">>
      BY <2>1, <2>4, Frames
    <3>2. stack' = <<pc.i>> \o <<"error">> \o stack
      BY <1>5, <1>6, <2>2, <2>4
    <3>3. <<pc.i>> \o <<"error">> \o <<"eip", "cs", "eflags">>
            = <<pc.i, "error", "eip", "cs", "eflags">>
      BY Frames
    <3> QED
      BY <3>1, <3>2, <3>3
  <2> QED
    BY <2>3, <2>4
<1>8. CallInv'
  BY <1>1, <1>2, <1>3 DEF CallInv
<1>9. FrameInv'
  BY <1>1, <1>2, <1>7 DEF FrameInv, FrameIsUniform
<1>10. TablesInv'
  BY <1>1, <1>2, TablesRest DEF IInv, Late
<1>11. UartInv'
  BY <1>2, UartRests DEF IInv
<1>12. KernelInv'
  BY <1>1, <1>2
     DEF IInv, KernelInv, NeverFaults, PanicHasItsCause, AcknowledgedIsHandled, irqVars, picVars,
         coreVars, seenVars
<1> QED
  BY <1>8, <1>9, <1>10, <1>11, <1>12 DEF IInv

\* isr_main finds the number of the vector, and the handler if it is a line's.
LEMMA IsrDispatchesStep ==
  ASSUME IInv, IsrDispatches
  PROVE  IInv'
<1>1. /\ pc.step = "isr_main" /\ pc.i \in IsrVectors /\ call \in {10, 11} /\ ~ if_flag
      /\ stack = <<pc.i, "error", "eip", "cs", "eflags">>
  BY DEF IInv, CallInv, KernelInv, FrameInv, FrameIsUniform, IsrDispatches, IsrMain, At
<1>2. stack[1] = pc.i
  BY <1>1
<1>3. /\ \/ pc.i < 32 /\ pc' = [step |-> "halted", i |-> pc.i] /\ stack' = stack
         \/ /\ ~ (pc.i < 32) /\ pc' = [step |-> "iret", i |-> pc.i]
            /\ stack' = SubSeq(stack, 3, Len(stack))
      /\ UNCHANGED <<gdt, idt, gdtr, idtr, segments, faulted>>
  BY <1>2 DEF IsrDispatches, IsrMain, GoTo
<1>4. /\ ticks' = IF pc.i - 32 \in irq_handlers THEN 1 - ticks ELSE ticks
      /\ unhandled' = unhandled \ ({pc.i - 32} \intersect irq_handlers)
      /\ UNCHANGED <<call, irqVars, coreVars, raised, serialVars>>
  BY <1>2 DEF IsrDispatches, IDT_IRQ_BASE
<1>5. pc.i \in 0 .. 47 /\ pc.i \in 0 .. 255 /\ pc'.i = pc.i /\ pc'.step \in {"halted", "iret"}
  BY <1>1, <1>3 DEF IsrVectors
<1>6. pc.i \in 32 .. 47 \/ (raised /\ pc.i < 32)
  BY <1>1, <1>5 DEF IInv, KernelInv
<1>7. irq_handlers = {0}
  BY <1>1 DEF IInv, KernelInv, I8254_IRQ_NO
<1>8. unhandled' = {}
  <2>1. unhandled = {} \/ (pc.i = 32 /\ unhandled = {0})
    BY <1>1 DEF IInv, KernelInv, IDT_IRQ_BASE, I8254_IRQ_NO
  <2>2. pc.i = 32 => {pc.i - 32} \intersect irq_handlers = {0}
    BY <1>7
  <2> QED
    BY <1>4, <2>1, <2>2
<1>9. ticks' \in {0, 1}
  BY <1>4 DEF IInv, KernelInv
<1>10. pc'.step = "iret" => stack' = <<"eip", "cs", "eflags">>
  <2>1. SubSeq(<<pc.i, "error", "eip", "cs", "eflags">>, 3, 5) = <<"eip", "cs", "eflags">>
    BY Frames
  <2>2. Len(stack) = 5
    BY <1>1
  <2> QED
    BY <1>1, <1>3, <2>1, <2>2
<1>11. pc'.step = "halted" => raised
  BY <1>3, <1>5, <1>6
<1>12. CallInv'
  BY <1>1, <1>4, <1>5 DEF CallInv
<1>13. FrameInv'
  BY <1>5, <1>10 DEF FrameInv, FrameIsUniform
<1>14. TablesInv'
  BY <1>1, <1>3, <1>4, <1>5, TablesRest DEF IInv, Late
<1>15. UartInv'
  BY <1>4, UartRests DEF IInv
<1>16. KernelInv'
  BY <1>1, <1>3, <1>4, <1>5, <1>8, <1>9, <1>11
     DEF IInv, KernelInv, NeverFaults, PanicHasItsCause, AcknowledgedIsHandled, irqVars, picVars,
         coreVars
<1> QED
  BY <1>12, <1>13, <1>14, <1>15, <1>16 DEF IInv

LEMMA IsrReturnsStep ==
  ASSUME IInv, IsrReturns
  PROVE  IInv'
<1>1. /\ pc.step = "iret" /\ call \in {10, 11} /\ stack = <<"eip", "cs", "eflags">>
  BY DEF IInv, CallInv, FrameInv, IsrReturns, Iret, At
<1>2. /\ faulted' = (SubSeq(stack, 1, 3) # <<"eip", "cs", "eflags">>)
      /\ pc' = [step |-> "run", i |-> 0] /\ if_flag' = TRUE
      /\ UNCHANGED <<gdt, idt, gdtr, idtr, segments>>
      /\ UNCHANGED <<call, irqVars, heap, idle_thread, seenVars, serialVars>>
  BY DEF IsrReturns, Iret, GoTo
<1>3. ~ faulted'
  <2>1. SubSeq(<<"eip", "cs", "eflags">>, 1, 3) = <<"eip", "cs", "eflags">>
    BY Frames
  <2> QED
    BY <1>1, <1>2, <2>1
<1>4. CallInv' /\ FrameInv'
  BY <1>1, <1>2 DEF CallInv, FrameInv, FrameIsUniform
<1>5. TablesInv'
  BY <1>1, <1>2, TablesRest DEF IInv, Late
<1>6. UartInv'
  BY <1>2, UartRests DEF IInv
<1>7. KernelInv'
  BY <1>1, <1>2, <1>3
     DEF IInv, KernelInv, NeverFaults, PanicHasItsCause, AcknowledgedIsHandled, irqVars, picVars,
         seenVars
<1> QED
  BY <1>4, <1>5, <1>6, <1>7 DEF IInv

LEMMA NextIInv ==
  ASSUME IInv, [KNext]_allVars
  PROVE  IInv'
<1>1. CASE Boots
  BY <1>1, GdtInitStep, IdtInitStep, SetupSteps, ThreadSteps DEF Boots
<1>2. CASE \E line \in Devices : Request(line) \/ Acknowledge(line)
  BY <1>2, OutsideSteps, AcknowledgeStep
<1>3. CASE \E v \in Raised : Raise(v)
  BY <1>3, RaiseStep
<1>4. CASE IsrEntry \/ IsrDispatches \/ IsrReturns
  BY <1>4, IsrEntryStep, IsrDispatchesStep, IsrReturnsStep
<1>5. CASE PanicPrints \/ CpuHalt \/ LineSends \/ UNCHANGED allVars
  BY <1>5, OutsideSteps
<1> QED
  BY <1>1, <1>2, <1>3, <1>4, <1>5 DEF KNext

THEOREM InductiveInvariant == KSpec => []IInv
BY InitIInv, NextIInv, PTL DEF KSpec

-----------------------------------------------------------------------------
(* The theorems. *)

\* Whatever the loader left in the chip, uart_init sets the line; what is printed comes
\* out in order, and a byte is lost only when another is written over it.
THEOREM LineIsSound == KSpec => []LineSound
<1>1. IInv => LineSound
  BY DEF IInv, UartInv
<1> QED
  BY <1>1, InductiveInvariant, PTL

\* From the loader's state on, whatever interrupts come when, no call of start_kernel finds
\* what it relies on missing: nothing faults, panics without a cause, or goes unhandled.
THEOREM KernelSurvivesBoot == KSpec => []BootSurvives
<1>1. IInv => BootSurvives
  <2> SUFFICES ASSUME IInv PROVE BootSurvives
    OBVIOUS
  <2>1. TypeOK
    <3>0. TablesInv
      BY DEF IInv
    <3>1. ASSUME NEW e \in SUBSET (0 .. 31)
          PROVE  Gate(e).low \subseteq 0 .. 31 /\ Gate(e).high \subseteq 0 .. 31
      <4>1. /\ Gate(e).low = (e \intersect 0 .. 15) \union {19}
            /\ Gate(e).high = (e \intersect 16 .. 31) \union {9, 10, 11, 15}
        BY CodeSelector DEF Gate, CPU_SEG_P_FLAG, IDT_SEG_INT_GATE
      <4> QED
        BY <4>1
    <3>2. ZeroDescriptor.low \subseteq 0 .. 31 /\ ZeroDescriptor.high \subseteq 0 .. 31
      BY DEF ZeroDescriptor
    <3>3. \A i \in 0 .. 2 : gdt[i].low \subseteq 0 .. 31 /\ gdt[i].high \subseteq 0 .. 31
      <4>1. gdt = ZeroGdt \/ gdt = KernelGdt
        BY <3>0 DEF TablesInv
      <4>2. CASE gdt = ZeroGdt
        BY <3>2, <4>2 DEF ZeroGdt
      <4>3. CASE gdt = KernelGdt
        BY <4>3, Segments DEF KernelGdt
      <4> QED
        BY <4>1, <4>2, <4>3
    <3>4. ASSUME NEW v \in 0 .. 255
          PROVE  idt[v].low \subseteq 0 .. 31 /\ idt[v].high \subseteq 0 .. 31
      <4>1. Isr(v) \in SUBSET (0 .. 31) /\ DefaultHandler \in SUBSET (0 .. 31)
        BY EntryPoints
      <4>2. idt[v] = ZeroDescriptor \/ idt[v] = Gate(Isr(v)) \/ idt[v] = Gate(DefaultHandler)
        <5>1. idt = ZeroIdt \/ idt = DefaultIdt \/ idt = KernelIdt
          BY <3>0 DEF TablesInv
        <5>2. CASE idt = ZeroIdt
          BY <5>2 DEF ZeroIdt
        <5>3. CASE idt = DefaultIdt
          BY <5>3 DEF DefaultIdt
        <5>4. CASE idt = KernelIdt
          BY <5>4 DEF KernelIdt
        <5> QED
          BY <5>1, <5>2, <5>3, <5>4
      <4> QED
        BY <3>1, <3>2, <4>1, <4>2
    <3>5. DOMAIN gdt = 0 .. 2 /\ DOMAIN idt = 0 .. 255
      BY <3>0 DEF TablesInv, ZeroGdt, KernelGdt, ZeroIdt, DefaultIdt, KernelIdt
    <3>6. gdtr.limit \in 0 .. 2^16 - 1 /\ idtr.limit \in 0 .. 2^16 - 1
      BY <3>0, Powers DEF TablesInv
    <3>7. pc.i \in 0 .. 255
      BY DEF IInv, CallInv
    <3> QED
      <4>1. GDT_SIZE - 1 = 2 /\ IDT_SIZE - 1 = 255
        BY DEF GDT_SIZE, IDT_SIZE
      <4>2. \A t \in {gdt[i] : i \in DOMAIN gdt} \union {idt[i] : i \in DOMAIN idt} :
              t.low \subseteq 0 .. 31 /\ t.high \subseteq 0 .. 31
        <5> SUFFICES ASSUME NEW t,
                            t \in {gdt[i] : i \in DOMAIN gdt} \union {idt[i] : i \in DOMAIN idt}
                     PROVE  t.low \subseteq 0 .. 31 /\ t.high \subseteq 0 .. 31
          OBVIOUS
        <5>1. CASE t \in {gdt[i] : i \in DOMAIN gdt}
          <6>1. PICK i \in DOMAIN gdt : t = gdt[i]
            BY <5>1
          <6> QED
            BY <3>3, <3>5, <6>1
        <5>2. CASE t \in {idt[i] : i \in DOMAIN idt}
          <6>1. PICK i \in DOMAIN idt : t = idt[i]
            BY <5>2
          <6> QED
            BY <3>4, <3>5, <6>1
        <5> QED
          BY <5>1, <5>2
      <4>3. /\ DOMAIN gdt = 0 .. GDT_SIZE - 1 /\ DOMAIN idt = 0 .. IDT_SIZE - 1
            /\ pc.i \in 0 .. IDT_SIZE - 1
        BY <3>5, <3>7, <4>1, Zenon
      <4> QED
        BY <3>6, <4>2, <4>3, Zenon DEF TypeOK
  <2>2. KTypeOK
    <3>1. call \in 1 .. 11 /\ (Scheduling <=> call = 11)
      BY CallNumber DEF IInv
    <3>2. irq_handlers \subseteq Lines
      BY DEF IInv, KernelInv, Lines, I8254_IRQ_NO
    <3>3. Scheduling /\ At("run") => if_flag
      BY <3>1 DEF At, IInv, KernelInv
    <3> QED
      <4>1. Com1!TypeOK
        BY DEF IInv, UartInv
      <4>2. call \in 1 .. Len(StartKernel) + 1
        BY <3>1, CallList
      <4>3. /\ imr \subseteq Lines
            /\ pic \in [masked : SUBSET Lines, vectors : {"firmware", "kernel"}]
            /\ requests \subseteq Devices
            /\ heap \in BOOLEAN /\ idle_thread \in BOOLEAN /\ if_flag \in BOOLEAN
            /\ ticks \in {0, 1} /\ raised \in BOOLEAN
        BY DEF IInv, KernelInv
      <4>4. unhandled \subseteq Lines
        BY DEF IInv, KernelInv, AcknowledgedIsHandled, Lines, I8254_IRQ_NO
      <4> QED
        BY <2>1, <3>2, <3>3, <4>1, <4>2, <4>3, <4>4, Zenon DEF KTypeOK
  <2> QED
    BY <2>2 DEF BootSurvives, IInv, KernelInv
<1> QED
  BY <1>1, InductiveInvariant, PTL

\* What gdt_init and idt_init built lasts: flat segments and for each of the 256 vectors its own
\* gate.  Those of 38 vectors, 0 to 21 and the 16 lines', enter isr_main, and whichever
\* of them a device or a thread raises (Raised may be all 256), with one layout of the frame.
THEOREM InterruptsEnter == KSpec => []InterruptsEnterIsrMain
<1>1. IInv => InterruptsEnterIsrMain
  <2> SUFFICES ASSUME IInv PROVE InterruptsEnterIsrMain
    OBVIOUS
  <2>1. SegmentsAreFlat
    <3> SUFFICES ASSUME pc.step \notin {"gdt", "lgdt", "segments"}, NEW r \in DOMAIN segments
                 PROVE  /\ segments[r] \in {gdt[i] : i \in DOMAIN gdt} /\ IsFlat(segments[r])
                        /\ IF r = "cs" THEN IsCode(segments[r])
                           ELSE IsWritableData(segments[r])
      BY DEF SegmentsAreFlat
    <3>1. call > 1
      BY DEF IInv, CallInv
    <3>2. Kernel(r) = (IF r = "cs" THEN 1 ELSE 2)
      BY DEF Kernel, GDT_CODE_SEGMENT_INDEX, GDT_DATA_SEGMENT_INDEX
    <3>3. /\ gdt[1] = GdtDescriptor(1) /\ gdt[2] = GdtDescriptor(2) /\ DOMAIN gdt = 0 .. 2
          /\ segments[r] = gdt[Kernel(r)]
      <4>1. TablesInv /\ pc.step # "gdt"
        BY DEF IInv
      <4>2. gdt = KernelGdt /\ segments[r] = gdt[Kernel(r)]
        BY <3>1, <4>1 DEF TablesInv
      <4> QED
        BY <4>2 DEF KernelGdt
    <3> QED
      BY <3>2, <3>3, Segments
  <2>2. EveryVectorHasItsGate
    <3> SUFFICES ASSUME idtr.table = "idt", NEW v \in 0 .. 255
                 PROVE  /\ Within(idtr, v) /\ IsInterruptGate(idt[v])
                        /\ OffsetOf(idt[v]) = IF v \in (0 .. 21) \union (32 .. 47) THEN Isr(v)
                                              ELSE DefaultHandler
      BY DEF EveryVectorHasItsGate
    <3>1. call > 2
      BY DEF IInv, TablesInv
    <3>2. pc.step \in Late
      BY <3>1 DEF IInv, CallInv, Late
    <3>3. CallInv /\ TablesInv
      BY DEF IInv
    <3>4. GateLeads(v)
      BY <3>2, <3>3, TablesBuilt
    <3> QED
      BY <3>4 DEF GateLeads, IsrVectors
  <2> QED
    BY <2>1, <2>2 DEF InterruptsEnterIsrMain, IInv, FrameInv
<1> QED
  BY <1>1, InductiveInvariant, PTL
=============================================================================
