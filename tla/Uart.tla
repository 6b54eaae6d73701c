-------------------------------- MODULE Uart --------------------------------
(***************************************************************************)
(* The UART driver, src/kernel/arch/i386/uart.c with putchar.c above it,   *)
(* over a model of the chip at COM1: the registers behind its ports, one   *)
(* of which is the divisor or the data register as bit DLAB says, and a    *)
(* transmitter that takes time.  The loader leaves the chip in any state.  *)
(* Boot composes this with the rest of the kernel.                         *)
(***************************************************************************)
EXTENDS Integers, Sequences

CONSTANTS
  Divisors,    \* the divisors a loader may leave behind, as <<low, high>>
  MaxWritten   \* the length of the message printed

VARIABLES
  lcr,      \* line control register: a set of bits
  divisor,  \* <<low, high>>
  ier,      \* interrupt enable register
  thr,      \* transmit holding register, 0 when empty
  sent,     \* what has gone over the line
  step,     \* the next write of uart_init, or past them
  written,  \* history: how many bytes uart_write_byte was given; byte k is k
  overrun   \* history: a byte was written to a full holding register

vars == <<lcr, divisor, ier, thr, sent, step, written, overrun>>

UART_DATA_REG_OFFSET == 0
UART_DIV_LOW_REG_OFFSET == 0
UART_DIV_HIGH_REG_OFFSET == 1
UART_LCR_REG_OFFSET == 3

UART_DLAB_BIT == {7}
UART_LCR_8_DATA_BITS == {0, 1}
UART_DIVISOR == 115200 \div 115200

\* Variant: the divisor is written after DLAB is cleared.
InitWritesLate ==
  << <<UART_LCR_REG_OFFSET, UART_DLAB_BIT>>,
     <<UART_DIV_LOW_REG_OFFSET, UART_DIVISOR % 256>>,
     <<UART_LCR_REG_OFFSET, {}>>,
     <<UART_DIV_HIGH_REG_OFFSET, UART_DIVISOR \div 256>>,
     <<UART_LCR_REG_OFFSET, UART_LCR_8_DATA_BITS>> >>

\* Variant: DLAB stays set.
InitWritesKeepDlab ==
  << <<UART_LCR_REG_OFFSET, UART_DLAB_BIT>>,
     <<UART_DIV_LOW_REG_OFFSET, UART_DIVISOR % 256>>,
     <<UART_DIV_HIGH_REG_OFFSET, UART_DIVISOR \div 256>>,
     <<UART_LCR_REG_OFFSET, UART_DLAB_BIT \union UART_LCR_8_DATA_BITS>> >>

\* The port writes of uart_init: an offset and a byte each.
InitWrites ==
  << <<UART_LCR_REG_OFFSET, UART_DLAB_BIT>>,
     <<UART_DIV_LOW_REG_OFFSET, UART_DIVISOR % 256>>,
     <<UART_DIV_HIGH_REG_OFFSET, UART_DIVISOR \div 256>>,
     <<UART_LCR_REG_OFFSET, {}>>,
     <<UART_LCR_REG_OFFSET, UART_LCR_8_DATA_BITS>> >>

Initialised == step > Len(InitWrites)

-----------------------------------------------------------------------------
Init ==
  /\ lcr \in {{}, UART_DLAB_BIT, {0, 1, 2, 3}, {0, 1, 7}}
  /\ divisor \in Divisors
  /\ ier \in {0, 1}
  /\ thr = 0 /\ sent = <<>>
  /\ step = 1 /\ written = 0 /\ overrun = FALSE

\* io_write_byte to port offset o: what the chip does with the byte.
IoWriteByte(o, b) ==
  \/ o = 3 /\ lcr' = b /\ UNCHANGED <<divisor, ier, thr, overrun>>
  \/ /\ o \in {0, 1} /\ 7 \in lcr
     /\ divisor' = [divisor EXCEPT ![o + 1] = b]
     /\ UNCHANGED <<lcr, ier, thr, overrun>>
  \/ /\ o = 0 /\ 7 \notin lcr
     /\ thr' = b /\ overrun' = (overrun \/ thr # 0)
     /\ UNCHANGED <<lcr, divisor, ier>>
  \/ o = 1 /\ 7 \notin lcr /\ ier' = b /\ UNCHANGED <<lcr, divisor, thr, overrun>>

UartInit ==
  /\ ~ Initialised
  /\ IoWriteByte(InitWrites[step][1], InitWrites[step][2])
  /\ step' = step + 1
  /\ UNCHANGED <<sent, written>>

\* uart_write_byte: nothing asks whether the holding register is empty.
UartWriteByte(byte) == IoWriteByte(UART_DATA_REG_OFFSET, byte)

\* _putchar, called by printf.
Printed ==
  /\ Initialised
  /\ written < MaxWritten
  /\ UartWriteByte(written + 1)
  /\ written' = written + 1
  /\ UNCHANGED <<sent, step>>

\* The transmitter sends the byte it holds.
Transmit ==
  /\ thr # 0
  /\ sent' = Append(sent, thr)
  /\ thr' = 0
  /\ UNCHANGED <<lcr, divisor, ier, step, written, overrun>>

-----------------------------------------------------------------------------
\* Every variable has its type; the interrupts of the chip stay as the loader set
\* them, for the driver has none.
TypeOK ==
  /\ lcr \subseteq 0 .. 7
  /\ divisor \in (0 .. 255) \X (0 .. 255)
  /\ ier \in {0, 1}
  /\ thr \in 0 .. MaxWritten
  /\ sent \in Seq(1 .. MaxWritten)
  /\ step \in 1 .. Len(InitWrites) + 1
  /\ written \in 0 .. MaxWritten
  /\ overrun \in BOOLEAN

\* Whatever the loader left, after uart_init the line runs at 115200 baud with 8 data
\* bits, no parity and 1 stop bit, and port 0 takes data.
LineIsSet ==
  Initialised => divisor = <<1, 0>> /\ lcr = {0, 1}

\* Only bytes given to uart_write_byte reach the line, in order and each at most
\* once: uart_init sends none by accident, although it writes to the data port.
SentInOrder ==
  /\ \A i \in 1 .. Len(sent) : sent[i] <= written
  /\ \A i, j \in 1 .. Len(sent) : i < j => sent[i] < sent[j]

\* A byte is lost only when it is written over one that still waits.
LostOnlyByOverrun ==
  ~ overrun => Len(sent) + (IF thr = 0 THEN 0 ELSE 1) = written
=============================================================================
