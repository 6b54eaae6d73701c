-------------------------------- MODULE Timer --------------------------------
(***************************************************************************)
(* The i8254 timer, src/kernel/arch/i386/i8254.c: how its divisor is       *)
(* programmed, how its interrupts are counted, and how i8254_sleep waits.  *)
(* The processor halts in a sleep until any interrupt has been handled;    *)
(* interrupts come between any two steps of the sleep.  There is at most   *)
(* one sleep, since a thread that sleeps keeps the processor.  Dispatch    *)
(* (Interrupts) is here one step per interrupt.                            *)
(***************************************************************************)
EXTENDS Integers

CONSTANTS
  I8254_OSCIL_FREQ,  \* 1193182
  BYTE_MOD,          \* 256
  TICK_MOD,          \* uint32_t arithmetic is modulo this: 2^32
  Freqs,             \* what i8254_init may be called with
  Times,             \* what i8254_sleep is called with
  SleepsMayWrap      \* whether sleeps start that end past the counter's top

ASSUME TimerAssumption ==
  /\ I8254_OSCIL_FREQ \in Nat \ {0}
  /\ BYTE_MOD \in Nat \ {0}
  /\ TICK_MOD \in Nat \ {0}
  /\ Freqs \subseteq 1 .. TICK_MOD - 1
  /\ Times \subseteq 0 .. TICK_MOD - 1
  /\ SleepsMayWrap \in BOOLEAN

VARIABLES
  step,              \* what the processor does outside interrupts, see Steps
  i8254_freq,
  chip,              \* channel 0: the bytes of its divisor, and whether it counts
  pending,           \* the controller has latched a tick
  if_flag,           \* EFLAGS.IF, set at the end of the boot
  i8254_tick_count,
  finished_tick,     \* the local of i8254_sleep
  ticked,            \* a tick was counted since the loop last reached hlt
  time,              \* history: the time_s of the last sleep
  slept              \* history: ticks counted since it began

vars == <<step, i8254_freq, chip, pending, if_flag, i8254_tick_count,
          ticked, slept, finished_tick, time>>

chipVars == <<i8254_freq, chip>>
counterVars == <<i8254_tick_count, ticked, slept>>
sleepVars == <<finished_tick, time>>

\* start, boot: before i8254_init and before interrupts are enabled; run: no sleep;
\* check: at the test of the loop; hlt: about to halt; halted.
Steps == {"start", "boot", "run", "check", "hlt", "halted"}
Sleeping == {"check", "hlt", "halted"}

-----------------------------------------------------------------------------
Init ==
  /\ step = "start"
  /\ i8254_freq = 0
  /\ chip = [low |-> 0, high |-> 0, counts |-> FALSE]
  /\ pending = FALSE
  /\ if_flag = FALSE
  /\ i8254_tick_count = 0
  /\ finished_tick = 0
  /\ ticked = FALSE
  /\ time = 0
  /\ slept = 0

\* The divisor, in a uint16_t.
Divisor == (I8254_OSCIL_FREQ \div i8254_freq) % (BYTE_MOD * BYTE_MOD)

\* Variant: the high byte is not shifted down.
HighByteUnshifted == Divisor % BYTE_MOD

LowByte == Divisor % BYTE_MOD
HighByte == Divisor \div BYTE_MOD

\* i8254_init, at boot with interrupts disabled: channel 0 takes the low byte of its
\* divisor, then the high byte, and counts; cpu_register_irq unmasks its line.
I8254Init(freq) ==
  /\ step = "start"
  /\ i8254_freq' = freq
  /\ chip' = [low |-> LowByte', high |-> HighByte', counts |-> TRUE]
  /\ step' = "boot"
  /\ UNCHANGED <<pending, if_flag, counterVars, sleepVars>>

\* start_kernel enables interrupts.
CpuEnableInterrupts ==
  /\ step = "boot"
  /\ if_flag' = TRUE
  /\ step' = "run"
  /\ UNCHANGED <<chipVars, pending, counterVars, sleepVars>>

-----------------------------------------------------------------------------
\* The channel has counted down.  A period is longer than a round of the loop: the
\* loop reaches hlt again before the next tick but one.
Fire ==
  /\ chip.counts
  /\ step \in Sleeping => ~ ticked
  /\ pending' = TRUE
  /\ UNCHANGED <<step, chipVars, if_flag, counterVars, sleepVars>>

\* An interrupt wakes the processor, and cpu_wait_for_interrupt returns.
Wake == step' = IF step = "halted" THEN "check" ELSE step

\* Variant: the handler does not count.
I8254IrqHandlerIdle ==
  /\ if_flag /\ pending
  /\ pending' = FALSE
  /\ Wake
  /\ UNCHANGED <<chipVars, if_flag, counterVars, sleepVars>>

\* i8254_irq_handler, called by the interrupt dispatch.
I8254IrqHandler ==
  /\ if_flag /\ pending
  /\ pending' = FALSE
  /\ i8254_tick_count' = (i8254_tick_count + 1) % TICK_MOD
  /\ Wake
  /\ ticked' = (step \in Sleeping)
  /\ slept' = IF step \in Sleeping THEN slept + 1 ELSE slept
  /\ UNCHANGED <<chipVars, if_flag, sleepVars>>

\* Another interrupt is handled, which matters only to a halted processor.
OtherInterrupt ==
  /\ step = "halted"
  /\ Wake
  /\ UNCHANGED <<chipVars, pending, if_flag, counterVars, sleepVars>>

\* Variant: one tick less.
FinishedTickEarly(t) == (i8254_tick_count + i8254_freq * t - 1) % TICK_MOD

\* Variant: the tick that is under way is counted on top.
FinishedTickLate(t) == (i8254_tick_count + i8254_freq * t + 1) % TICK_MOD

\* The sum of the tick count and of required_ticks, each modulo TICK_MOD.
FinishedTick(t) == (i8254_tick_count + i8254_freq * t) % TICK_MOD

\* i8254_sleep(t) is called.
I8254Sleep(t) ==
  /\ step = "run"
  /\ ~ SleepsMayWrap => i8254_tick_count + i8254_freq * t + 1 < TICK_MOD
  /\ finished_tick' = FinishedTick(t)
  /\ step' = "check"
  /\ time' = t
  /\ slept' = 0
  /\ ticked' = FALSE
  /\ UNCHANGED <<chipVars, pending, if_flag, i8254_tick_count>>

\* The loop goes on to halt ...
SleepGoesOn ==
  /\ step = "check"
  /\ i8254_tick_count < finished_tick
  /\ step' = "hlt"
  /\ UNCHANGED <<chipVars, pending, if_flag, counterVars, sleepVars>>

\* ... or ends.
SleepReturns ==
  /\ step = "check"
  /\ i8254_tick_count >= finished_tick
  /\ step' = "run"
  /\ ticked' = FALSE
  /\ slept' = 0
  /\ UNCHANGED <<chipVars, pending, if_flag, i8254_tick_count, sleepVars>>

Hlt ==
  /\ step = "hlt"
  /\ step' = "halted"
  /\ ticked' = FALSE
  /\ UNCHANGED <<chipVars, pending, if_flag, i8254_tick_count, slept, sleepVars>>

Next ==
  \/ \E freq \in Freqs : I8254Init(freq)
  \/ CpuEnableInterrupts
  \/ Fire
  \/ I8254IrqHandler
  \/ OtherInterrupt
  \/ \E t \in Times : I8254Sleep(t)
  \/ SleepGoesOn
  \/ SleepReturns
  \/ Hlt

Spec == Init /\ [][Next]_vars

\* The channel goes on counting, its interrupts are handled, and the processor
\* executes the loop.
Fairness ==
  /\ WF_vars(Fire)
  /\ WF_vars(I8254IrqHandler)
  /\ WF_vars(SleepGoesOn \/ SleepReturns \/ Hlt)

FairSpec == Spec /\ Fairness

-----------------------------------------------------------------------------
\* Every variable has its type.
TypeOK ==
  /\ step \in Steps
  /\ i8254_freq \in 0 .. TICK_MOD - 1
  /\ chip \in [low : 0 .. BYTE_MOD - 1, high : 0 .. BYTE_MOD - 1, counts : BOOLEAN]
  /\ pending \in BOOLEAN /\ if_flag \in BOOLEAN /\ ticked \in BOOLEAN
  /\ i8254_tick_count \in 0 .. TICK_MOD - 1
  /\ finished_tick \in 0 .. TICK_MOD - 1
  /\ time \in {0} \union Times
  /\ slept \in Nat

\* What the channel counts down from; it takes 0 for the largest divisor.
Reload ==
  LET n == chip.high * BYTE_MOD + chip.low
  IN  IF n = 0 THEN BYTE_MOD * BYTE_MOD ELSE n

\* i8254_init's comment: the timer interrupt will fire at frequency freq.  No other
\* whole divisor of the oscillator's frequency comes closer from above.
FiresAtFreq ==
  chip.counts =>
    /\ Reload * i8254_freq <= I8254_OSCIL_FREQ
    /\ I8254_OSCIL_FREQ < (Reload + 1) * i8254_freq

\* i8254_init and the interrupt handler keep the counters in their widths and the
\* channel at its frequency.
ChannelSound == TypeOK /\ FiresAtFreq

Returns == step = "check" /\ step' = "run"

\* i8254_sleep's comment, "Sleep for time_s seconds": it does not return before that
\* many seconds' ticks have been counted.
NeverEarly == [][Returns => slept >= i8254_freq * time]_vars

\* It returns at most one tick late: the tick that it waits for may come after its
\* test and before the processor halts, which then sleeps through another tick.
AtMostOneTickLate == [][Returns => slept <= i8254_freq * time + 1]_vars

\* Every sleep ends: each halt is ended by a later tick, even if the tick that was
\* waited for came before the halt.
SleepEnds == step \in Sleeping ~> step = "run"
=============================================================================
