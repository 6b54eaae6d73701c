---------------------------- MODULE TimerProofs ----------------------------
(***************************************************************************)
(* Proofs about the timer, for every oscillator, width of the counters,    *)
(* frequency and time to sleep.                                            *)
(***************************************************************************)
EXTENDS Timer, TLAPS

-----------------------------------------------------------------------------
(* Arithmetic. *)

\* A number is what its quotient and its remainder make.
LEMMA DivMod ==
  ASSUME NEW a \in Nat, NEW b \in Nat \ {0}
  PROVE  /\ a \div b \in Nat
         /\ a % b \in 0 .. b - 1
         /\ a = b * (a \div b) + (a % b)
OBVIOUS

\* Unsigned arithmetic does nothing to what fits.
LEMMA ModSmall ==
  ASSUME NEW b \in Nat \ {0}, NEW a \in 0 .. b - 1
  PROVE  a % b = a
OBVIOUS

LEMMA ProductNat ==
  ASSUME NEW a \in Nat, NEW b \in Nat
  PROVE  a * b \in Nat
OBVIOUS

\* A number below b * b has a quotient by b that is a digit, too.
LEMMA HighDigit ==
  ASSUME NEW b \in Nat \ {0}, NEW a \in 0 .. b * b - 1
  PROVE  a \div b \in 0 .. b - 1
<1> DEFINE q == a \div b
<1>1. q \in Nat /\ a % b \in Nat /\ a = b * q + (a % b)
  <2>1. b * b \in Nat
    BY ProductNat
  <2> QED
    BY <2>1, DivMod
<1> HIDE DEF q
<1>2. ASSUME q >= b PROVE FALSE
  <2>1. b * q >= b * b
    BY <1>1, <1>2
  <2> QED
    BY <1>1, <2>1
<1> QED
  BY <1>1, <1>2 DEF q

-----------------------------------------------------------------------------
(* The types. *)

LEMMA InitTypeOK == Init => TypeOK
<1> SUFFICES ASSUME Init PROVE TypeOK
  OBVIOUS
<1>1. 0 \in 0 .. BYTE_MOD - 1 /\ 0 \in 0 .. TICK_MOD - 1
  BY TimerAssumption
<1>2. chip \in [low : 0 .. BYTE_MOD - 1, high : 0 .. BYTE_MOD - 1, counts : BOOLEAN]
  BY <1>1 DEF Init
<1> QED
  BY <1>1, <1>2 DEF Init, TypeOK, Steps

\* The divisor has two bytes.
LEMMA BytesOfDivisor ==
  ASSUME i8254_freq' \in 1 .. TICK_MOD - 1
  PROVE  /\ Divisor' \in 0 .. BYTE_MOD * BYTE_MOD - 1
         /\ LowByte' \in 0 .. BYTE_MOD - 1
         /\ HighByte' \in 0 .. BYTE_MOD - 1
<1> DEFINE n == I8254_OSCIL_FREQ \div i8254_freq'
           m == BYTE_MOD * BYTE_MOD
<1>1. n \in Nat
  <2>1. i8254_freq' \in Nat \ {0} /\ I8254_OSCIL_FREQ \in Nat
    BY TimerAssumption
  <2> QED
    BY <2>1, DivMod
<1>2. m \in Nat \ {0}
  BY TimerAssumption
<1>3. Divisor' = n % m
  BY DEF Divisor
<1> HIDE DEF n, m
<1>4. n % m \in 0 .. m - 1
  BY <1>1, <1>2, DivMod
<1>5. Divisor' \in 0 .. BYTE_MOD * BYTE_MOD - 1
  BY <1>3, <1>4 DEF m
<1>6. Divisor' \in Nat
  BY <1>3, <1>4, <1>2
<1>7. Divisor' % BYTE_MOD \in 0 .. BYTE_MOD - 1
  BY <1>6, DivMod, TimerAssumption
<1>8. Divisor' \div BYTE_MOD \in 0 .. BYTE_MOD - 1
  BY <1>5, HighDigit, TimerAssumption
<1> QED
  BY <1>5, <1>7, <1>8 DEF LowByte, HighByte

LEMMA NextTypeOK == TypeOK /\ [Next]_vars => TypeOK'
<1> SUFFICES ASSUME TypeOK, [Next]_vars PROVE TypeOK'
  OBVIOUS
<1>1. ASSUME NEW freq \in Freqs, I8254Init(freq) PROVE TypeOK'
  <2>1. i8254_freq' \in 1 .. TICK_MOD - 1
    BY <1>1, TimerAssumption DEF I8254Init
  <2>2. LowByte' \in 0 .. BYTE_MOD - 1 /\ HighByte' \in 0 .. BYTE_MOD - 1
    BY <2>1, BytesOfDivisor
  <2>3. chip' \in [low : 0 .. BYTE_MOD - 1, high : 0 .. BYTE_MOD - 1, counts : BOOLEAN]
    BY <1>1, <2>2 DEF I8254Init
  <2> QED
    BY <1>1, <2>1, <2>3, TimerAssumption
    DEF I8254Init, TypeOK, Steps, counterVars, sleepVars
<1>2. CASE CpuEnableInterrupts
  BY <1>2 DEF CpuEnableInterrupts, TypeOK, Steps, chipVars, counterVars, sleepVars
<1>3. CASE Fire
  BY <1>3 DEF Fire, TypeOK, chipVars, counterVars, sleepVars
<1>4. CASE I8254IrqHandler
  <2>1. i8254_tick_count' \in 0 .. TICK_MOD - 1
    BY <1>4, TimerAssumption, DivMod DEF I8254IrqHandler, TypeOK
  <2>2. step' \in Steps /\ ticked' \in BOOLEAN /\ slept' \in Nat
    BY <1>4 DEF I8254IrqHandler, TypeOK, Wake, Steps
  <2> QED
    BY <1>4, <2>1, <2>2 DEF I8254IrqHandler, TypeOK, chipVars, sleepVars
<1>5. CASE OtherInterrupt
  BY <1>5 DEF OtherInterrupt, Wake, TypeOK, Steps, chipVars, counterVars, sleepVars
<1>6. ASSUME NEW t \in Times, I8254Sleep(t) PROVE TypeOK'
  <2>1. i8254_freq * t \in Nat
    BY ProductNat, TimerAssumption DEF TypeOK
  <2>2. i8254_tick_count + i8254_freq * t \in Nat
    BY <2>1, TimerAssumption DEF TypeOK
  <2>3. FinishedTick(t) \in 0 .. TICK_MOD - 1
    BY <2>2, TimerAssumption, DivMod DEF FinishedTick
  <2> QED
    BY <1>6, <2>3 DEF I8254Sleep, TypeOK, Steps, chipVars
<1>7. CASE SleepGoesOn
  BY <1>7 DEF SleepGoesOn, TypeOK, Steps, chipVars, counterVars, sleepVars
<1>8. CASE SleepReturns
  BY <1>8 DEF SleepReturns, TypeOK, Steps, chipVars, sleepVars
<1>9. CASE Hlt
  BY <1>9 DEF Hlt, TypeOK, Steps, chipVars, sleepVars
<1>10. CASE UNCHANGED vars
  BY <1>10 DEF vars, TypeOK
<1> QED
  BY <1>1, <1>2, <1>3, <1>4, <1>5, <1>6, <1>7, <1>8, <1>9, <1>10 DEF Next

\* Every variable keeps its type, the tick count and the tick that a sleep waits for
\* their width of uint32_t, and both bytes of the divisor are bytes.
THEOREM TypeCorrect == Spec => []TypeOK
BY InitTypeOK, NextTypeOK, PTL DEF Spec

-----------------------------------------------------------------------------
(* The frequency. *)

\* The divisors fit the channel, which takes 0 for BYTE_MOD * BYTE_MOD, the largest:
\* at 1193182 Hz, every frequency from 19 Hz to the oscillator's own.
DivisorsFit == \A f \in Freqs : I8254_OSCIL_FREQ \div f \in 1 .. BYTE_MOD * BYTE_MOD

\* What the channel reads from the two bytes that i8254_init writes is the quotient,
\* which uint16_t holds or, if it is the largest divisor, wraps to 0.
LEMMA ReloadIsQuotient ==
  ASSUME NEW f \in Freqs, DivisorsFit, I8254Init(f)
  PROVE  Reload' = I8254_OSCIL_FREQ \div f
<1> DEFINE n == I8254_OSCIL_FREQ \div f
           m == BYTE_MOD * BYTE_MOD
<1>1. n \in 1 .. m /\ m \in Nat \ {0}
  BY TimerAssumption DEF DivisorsFit
<1>2. Divisor' = n % m
  BY DEF Divisor, I8254Init
<1> HIDE DEF n
<1>3. Divisor' \in Nat
  BY <1>1, <1>2, DivMod
<1>4. Divisor' = BYTE_MOD * (Divisor' \div BYTE_MOD) + (Divisor' % BYTE_MOD)
  BY <1>3, DivMod, TimerAssumption
<1>5. Divisor' \div BYTE_MOD \in Nat
  BY <1>3, DivMod, TimerAssumption
<1>6. chip'.high = Divisor' \div BYTE_MOD /\ chip'.low = Divisor' % BYTE_MOD
  BY DEF I8254Init, LowByte, HighByte
<1>7. chip'.high * BYTE_MOD + chip'.low = Divisor'
  BY <1>4, <1>5, <1>6, TimerAssumption
<1>8. Reload' = IF Divisor' = 0 THEN m ELSE Divisor'
  BY <1>7 DEF Reload
<1> HIDE DEF m
<1>9. CASE n = m
  BY <1>1, <1>2, <1>8, <1>9 DEF n
<1>10. CASE n \in 1 .. m - 1
  <2>1. n % m = n
    BY <1>1, <1>10, ModSmall
  <2> QED
    BY <2>1, <1>2, <1>8, <1>10 DEF n
<1> QED
  BY <1>1, <1>9, <1>10

LEMMA NextFiresAtFreq ==
  ASSUME TypeOK, DivisorsFit, FiresAtFreq, [Next]_vars
  PROVE  FiresAtFreq'
<1>1. ASSUME NEW f \in Freqs, I8254Init(f) PROVE FiresAtFreq'
  <2> DEFINE q == I8254_OSCIL_FREQ \div f
  <2>1. f \in Nat \ {0} /\ I8254_OSCIL_FREQ \in Nat
    BY TimerAssumption
  <2>2. /\ q \in Nat
        /\ I8254_OSCIL_FREQ % f \in 0 .. f - 1
        /\ I8254_OSCIL_FREQ = f * q + (I8254_OSCIL_FREQ % f)
    BY <2>1, DivMod
  <2>3. Reload' = q /\ i8254_freq' = f
    BY <1>1, ReloadIsQuotient DEF I8254Init
  <2> HIDE DEF q
  <2>4. q * f <= I8254_OSCIL_FREQ /\ I8254_OSCIL_FREQ < (q + 1) * f
    BY <2>1, <2>2
  <2> QED
    BY <2>3, <2>4 DEF FiresAtFreq
<1>2. ASSUME UNCHANGED chipVars PROVE FiresAtFreq'
  BY <1>2 DEF FiresAtFreq, Reload, chipVars
<1>3. UNCHANGED chipVars \/ \E f \in Freqs : I8254Init(f)
  BY DEF Next, vars, chipVars, CpuEnableInterrupts, Fire, I8254IrqHandler, OtherInterrupt,
         I8254Sleep, SleepGoesOn, SleepReturns, Hlt
<1> QED
  BY <1>1, <1>2, <1>3

\* i8254_init makes the channel fire at the frequency that was asked for, or as little
\* above it as a whole divisor allows, and no later step changes that.
THEOREM ChannelIsSound ==
  ASSUME DivisorsFit
  PROVE  Spec => []ChannelSound
<1>1. Init => ChannelSound
  BY InitTypeOK DEF Init, ChannelSound, FiresAtFreq
<1>2. ChannelSound /\ [Next]_vars => ChannelSound'
  BY NextTypeOK, NextFiresAtFreq DEF ChannelSound
<1> QED
  BY <1>1, <1>2, PTL DEF Spec

-----------------------------------------------------------------------------
(* The sleep. *)

\* While a sleep runs, the ticks counted since its start and the tick count move
\* together, and the count is past the tick that is waited for at most by the one
\* tick that a round of the loop sees.
SleepInv ==
  step \in Sleeping =>
    /\ finished_tick + 1 < TICK_MOD
    /\ finished_tick + slept = i8254_tick_count + i8254_freq * time
    /\ ticked => ~ pending
    /\ step = "check" => i8254_tick_count <= finished_tick + (IF ticked THEN 1 ELSE 0)
    /\ step = "hlt" => i8254_tick_count < finished_tick + (IF ticked THEN 1 ELSE 0)
    /\ step = "halted" => ~ ticked /\ i8254_tick_count <= finished_tick

LEMMA NextSleepInv ==
  ASSUME ~ SleepsMayWrap, TypeOK, SleepInv, [Next]_vars
  PROVE  SleepInv'
<1>1. ASSUME NEW f \in Freqs, I8254Init(f) PROVE SleepInv'
  BY <1>1 DEF I8254Init, SleepInv, Sleeping
<1>2. CASE CpuEnableInterrupts
  BY <1>2 DEF CpuEnableInterrupts, SleepInv, Sleeping
<1>3. CASE Fire
  BY <1>3 DEF Fire, SleepInv, Sleeping, chipVars, counterVars, sleepVars
<1>4. CASE I8254IrqHandler
  <2>1. CASE step \in Sleeping
    <3> DEFINE p == i8254_freq * time
    <3>1. ~ ticked /\ i8254_tick_count <= finished_tick
      BY <1>4, <2>1 DEF SleepInv, I8254IrqHandler, TypeOK, Sleeping
    <3>2. i8254_tick_count + 1 \in 0 .. TICK_MOD - 1
      BY <2>1, <3>1, TimerAssumption DEF SleepInv, TypeOK
    <3>3. i8254_tick_count' = i8254_tick_count + 1
      BY <1>4, <3>2, ModSmall, TimerAssumption DEF I8254IrqHandler
    <3>4. slept' = slept + 1 /\ ticked' = TRUE /\ pending' = FALSE
      BY <1>4, <2>1 DEF I8254IrqHandler
    <3>5. p' = p /\ finished_tick' = finished_tick
      BY <1>4 DEF I8254IrqHandler, chipVars, sleepVars
    <3>6. p \in Nat
      BY ProductNat, TimerAssumption DEF TypeOK
    <3>7. step' = IF step = "halted" THEN "check" ELSE step
      BY <1>4 DEF I8254IrqHandler, Wake
    <3> HIDE DEF p
    <3>8. finished_tick + slept = i8254_tick_count + p /\ finished_tick + 1 < TICK_MOD
      BY <2>1 DEF SleepInv, p
    <3>9. finished_tick' + slept' = i8254_tick_count' + p'
      BY <3>3, <3>4, <3>5, <3>6, <3>8 DEF TypeOK
    <3>10. step = "hlt" => i8254_tick_count < finished_tick
      BY <2>1, <3>1 DEF SleepInv, TypeOK
    <3>11. /\ step' = "check" => i8254_tick_count' <= finished_tick' + 1
           /\ step' = "hlt" => i8254_tick_count' < finished_tick' + 1
           /\ step' # "halted"
      BY <3>1, <3>3, <3>5, <3>7, <3>10 DEF TypeOK
    <3> QED
      BY <3>4, <3>5, <3>8, <3>9, <3>11 DEF SleepInv, p
  <2>2. CASE step \notin Sleeping
    BY <1>4, <2>2 DEF I8254IrqHandler, Wake, SleepInv, Sleeping
  <2> QED
    BY <2>1, <2>2
<1>5. CASE OtherInterrupt
  BY <1>5 DEF OtherInterrupt, Wake, SleepInv, Sleeping, chipVars, counterVars, sleepVars, TypeOK
<1>6. ASSUME NEW t \in Times, I8254Sleep(t) PROVE SleepInv'
  <2> DEFINE p == i8254_freq * t
  <2>1. p \in Nat
    BY ProductNat, TimerAssumption DEF TypeOK
  <2> HIDE DEF p
  <2>2. i8254_tick_count + p + 1 < TICK_MOD
    BY <1>6 DEF I8254Sleep, p
  <2>3. i8254_tick_count + p \in 0 .. TICK_MOD - 1
    BY <2>1, <2>2, TimerAssumption DEF TypeOK
  <2>4. finished_tick' = i8254_tick_count + p
    BY <1>6, <2>3, ModSmall, TimerAssumption DEF I8254Sleep, FinishedTick, p
  <2>5. /\ step' = "check" /\ ticked' = FALSE /\ slept' = 0
        /\ i8254_tick_count' = i8254_tick_count
        /\ i8254_freq' * time' = p
    BY <1>6 DEF I8254Sleep, chipVars, p
  <2> QED
    BY <2>1, <2>2, <2>4, <2>5, TimerAssumption DEF SleepInv, TypeOK
<1>7. CASE SleepGoesOn
  BY <1>7 DEF SleepGoesOn, SleepInv, Sleeping, chipVars, counterVars, sleepVars, TypeOK
<1>8. CASE SleepReturns
  BY <1>8 DEF SleepReturns, SleepInv, Sleeping
<1>9. CASE Hlt
  BY <1>9 DEF Hlt, SleepInv, Sleeping, chipVars, sleepVars, TypeOK
<1>10. CASE UNCHANGED vars
  BY <1>10 DEF vars, SleepInv
<1> QED
  BY <1>1, <1>2, <1>3, <1>4, <1>5, <1>6, <1>7, <1>8, <1>9, <1>10 DEF Next

\* A sleep that returns has seen the ticks it waited for, and at most one more.
LEMMA SleepReturnsInTime ==
  ASSUME TypeOK, SleepInv, [Next]_vars, Returns
  PROVE  slept >= i8254_freq * time /\ slept <= i8254_freq * time + 1
<1> DEFINE p == i8254_freq * time
<1>1. SleepReturns
  BY DEF Returns, Next, vars, I8254Init, CpuEnableInterrupts, Fire, I8254IrqHandler,
         OtherInterrupt, Wake, I8254Sleep, SleepGoesOn, Hlt
<1>2. p \in Nat
  BY ProductNat, TimerAssumption DEF TypeOK
<1> HIDE DEF p
<1>3. /\ finished_tick + slept = i8254_tick_count + p
      /\ i8254_tick_count <= finished_tick + 1
  BY <1>1 DEF SleepReturns, SleepInv, Sleeping, TypeOK, p
<1>4. i8254_tick_count >= finished_tick
  BY <1>1 DEF SleepReturns
<1>5. slept >= p /\ slept <= p + 1
  BY <1>2, <1>3, <1>4 DEF TypeOK
<1> QED
  BY <1>5 DEF p

LEMMA SleepInvHolds ==
  ASSUME ~ SleepsMayWrap
  PROVE  Spec => [](TypeOK /\ SleepInv)
<1>1. Init => TypeOK /\ SleepInv
  BY InitTypeOK DEF Init, SleepInv, Sleeping
<1>2. TypeOK /\ SleepInv /\ [Next]_vars => (TypeOK /\ SleepInv)'
  BY NextTypeOK, NextSleepInv
<1> QED
  BY <1>1, <1>2, PTL DEF Spec

\* i8254_sleep does not return before the ticks of that many seconds were counted, if
\* its end does not lie past the top of the tick count.
THEOREM SleepIsNeverEarly ==
  ASSUME ~ SleepsMayWrap
  PROVE  Spec => NeverEarly
<1>1. TypeOK /\ SleepInv /\ [Next]_vars => [Returns => slept >= i8254_freq * time]_vars
  BY SleepReturnsInTime
<1> QED
  BY <1>1, SleepInvHolds, PTL DEF Spec, NeverEarly

\* Nor does it return more than one tick late, although the tick that it waits for may
\* come between its test and its halt.
THEOREM SleepIsAtMostOneTickLate ==
  ASSUME ~ SleepsMayWrap
  PROVE  Spec => AtMostOneTickLate
<1>1. TypeOK /\ SleepInv /\ [Next]_vars => [Returns => slept <= i8254_freq * time + 1]_vars
  BY SleepReturnsInTime
<1> QED
  BY <1>1, SleepInvHolds, PTL DEF Spec, AtMostOneTickLate

=============================================================================
