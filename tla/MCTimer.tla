------------------------------- MODULE MCTimer -------------------------------
(***************************************************************************)
(* Instances of Timer for TLC.  Oscillator, bytes and counters are scaled  *)
(* down in proportion: the divisor of a low frequency still takes more     *)
(* than two bytes, and the tick counter wraps within a few sleeps.         *)
(***************************************************************************)
EXTENDS Timer
=============================================================================
