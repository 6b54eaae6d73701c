----------------------------- MODULE MCInterrupts -----------------------------
(* Instances of Interrupts for TLC: the lines are chosen in the configurations. *)
EXTENDS Interrupts
=============================================================================
