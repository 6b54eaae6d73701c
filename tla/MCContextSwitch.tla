-------------------------- MODULE MCContextSwitch --------------------------
(* Two threads on stacks of a few words. *)
EXTENDS ContextSwitch
=============================================================================
