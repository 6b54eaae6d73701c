------------------------------- MODULE MCHeap -------------------------------
(* The heap with the i386 ABI and an arena of a few blocks. *)
EXTENDS Heap
=============================================================================
