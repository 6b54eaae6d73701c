--------------------------- MODULE MCThreadsOnHeap ---------------------------
(* Thread creation on an arena with room for two or three threads. *)
EXTENDS ThreadsOnHeap
=============================================================================
