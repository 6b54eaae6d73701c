------------------------------ MODULE MCThreads ------------------------------
(***************************************************************************)
(* Instances of Threads for TLC.  Every thread takes two blocks, so the    *)
(* number of blocks in the configurations bounds the number of threads.    *)
(***************************************************************************)
EXTENDS Threads
=============================================================================
