---------------------------- MODULE MCLinkedList ----------------------------
(* The list with a few nodes. *)
EXTENDS LinkedList
=============================================================================
