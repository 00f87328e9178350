------------------------------- MODULE MCHeap -------------------------------
(* Heap for TLC: the constants get their values in the .cfg files.         *)
EXTENDS Heap
=============================================================================
