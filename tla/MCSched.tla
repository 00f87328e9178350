------------------------------ MODULE MCSched ------------------------------
(* Sched for TLC: the constants get their values in the .cfg files.        *)
EXTENDS Sched
=============================================================================
