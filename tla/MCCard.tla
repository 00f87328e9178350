------------------------------- MODULE MCCard --------------------------------
(* Card for TLC.                                                           *)
EXTENDS Card
=============================================================================
