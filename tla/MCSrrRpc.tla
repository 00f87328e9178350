------------------------------ MODULE MCSrrRpc ------------------------------
(* SrrRpc for TLC.                                                         *)
EXTENDS SrrRpc
=============================================================================
