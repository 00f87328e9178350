------------------------------ MODULE MCSockets ------------------------------
(* Sockets for TLC.                                                        *)
EXTENDS Sockets, TLC

(* Processes and ports are only compared for equality.                     *)
Symmetry == Permutations(Process) \cup Permutations(Port)

(* A slot at or beyond packets_pending is written before it is read, so    *)
(* what an earlier packet left in it is not part of the state.             *)
Stored(s) == [i \in 0 .. MaxPendingPackets - 1 |-> IF i < pending[s] THEN data[s][i] ELSE None]
View == <<socketTable, pending, [s \in Socket |-> Stored(s)],
          que, frames, lost, own, polled, boundTo>>
=============================================================================
