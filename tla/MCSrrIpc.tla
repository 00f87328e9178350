------------------------------ MODULE MCSrrIpc -----------------------------
(* SrrIpc for TLC.                                                         *)
EXTENDS SrrIpc

(* States are told apart by what a guard or an invariant of the run reads. *)
(* Left out: the fields started, trapReason and cpuTime (one value with a  *)
(* quantum of one), the authors of letters and replies, and parents other  *)
(* than the shell, which no action tests.                                  *)
View ==
  <<[p \in Pid |-> <<pcb[p].state, pcb[p].prio, pcb[p].ppid = ShellPid, Len(mail[p])>>],
    readyQueue, current, sentTo, stage, peer, shellLives, wild>>
=============================================================================
