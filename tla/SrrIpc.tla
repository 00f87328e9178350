------------------------------- MODULE SrrIpc -------------------------------
(***************************************************************************)
(* Send / receive / reply between processes (kernel/srr_ipc.c), with the   *)
(* user-side wrappers of kernel/syscall.c that split __send and __receive  *)
(* into two system calls each, over the scheduler of Sched.                *)
(*                                                                         *)
(* A letter is its author's pid and a stored reply is its author's pid:    *)
(* the payloads are copied and never looked at.  A call refused with an    *)
(* error code (a null pointer, an empty buffer, no memory, the pid of no   *)
(* process, EDEADLK) changes nothing and is no step.                       *)
(***************************************************************************)
EXTENDS Sched

CONSTANT MaxMail   \* bound: letters a mailbox holds ("uncapped" in the code)

ASSUME MaxMailAssumption == MaxMail \in Nat /\ MaxMail >= 1

VARIABLES
  mail,         \* [Pid -> Seq(Pid)], mailbox.mail; count is its length
  sentTo,       \* [Pid -> Pid], mailbox.sent_to; 0 when no reply is expected
  reply,        \* [Pid -> Pid], author of mailbox.reply; 0 when msg is NULL
  stage,        \* [Pid -> Stage], the wrapper the process is inside
  peer,         \* [Pid -> Pid], the pid argument of the __send in progress
  shellLives,   \* slot 1 still runs the shell
  wild          \* the kernel has written through a null list pointer

ipcVars == <<mail, sentTo, reply, stage, peer, shellLives, wild>>
vars == <<schedVars, ipcVars>>

Stage  == {"user", "send", "receive", "exec"}
Nobody == 0

TypeOK ==
  /\ SchedTypeOK
  /\ mail   \in [Pid -> Seq(Pid \ {NullPid})]
  /\ sentTo \in [Pid -> Pid]
  /\ reply  \in [Pid -> Pid]
  /\ stage  \in [Pid -> Stage]
  /\ peer   \in [Pid -> Pid]
  /\ shellLives \in BOOLEAN
  /\ wild \in BOOLEAN

Init ==
  /\ SchedInit
  /\ mail   = [p \in Pid |-> <<>>]
  /\ sentTo = [p \in Pid |-> Nobody]
  /\ reply  = [p \in Pid |-> Nobody]
  /\ stage  = [p \in Pid |-> "user"]
  /\ peer   = [p \in Pid |-> Nobody]
  /\ shellLives = TRUE
  /\ wild = FALSE

----------------------------------------------------------------------------
(* A process makes any call but the shell, which only execs and exits.     *)
AtUser == InUserProcess /\ stage[current] \in {"user", "exec"} /\ ~wild
Calls  == AtUser /\ ~(shellLives /\ current = ShellPid)

(* init_process and create_process make a slot's mailbox when they first   *)
(* give it a priority; before that its list pointers are zero.             *)
HasMailbox(p) == pcb[p].prio # "LOW"

Enter(s, p) ==
  /\ stage' = [stage EXCEPT ![current] = s]
  /\ peer'  = [peer EXCEPT ![current] = p]

(* The checks of send that pass: not pid 0, not oneself, and not a process *)
(* that is itself waiting for the caller (EDEADLK).                        *)
BadMaySend(q) == q # NullPid /\ q # current
MaySend(q) == q # NullPid /\ q # current /\ sentTo[q] # current

BadSend(q) ==
  /\ Calls /\ MaySend(q) /\ HasMailbox(q)
  /\ Len(mail[q]) < MaxMail
  /\ mail' = [mail EXCEPT ![q] = Append(@, current)]
  /\ sentTo' = [sentTo EXCEPT ![current] = q]
  /\ Wake(q)
  /\ Enter("send", q)
  /\ UNCHANGED <<reply, shellLives, wild>>
Send(q) ==
  /\ Calls /\ MaySend(q) /\ HasMailbox(q)
  /\ Len(mail[q]) < MaxMail
  /\ mail' = [mail EXCEPT ![q] = Append(@, current)]
  /\ sentTo' = [sentTo EXCEPT ![current] = q]
  /\ WakeAndBlock(q)
  /\ Enter("send", q)
  /\ UNCHANGED <<reply, shellLives, wild>>

(* The same call for a slot that never held a process: list_add_tail goes  *)
(* through a null pointer and nothing is claimed of the kernel afterwards. *)
SendToUnused(q) ==
  /\ Calls /\ MaySend(q) /\ ~HasMailbox(q)
  /\ wild' = TRUE
  /\ UNCHANGED <<schedVars, mail, sentTo, reply, stage, peer, shellLives>>

(* send_end hands over the reply in the mailbox, or -ENOMSG if there is    *)
(* none; either way __send returns.                                        *)
BadSendEnd ==
  /\ InUserProcess /\ stage[current] = "send" /\ ~wild
  /\ Enter("user", Nobody)
  /\ UNCHANGED <<schedVars, mail, sentTo, reply, shellLives, wild>>
SendEnd ==
  /\ InUserProcess /\ stage[current] = "send" /\ ~wild
  /\ reply' = [reply EXCEPT ![current] = Nobody]
  /\ Enter("user", Nobody)
  /\ UNCHANGED <<schedVars, mail, sentTo, shellLives, wild>>

BadReceive ==
  /\ Calls
  /\ BlockSelf
  /\ Enter("receive", Nobody)
  /\ UNCHANGED <<mail, sentTo, reply, shellLives, wild>>
BadReceiveTest ==
  /\ Calls
  /\ IF mail[current] # <<>> THEN BlockSelf ELSE UNCHANGED schedVars
  /\ Enter("receive", Nobody)
  /\ UNCHANGED <<mail, sentTo, reply, shellLives, wild>>
Receive ==
  /\ Calls
  /\ IF mail[current] = <<>> THEN BlockSelf ELSE UNCHANGED schedVars
  /\ Enter("receive", Nobody)
  /\ UNCHANGED <<mail, sentTo, reply, shellLives, wild>>

(* receive_end pops the oldest letter, or fails when there is none.        *)
ReceiveEnd ==
  /\ InUserProcess /\ stage[current] = "receive" /\ ~wild
  /\ mail' = IF mail[current] = <<>> THEN mail
                                     ELSE [mail EXCEPT ![current] = Tail(@)]
  /\ Enter("user", Nobody)
  /\ UNCHANGED <<schedVars, sentTo, reply, shellLives, wild>>

(* reply is accepted whenever the process named still has sent_to set to   *)
(* the caller, whether or not the caller has received its letter.          *)
BadReply(q) ==
  /\ Calls
  /\ sentTo[q] = current
  /\ reply' = [reply EXCEPT ![q] = current]
  /\ sentTo' = [sentTo EXCEPT ![q] = Nobody]
  /\ UNCHANGED <<schedVars, mail, stage, peer, shellLives, wild>>
Reply(q) ==
  /\ Calls
  /\ sentTo[q] = current
  /\ reply' = [reply EXCEPT ![q] = current]
  /\ sentTo' = [sentTo EXCEPT ![q] = Nobody]
  /\ Wake(q)
  /\ UNCHANGED <<mail, stage, peer, shellLives, wild>>

(* A new process starts with an empty mailbox, whatever the slot's last    *)
(* process left there.                                                     *)
FreshMailbox(c) ==
  /\ mail'   = [mail EXCEPT ![c] = <<>>]
  /\ sentTo' = [sentTo EXCEPT ![c] = Nobody]
  /\ reply'  = [reply EXCEPT ![c] = Nobody]

ForkCall(c) ==
  /\ Calls
  /\ Fork(c)
  /\ FreshMailbox(c)
  /\ stage' = [stage EXCEPT ![c] = "user", ![current] = "user"]
  /\ peer'  = [peer EXCEPT ![c] = Nobody]
  /\ UNCHANGED <<shellLives, wild>>

ExecCall(c) ==
  /\ AtUser
  /\ Exec(c)
  /\ FreshMailbox(c)
  /\ stage' = [stage EXCEPT ![c] = "user", ![current] = "exec"]
  /\ peer'  = [peer EXCEPT ![c] = Nobody]
  /\ UNCHANGED <<shellLives, wild>>

(* The mailbox stays as it is: letters in it are lost and their authors    *)
(* are not woken.  A process revived later runs whatever follows its exit  *)
(* call, so slot 1 no longer runs the shell.                               *)
ExitCall ==
  /\ AtUser
  /\ Exit
  /\ stage' = [stage EXCEPT ![current] = "user"]
  /\ shellLives' = (shellLives /\ current # ShellPid)
  /\ UNCHANGED <<mail, sentTo, reply, peer, wild>>

YieldCall == Calls /\ Yield /\ UNCHANGED ipcVars

Timer == ~wild /\ TimerInterrupt /\ UNCHANGED ipcVars

Wild == wild /\ UNCHANGED vars

Next ==
  \/ Timer
  \/ YieldCall
  \/ SendEnd
  \/ Receive
  \/ ReceiveEnd
  \/ ExitCall
  \/ \E q \in Pid : Send(q) \/ SendToUnused(q) \/ Reply(q) \/ ForkCall(q) \/ ExecCall(q)
  \/ Wild

Spec == Init /\ [][Next]_vars

----------------------------------------------------------------------------
(* Properties that hold.                                                   *)

Blocked(p) == pcb[p].state = "BLOCKED"

(* No lost wakeup: no process sleeps in receive while a letter waits in    *)
(* its mailbox.                                                            *)
NoLostWakeup == \A p \in Pid : Blocked(p) /\ stage[p] = "receive" => mail[p] = <<>>

(* A process asleep in send is registered as waiting for the process it    *)
(* sent to, so that process can reply to it; with sent_to reset by a reply *)
(* or a new owner of the slot it would sleep for good.                     *)
SenderIsRegistered ==
  \A p \in Pid : Blocked(p) /\ stage[p] = "send" => sentTo[p] = peer[p] /\ peer[p] # Nobody

(* What the EDEADLK test of send is for: no two processes ever wait for    *)
(* each other's reply, through any exits and reuse of their slots.         *)
NoMutualWait == \A p, q \in Pid \ {Nobody} : ~(sentTo[p] = q /\ sentTo[q] = p)

(* The shell sleeps in f_exec only while a child of slot 1 lives: the exit *)
(* that wakes it cannot be missed.                                         *)
ShellHasChild ==
  Blocked(ShellPid) /\ stage[ShellPid] = "exec" =>
    \E c \in Pid \ {NullPid, ShellPid} :
      pcb[c].state # "DEAD" /\ pcb[c].ppid = ShellPid

----------------------------------------------------------------------------
(* Promises of the documentation that the code does not keep.              *)

(* send_end: "Receiving the reply from the receiver."  The reply a __send  *)
(* returns was written by the process it sent to.                          *)
ReplyIsFromReceiver ==
  [][SendEnd /\ reply[current] # Nobody => reply[current] = peer[current]]_vars

=============================================================================
