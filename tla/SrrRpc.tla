------------------------------- MODULE SrrRpc -------------------------------
(***************************************************************************)
(* The message programs of user/ on the kernel of SrrIpc: the shell runs   *)
(* ipc.bin (user/process2.c), which starts BUD.BIN (user/process1.c) and   *)
(* sends to it; BUD.BIN receives and replies to the author.                *)
(*                                                                         *)
(* Two things are wider than the programs: their loops (of 5 and 10        *)
(* rounds) do not end, and the producer forks into several before its      *)
(* loop, as a program may, so that the consumer has more than one client.  *)
(***************************************************************************)
EXTENDS SrrIpc

(* The first two programs run in slots 2 and 3.                            *)
ASSUME SlotsAssumption == MaxProcs >= 4

VARIABLE sender   \* sender_pid in the consumer: a letter it is to answer

rpcVars == <<vars, sender>>

Producer == 2
Consumer == 3
Producers == Pid \ {NullPid, ShellPid, Consumer}

RpcInit == Init /\ sender = Nobody

----------------------------------------------------------------------------
(* The shell's exec, the producer's __f_exec and its forks.                *)
StartUp ==
  /\ \/ current = ShellPid /\ ExecCall(Producer)
     \/ current = Producer /\ \E c \in Pid : IF c = Consumer THEN ExecCall(c) ELSE ForkCall(c)
  /\ UNCHANGED sender

AllStarted == \A p \in Pid : pcb[p].state # "DEAD"

(* The loop of process2: __send, whose two halves are two calls.  The      *)
(* first producer forks the others before its loop.                        *)
ProducerStep(p) ==
  /\ current = p
  /\ \/ (p = Producer => AllStarted) /\ Send(Consumer)
     \/ SendEnd
  /\ UNCHANGED sender

(* The loop of process1: __receive and, when that succeeds, __reply to the *)
(* author.                                                                 *)
ConsumerStep ==
  /\ current = Consumer
  /\ \/ sender = Nobody /\ Receive /\ UNCHANGED sender
     \/ /\ ReceiveEnd
        /\ sender' = IF mail[current] = <<>> THEN Nobody ELSE Head(mail[current])
     \/ /\ sender # Nobody
        /\ Reply(sender)
        /\ sender' = Nobody

RpcTimer == Timer /\ UNCHANGED sender

RpcNext ==
  \/ StartUp
  \/ ConsumerStep
  \/ RpcTimer
  \/ \E p \in Producers : ProducerStep(p)

(* The timer keeps interrupting, and a program that is given the processor *)
(* again and again reaches its next call: weak fairness is not enough, the *)
(* timer takes the processor away in between.                              *)
RpcFairness ==
  /\ WF_rpcVars(RpcTimer)
  /\ SF_rpcVars(StartUp)
  /\ SF_rpcVars(ConsumerStep)
  /\ \A p \in Producers : SF_rpcVars(ProducerStep(p))

RpcSpec == RpcInit /\ [][RpcNext]_rpcVars /\ RpcFairness

----------------------------------------------------------------------------
(* Properties.                                                             *)

(* How far the request of a producer is.                                   *)
Waits(c) == stage[c] = "send" /\ reply[c] = Nobody
Phase(c) == CASE stage[c] # "send"        -> "idle"
              [] Waits(c) /\ sender # c   -> "queued"
              [] Waits(c) /\ sender = c   -> "served"
              [] stage[c] = "send" /\ reply[c] # Nobody -> "answered"

Abstract == INSTANCE Rpc WITH Clients <- Producers,
                              phase <- [c \in Producers |-> Phase(c)],
                              queue <- mail[Consumer]

(* The kernel gives such programs the remote procedure call of Rpc: every  *)
(* request is taken and answered exactly once and in order, no __send      *)
(* returns without its answer, and no request waits for ever.              *)
ImplementsRpc == Abstract!Spec

(* A producer whose letter waits or is being served is BLOCKED, so that it *)
(* takes no processor time from the consumer it waits for.                 *)
WaitingIsBlocked ==
  \A c \in Producers : Phase(c) \in {"queued", "served"} => Blocked(c)

(* A receive never fails: the consumer wakes only when there is a letter.  *)
ReceiveSucceeds ==
  stage[Consumer] = "receive" /\ Ready(pcb, Consumer) => mail[Consumer] # <<>>
=============================================================================
