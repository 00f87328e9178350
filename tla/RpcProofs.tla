----------------------------- MODULE RpcProofs -----------------------------
(***************************************************************************)
(* The message programs get a remote procedure call, for any number of     *)
(* producers: the safety part of the refinement of Rpc, and the invariants *)
(* of SrrRpc.                                                              *)
(*                                                                         *)
(* The argument: a step of the programs is a step of SrrIpc, so IpcInv     *)
(* holds.  Over it, each producer is in one of four situations (Client):   *)
(* its letter is in the consumer's mailbox, or with the consumer, or       *)
(* answered, or there is none.  Only in the first two is it BLOCKED, and   *)
(* since it is running when it calls send_end, it can only find its answer.*)
(***************************************************************************)
EXTENDS SrrRpc, SrrProofs

Letters == mail[Consumer]
InMail(c) == \E i \in 1 .. Len(Letters) : Letters[i] = c

Idle(c)     == stage[c] \in {"user", "exec"} /\ reply[c] = Nobody /\ ~InMail(c) /\ sender # c
Queued(c)   == Waits(c) /\ InMail(c) /\ sender # c /\ Blocked(c)
Served(c)   == Waits(c) /\ ~InMail(c) /\ sender = c /\ Blocked(c)
Answered(c) == /\ stage[c] = "send" /\ reply[c] # Nobody
               /\ ~InMail(c) /\ sender # c /\ pcb[c].state = "READY"

Client(c) == Idle(c) \/ Queued(c) \/ Served(c) \/ Answered(c)

(* Every letter is one producer's only one.                                *)
MailSound ==
  /\ \A i \in 1 .. Len(Letters) : Letters[i] \in Producers
  /\ \A i, j \in 1 .. Len(Letters) : Letters[i] = Letters[j] => i = j

ConsumerSound ==
  /\ sender \in Producers \cup {Nobody}
  /\ stage[Consumer] \in {"user", "receive"}
  /\ sender # Nobody => stage[Consumer] = "user"
  /\ pcb[Consumer].state = "DEAD" => Letters = <<>> /\ stage[Consumer] = "user"
  /\ ReceiveSucceeds

(* The inductive invariant.                                                *)
RpcInv ==
  /\ IpcInv
  /\ MailSound
  /\ ConsumerSound
  /\ \A c \in Producers : Client(c)

----------------------------------------------------------------------------
LEMMA Pids ==
  /\ Consumer \in Pid /\ Consumer # Nobody /\ Consumer # ShellPid /\ Consumer # NullPid
  /\ Consumer \notin Producers /\ Nobody \notin Producers /\ ShellPid \notin Producers
  /\ Producer \in Producers /\ Producers \subseteq Pid
BY MaxProcsAssumption, SlotsAssumption
DEF Pid, Consumer, Producer, Producers, Nobody, NullPid, ShellPid

LEMMA RpcTypes ==
  ASSUME RpcInv
  PROVE  /\ SchedInv /\ current \in Pid
         /\ mail \in [Pid -> Seq(Pid \ {NullPid})] /\ sentTo \in [Pid -> Pid]
         /\ reply \in [Pid -> Pid] /\ stage \in [Pid -> Stage]
         /\ Letters \in Seq(Pid \ {NullPid}) /\ Len(Letters) \in Nat
         /\ InUserProcess => pcb[current].state = "READY"
<1>1. SchedInv /\ TypeOK
  BY DEF RpcInv, IpcInv
<1>2. InUserProcess => pcb[current].state = "READY"
  BY <1>1, CurrentIsReady DEF Ready
<1>3. Letters \in Seq(Pid \ {NullPid})
  BY <1>1, Pids DEF TypeOK, Letters
<1> QED
  BY <1>1, <1>2, <1>3 DEF TypeOK, SchedTypeOK

(* The programs only make calls of SrrIpc.                                 *)
LEMMA RpcIsIpc ==
  ASSUME ConsumerSound, [RpcNext]_rpcVars
  PROVE  [Next]_vars
<1>0. sender \in Pid
  BY Pids, PidFacts DEF ConsumerSound
<1>1. CASE StartUp
  BY <1>1, Pids DEF StartUp, Next
<1>2. CASE ConsumerStep
  <2> QED
    BY <1>0, <1>2 DEF ConsumerStep, Next
<1>3. CASE RpcTimer
  BY <1>3 DEF RpcTimer, Next
<1>4. ASSUME NEW p \in Producers, ProducerStep(p) PROVE Next
  BY <1>4, Pids DEF ProducerStep, Next
<1>5. CASE UNCHANGED rpcVars
  BY <1>5 DEF rpcVars
<1> QED
  BY <1>1, <1>2, <1>3, <1>4, <1>5 DEF RpcNext

LEMMA PhaseOf ==
  ASSUME NEW c
  PROVE  /\ Idle(c) => Phase(c) = "idle"
         /\ Queued(c) => Phase(c) = "queued"
         /\ Served(c) => Phase(c) = "served"
         /\ Answered(c) => Phase(c) = "answered"
BY DEF Phase, Idle, Queued, Served, Answered, Waits
(* A producer whose letter, answer and place a step leaves alone.          *)
LEMMA ClientStays ==
  ASSUME NEW c \in Producers, Client(c),
         stage'[c] = stage[c], reply'[c] = reply[c], InMail(c)' <=> InMail(c),
         sender' = c <=> sender = c,
         pcb[c].state # "DEAD" => pcb'[c].state = pcb[c].state
  PROVE  Client(c)' /\ Phase(c)' = Phase(c)
<1>1. stage[c] = "send" => pcb[c].state # "DEAD"
  BY DEF Client, Idle, Queued, Served, Answered, Blocked, Waits
<1>2. Client(c)'
  BY <1>1 DEF Client, Idle, Queued, Served, Answered, Blocked, Waits
<1>3. Phase(c)' = Phase(c)
  BY DEF Phase, Waits
<1> QED
  BY <1>2, <1>3

(* A step that changes no letter, no answer and the state of no client.    *)
LEMMA MailStays ==
  ASSUME RpcInv, Letters' = Letters
  PROVE  MailSound' /\ \A c \in Producers : InMail(c)' <=> InMail(c)
BY DEF RpcInv, MailSound, InMail

(* What a step does to a producer, as Rpc sees it.                         *)
Goes(p, from, to) ==
  /\ Phase(p) = from /\ Phase(p)' = to
  /\ \A c \in Producers \ {p} : Phase(c)' = Phase(c)

Stays == Letters' = Letters /\ \A c \in Producers : Phase(c)' = Phase(c)

(* f_exec and fork, in the shell and in the first producer.                *)
LEMMA StartUpKeeps ==
  ASSUME RpcInv, StartUp
  PROVE  MailSound' /\ ConsumerSound' /\ (\A c \in Producers : Client(c)') /\ Stays
<1> USE RpcTypes, Pids
<1>1. PICK c \in Pid : ForkCall(c) \/ ExecCall(c)
  BY DEF StartUp
<1>2. /\ c # current /\ pcb[c].state = "DEAD" /\ pcb'[c].state = "READY"
      /\ \A p \in Pid \ {c, current} : pcb'[p].state = pcb[p].state
      /\ current # ShellPid => pcb'[current].state = pcb[current].state
  <2>1. Fork(c) \/ Exec(c)
    BY <1>1, Zenon DEF ForkCall, ExecCall
  <2>2. pcb[c].state = "DEAD"
    BY <2>1, Zenon DEF Fork, Exec, FirstFree
  <2> QED
    BY <2>1, <2>2, ForkStates, ExecStates
<1>3. current = ShellPid \/ current = Producer
  BY DEF StartUp
<1>4. /\ stage'[c] = "user" /\ stage'[current] \in {"user", "exec"}
      /\ \A p \in Pid \ {c, current} : stage'[p] = stage[p]
      /\ \A p \in Pid \ {c} : mail'[p] = mail[p]
  BY <1>1, <1>2, CreateStages DEF RpcInv
<1>5. /\ mail'[c] = <<>> /\ reply'[c] = Nobody
      /\ \A p \in Pid \ {c} : reply'[p] = reply[p]
  <2>1. FreshMailbox(c)
    BY <1>1, Zenon DEF ForkCall, ExecCall
  <2> QED
    BY <2>1 DEF FreshMailbox
<1>6. stage[current] \in {"user", "exec"} /\ sender' = sender
  <2>1. AtUser
    BY <1>1, Zenon DEF ForkCall, ExecCall, Calls
  <2> QED
    BY <2>1 DEF AtUser, StartUp
<1>7. Letters' = Letters
  BY <1>2, <1>4, <1>5 DEF RpcInv, ConsumerSound, Letters
<1>8. MailSound' /\ \A p \in Producers : InMail(p)' <=> InMail(p)
  BY <1>7, MailStays
<1>9. ASSUME NEW p \in Producers PROVE Client(p)' /\ Phase(p)' = Phase(p)
  <2>1. Client(p)
    BY DEF RpcInv
  <2>2. CASE p = c \/ p = current
    <3>1. Idle(p)
      BY <1>2, <1>6, <2>1, <2>2 DEF Client, Idle, Queued, Served, Answered, Blocked, Waits
    <3>2. Idle(p)'
      BY <1>4, <1>5, <1>6, <1>8, <2>2, <3>1 DEF Idle
    <3>3. Phase(p) = "idle"
      BY <3>1, PhaseOf
    <3>4. Phase(p)' = "idle"
      BY <3>2 DEF Phase, Idle, Waits
    <3> QED
      BY <3>1, <3>2, <3>3, <3>4 DEF Client
  <2>3. CASE p # c /\ p # current
    BY <1>2, <1>4, <1>5, <1>6, <1>8, <2>1, <2>3, ClientStays
  <2> QED
    BY <2>2, <2>3
<1>10. ConsumerSound'
  <2>1. CASE c = Consumer
    BY <1>2, <1>4, <1>6, <2>1 DEF RpcInv, ConsumerSound, ReceiveSucceeds
  <2>2. CASE c # Consumer
    <3>1. current # Consumer
      BY <1>3 DEF Producers, Producer, Consumer
    <3> QED
      BY <1>2, <1>4, <1>6, <1>7, <2>2, <3>1
      DEF RpcInv, ConsumerSound, ReceiveSucceeds, Letters, Ready
  <2> QED
    BY <2>1, <2>2
<1> QED
  BY <1>7, <1>8, <1>9, <1>10 DEF Stays

(* The timer and idle steps.                                               *)
LEMMA TimerKeeps ==
  ASSUME RpcInv, RpcTimer \/ UNCHANGED rpcVars
  PROVE  MailSound' /\ ConsumerSound' /\ (\A c \in Producers : Client(c)') /\ Stays
<1> USE RpcTypes, Pids
<1>1. \A p \in Pid : pcb'[p].state = pcb[p].state
  BY TimerAndYieldStates DEF RpcTimer, Timer, rpcVars, vars, schedVars
<1>2. mail' = mail /\ stage' = stage /\ reply' = reply /\ sender' = sender
  BY DEF RpcTimer, Timer, rpcVars, vars, ipcVars
<1>3. Letters' = Letters
  BY <1>2 DEF Letters
<1>4. MailSound' /\ \A p \in Producers : InMail(p)' <=> InMail(p)
  BY <1>3, MailStays
<1>5. ASSUME NEW p \in Producers PROVE Client(p)' /\ Phase(p)' = Phase(p)
  BY <1>1, <1>2, <1>4, ClientStays DEF RpcInv
<1>6. ConsumerSound'
  BY <1>1, <1>2, <1>3 DEF RpcInv, ConsumerSound, ReceiveSucceeds, Letters, Ready
<1> QED
  BY <1>3, <1>4, <1>5, <1>6 DEF Stays

(* __send: an idle producer's letter comes last in the mailbox.            *)
LEMMA SendKeeps ==
  ASSUME RpcInv, NEW p \in Producers, current = p, Send(Consumer), sender' = sender
  PROVE  /\ MailSound' /\ ConsumerSound' /\ \A c \in Producers : Client(c)'
         /\ Goes(p, "idle", "queued") /\ Letters' = Append(Letters, p)
<1> USE RpcTypes, Pids
<1>1. /\ mail' = [mail EXCEPT ![Consumer] = Append(@, p)]
      /\ stage' = [stage EXCEPT ![p] = "send"] /\ reply' = reply
      /\ WakeAndBlock(Consumer) /\ stage[p] \in {"user", "exec"}
  BY DEF Send, Enter, Calls, AtUser
<1>2. /\ pcb'[Consumer].state = "READY" /\ pcb'[p].state = "BLOCKED"
      /\ \A c \in Pid \ {Consumer, p} : pcb'[c].state = pcb[c].state
  BY <1>1, WakeStates, WakeAndBlockBlocks
<1>3. Idle(p)
  BY <1>1 DEF RpcInv, Client, Idle, Queued, Served, Answered, Waits
<1>4. /\ Letters' = Append(Letters, p) /\ Len(Letters') = Len(Letters) + 1
      /\ \A i \in 1 .. Len(Letters) : Letters'[i] = Letters[i]
      /\ Letters'[Len(Letters) + 1] = p
  <2>1. Letters' = Append(Letters, p) /\ p \in Pid \ {NullPid}
    BY <1>1 DEF Letters, Producers
  <2> QED
    BY <2>1
<1>5. \A c \in Producers : InMail(c)' <=> InMail(c) \/ c = p
  <2>1. 1 .. Len(Letters') = (1 .. Len(Letters)) \cup {Len(Letters) + 1}
    BY <1>4
  <2> QED
    BY <1>4, <2>1 DEF InMail
<1>6. MailSound'
  BY <1>3, <1>4 DEF RpcInv, MailSound, Idle, InMail
<1>7. ASSUME NEW c \in Producers \ {p} PROVE Client(c)' /\ Phase(c)' = Phase(c)
  BY <1>1, <1>2, <1>5, ClientStays DEF RpcInv
<1>8. Queued(p)'
  <2>1. reply[p] = Nobody /\ sender # p
    BY <1>3 DEF Idle
  <2> QED
    BY <1>1, <1>2, <1>5, <2>1 DEF Queued, Waits, Blocked
<1>9. Phase(p) = "idle" /\ Phase(p)' = "queued"
  <2>1. Phase(p) = "idle"
    BY <1>3, PhaseOf
  <2>2. Phase(p)' = "queued"
    BY <1>8 DEF Queued, Phase, Waits
  <2> QED
    BY <2>1, <2>2
<1>10. ConsumerSound'
  <2>1. Letters' # <<>>
    <3>1. Len(Letters') # 0 /\ Len(<<>>) = 0
      BY <1>4
    <3> QED
      BY <3>1
  <2>2. stage'[Consumer] = stage[Consumer]
    BY <1>1
  <2> QED
    BY <1>2, <2>1, <2>2 DEF RpcInv, ConsumerSound, ReceiveSucceeds, Letters
<1> QED
  BY <1>4, <1>6, <1>7, <1>8, <1>9, <1>10 DEF Goes, Client

(* send_end: the producer runs, so it has been answered.                   *)
LEMMA SendEndKeeps ==
  ASSUME RpcInv, NEW p \in Producers, current = p, SendEnd, sender' = sender
  PROVE  /\ MailSound' /\ ConsumerSound' /\ \A c \in Producers : Client(c)'
         /\ Goes(p, "answered", "idle") /\ Letters' = Letters
<1> USE RpcTypes, Pids
<1>1. /\ mail' = mail /\ pcb' = pcb /\ pcb[p].state = "READY" /\ stage[p] = "send"
      /\ stage' = [stage EXCEPT ![p] = "user"] /\ reply' = [reply EXCEPT ![p] = Nobody]
  BY DEF SendEnd, Enter, schedVars
<1>2. Answered(p)
  BY <1>1 DEF RpcInv, Client, Idle, Queued, Served, Blocked
<1>3. Letters' = Letters
  BY <1>1 DEF Letters
<1>4. MailSound' /\ \A c \in Producers : InMail(c)' <=> InMail(c)
  BY <1>3, MailStays
<1>5. ASSUME NEW c \in Producers \ {p} PROVE Client(c)' /\ Phase(c)' = Phase(c)
  BY <1>1, <1>4, ClientStays DEF RpcInv
<1>6. Idle(p)'
  BY <1>1, <1>2, <1>4 DEF Idle, Answered
<1>7. Phase(p) = "answered" /\ Phase(p)' = "idle"
  <2>1. Phase(p) = "answered"
    BY <1>2, PhaseOf
  <2>2. Phase(p)' = "idle"
    BY <1>6 DEF Idle, Phase, Waits
  <2> QED
    BY <2>1, <2>2
<1>8. ConsumerSound'
  <2>1. stage'[Consumer] = stage[Consumer]
    BY <1>1
  <2> QED
    BY <1>1, <1>3, <2>1 DEF RpcInv, ConsumerSound, ReceiveSucceeds, Letters
<1> QED
  BY <1>3, <1>4, <1>5, <1>6, <1>7, <1>8 DEF Goes, Client

(* receive: the consumer sleeps only when it has no letter.                *)
LEMMA ReceiveKeeps ==
  ASSUME RpcInv, current = Consumer, sender = Nobody, Receive, sender' = sender
  PROVE  MailSound' /\ ConsumerSound' /\ (\A c \in Producers : Client(c)') /\ Stays
<1> USE RpcTypes, Pids
<1>1. /\ mail' = mail /\ reply' = reply
      /\ stage' = [stage EXCEPT ![Consumer] = "receive"]
      /\ IF Letters = <<>> THEN BlockSelf ELSE UNCHANGED schedVars
  BY DEF Receive, Enter, Letters
<1>2. /\ \A p \in Pid \ {Consumer} : pcb'[p].state = pcb[p].state
      /\ pcb'[Consumer].state # "DEAD"
      /\ Letters = <<>> => pcb'[Consumer].state = "BLOCKED"
  <2>1. CASE Letters = <<>>
    BY <1>1, <2>1, BlockSelfStates
  <2>2. CASE Letters # <<>>
    <3>1. pcb' = pcb /\ pcb[Consumer].state = "READY"
      BY <1>1, <2>2 DEF schedVars, Receive, Calls, AtUser
    <3> QED
      BY <2>2, <3>1
  <2> QED
    BY <2>1, <2>2
<1>3. Letters' = Letters
  BY <1>1 DEF Letters
<1>4. MailSound' /\ \A c \in Producers : InMail(c)' <=> InMail(c)
  BY <1>3, MailStays
<1>5. ASSUME NEW c \in Producers PROVE Client(c)' /\ Phase(c)' = Phase(c)
  BY <1>1, <1>2, <1>4, ClientStays DEF RpcInv
<1>6. ConsumerSound'
  <2>1. stage'[Consumer] = "receive"
    BY <1>1 DEF Stage
  <2> QED
    BY <1>2, <1>3, <2>1 DEF ConsumerSound, ReceiveSucceeds, Letters, Ready
<1> QED
  BY <1>3, <1>4, <1>5, <1>6 DEF Stays

(* receive_end: there is a letter, and the oldest is taken.                *)
LEMMA ReceiveEndKeeps ==
  ASSUME RpcInv, current = Consumer, ReceiveEnd, NEW p, p = Head(Letters),
         sender' = IF Letters = <<>> THEN Nobody ELSE Head(Letters)
  PROVE  /\ MailSound' /\ ConsumerSound' /\ \A c \in Producers : Client(c)'
         /\ Letters # <<>> /\ p \in Producers /\ sender = Nobody
         /\ Goes(p, "queued", "served") /\ Letters' = Tail(Letters)
<1> USE RpcTypes, Pids
<1>1. /\ stage[Consumer] = "receive" /\ pcb' = pcb /\ reply' = reply
      /\ stage' = [stage EXCEPT ![Consumer] = "user"] /\ pcb[Consumer].state = "READY"
  BY DEF ReceiveEnd, Enter, schedVars
<1>2. Letters # <<>> /\ sender = Nobody
  BY <1>1 DEF RpcInv, ConsumerSound, ReceiveSucceeds, Letters, Ready
<1>3. sender' = p /\ p = Letters[1] /\ 1 \in 1 .. Len(Letters)
  BY <1>2
<1>4. p \in Producers
  BY <1>3 DEF RpcInv, MailSound
<1>5. Letters' = Tail(Letters)
  BY <1>2 DEF ReceiveEnd, Letters
<1>6. /\ Len(Letters') = Len(Letters) - 1
      /\ \A i \in 1 .. Len(Letters) - 1 : Letters'[i] = Letters[i + 1]
  BY <1>2, <1>5
<1>7. MailSound'
  <2>1. \A i \in 1 .. Len(Letters') : i + 1 \in 1 .. Len(Letters) /\ Letters'[i] = Letters[i + 1]
    BY <1>2, <1>6
  <2>2. \A i, j \in 1 .. Len(Letters') : i + 1 = j + 1 => i = j
    BY <1>6
  <2> QED
    BY <2>1, <2>2 DEF RpcInv, MailSound
<1>8. \A c \in Producers : InMail(c)' <=> InMail(c) /\ c # p
  <2> SUFFICES ASSUME NEW c \in Producers PROVE InMail(c)' <=> InMail(c) /\ c # p
    OBVIOUS
  <2>1. ASSUME InMail(c)' PROVE InMail(c) /\ c # p
    <3>1. PICK i \in 1 .. Len(Letters) - 1 : Letters[i + 1] = c
      BY <1>6, <2>1 DEF InMail
    <3>2. i + 1 \in 1 .. Len(Letters) /\ i + 1 # 1
      BY <3>1
    <3> QED
      BY <1>3, <3>1, <3>2 DEF InMail, RpcInv, MailSound
  <2>2. ASSUME InMail(c), c # p PROVE InMail(c)'
    <3>1. PICK i \in 1 .. Len(Letters) : Letters[i] = c
      BY <2>2 DEF InMail
    <3>2. i - 1 \in 1 .. Len(Letters) - 1 /\ i = (i - 1) + 1
      BY <1>3, <2>2, <3>1
    <3> QED
      BY <1>6, <3>1, <3>2 DEF InMail
  <2> QED
    BY <2>1, <2>2
<1>9. Queued(p)
  <2>1. InMail(p)
    BY <1>3 DEF InMail
  <2> QED
    BY <1>4, <2>1 DEF RpcInv, Client, Idle, Served, Answered
<1>10. Served(p)'
  BY <1>1, <1>3, <1>4, <1>8, <1>9 DEF Queued, Served, Waits, Blocked
<1>11. ASSUME NEW c \in Producers \ {p} PROVE Client(c)' /\ Phase(c)' = Phase(c)
  BY <1>1, <1>2, <1>3, <1>8, ClientStays DEF RpcInv
<1>12. Phase(p) = "queued" /\ Phase(p)' = "served"
  <2>1. Phase(p) = "queued"
    BY <1>9, PhaseOf
  <2>2. Phase(p)' = "served"
    BY <1>10 DEF Served, Phase, Waits
  <2> QED
    BY <2>1, <2>2
<1>13. ConsumerSound'
  <2>1. stage'[Consumer] = "user"
    BY <1>1 DEF Stage
  <2> QED
    BY <1>1, <1>3, <1>4, <2>1 DEF ConsumerSound, ReceiveSucceeds
<1> QED
  BY <1>2, <1>4, <1>5, <1>7, <1>10, <1>11, <1>12, <1>13 DEF Goes, Client

(* reply: the author wakes with its answer.                                *)
LEMMA ReplyKeeps ==
  ASSUME RpcInv, current = Consumer, NEW p, p = sender, p # Nobody, Reply(p),
         sender' = Nobody
  PROVE  /\ MailSound' /\ ConsumerSound' /\ \A c \in Producers : Client(c)'
         /\ p \in Producers /\ Goes(p, "served", "answered") /\ Letters' = Letters
<1> USE RpcTypes, Pids
<1>1. p \in Producers /\ stage[Consumer] = "user"
  BY DEF RpcInv, ConsumerSound
<1>2. /\ reply' = [reply EXCEPT ![p] = Consumer] /\ mail' = mail /\ stage' = stage /\ Wake(p)
  BY DEF Reply
<1>3. /\ pcb'[p].state = "READY" /\ \A c \in Pid \ {p} : pcb'[c].state = pcb[c].state
  BY <1>1, <1>2, WakeStates
<1>4. Letters' = Letters
  BY <1>2 DEF Letters
<1>5. MailSound' /\ \A c \in Producers : InMail(c)' <=> InMail(c)
  BY <1>4, MailStays
<1>6. Served(p)
  BY <1>1 DEF RpcInv, Client, Idle, Queued, Answered
<1>7. Answered(p)'
  <2>1. /\ stage'[p] = "send" /\ reply'[p] = Consumer /\ ~InMail(p)'
        /\ sender' # p /\ pcb'[p].state = "READY"
    BY <1>1, <1>2, <1>3, <1>5, <1>6 DEF Served, Waits
  <2> QED
    BY <2>1 DEF Answered
<1>8. ASSUME NEW c \in Producers \ {p} PROVE Client(c)' /\ Phase(c)' = Phase(c)
  BY <1>1, <1>2, <1>3, <1>5, ClientStays DEF RpcInv
<1>9. Phase(p) = "served" /\ Phase(p)' = "answered"
  <2>1. Phase(p) = "served"
    BY <1>6, PhaseOf
  <2>2. stage'[p] = "send" /\ reply'[p] # Nobody
    BY <1>1, <1>2, <1>6 DEF Served, Waits
  <2> QED
    BY <2>1, <2>2 DEF Phase, Waits
<1>10. ConsumerSound'
  BY <1>1, <1>2, <1>3, <1>4 DEF RpcInv, ConsumerSound, ReceiveSucceeds, Letters
<1> QED
  BY <1>1, <1>4, <1>5, <1>7, <1>8, <1>9, <1>10 DEF Goes, Client

----------------------------------------------------------------------------
LEMMA RpcInitHolds == RpcInit => RpcInv
<1> SUFFICES ASSUME RpcInit PROVE RpcInv
  OBVIOUS
<1>1. IpcInv
  BY InitHolds DEF RpcInit
<1>2. /\ Letters = <<>> /\ sender = Nobody /\ \A p \in Pid : stage[p] = "user" /\ reply[p] = Nobody
  BY Pids DEF RpcInit, Init, Letters
<1>3. MailSound /\ ConsumerSound
  BY <1>2, Pids DEF MailSound, ConsumerSound, ReceiveSucceeds
<1>4. ASSUME NEW c \in Producers PROVE Idle(c)
  BY <1>2, Pids DEF Idle, InMail
<1> QED
  BY <1>1, <1>3, <1>4 DEF RpcInv, Client

(* The steps of the programs as Rpc sees them.                             *)
LEMMA RpcStepKeeps ==
  ASSUME RpcInv, [RpcNext]_rpcVars
  PROVE  /\ RpcInv'
         /\ \/ Stays
            \/ \E p \in Producers :
                 \/ Goes(p, "idle", "queued") /\ Letters' = Append(Letters, p)
                 \/ /\ Goes(p, "queued", "served") /\ Letters # <<>> /\ p = Head(Letters)
                    /\ Letters' = Tail(Letters) /\ sender = Nobody
                 \/ Goes(p, "served", "answered") /\ Letters' = Letters
                 \/ Goes(p, "answered", "idle") /\ Letters' = Letters
<1>1. IpcInv'
  BY RpcIsIpc, IpcStep DEF RpcInv
<1>2. CASE StartUp
  BY <1>1, <1>2, StartUpKeeps DEF RpcInv
<1>3. CASE RpcTimer \/ UNCHANGED rpcVars
  BY <1>1, <1>3, TimerKeeps DEF RpcInv
<1>4. CASE ConsumerStep
  <2>1. CASE sender = Nobody /\ Receive /\ UNCHANGED sender
    BY <1>1, <1>4, <2>1, ReceiveKeeps DEF RpcInv, ConsumerStep
  <2>2. CASE ReceiveEnd /\ sender' = IF mail[current] = <<>> THEN Nobody ELSE Head(mail[current])
    <3>1. current = Consumer /\ sender' = IF Letters = <<>> THEN Nobody ELSE Head(Letters)
      BY <1>4, <2>2 DEF ConsumerStep, Letters
    <3>2. PICK p : p = Head(Letters)
      OBVIOUS
    <3> QED
      BY <1>1, <2>2, <3>1, <3>2, ReceiveEndKeeps DEF RpcInv
  <2>3. CASE sender # Nobody /\ Reply(sender) /\ sender' = Nobody
    <3>1. PICK p : p = sender
      OBVIOUS
    <3>2. current = Consumer /\ p # Nobody /\ Reply(p)
      BY <1>4, <2>3, <3>1 DEF ConsumerStep
    <3> QED
      BY <1>1, <2>3, <3>1, <3>2, ReplyKeeps DEF RpcInv
  <2> QED
    BY <1>4, <2>1, <2>2, <2>3 DEF ConsumerStep
<1>5. ASSUME NEW p \in Producers, ProducerStep(p)
      PROVE  /\ RpcInv'
             /\ \/ Goes(p, "idle", "queued") /\ Letters' = Append(Letters, p)
                \/ Goes(p, "answered", "idle") /\ Letters' = Letters
  BY <1>1, <1>5, SendKeeps, SendEndKeeps DEF RpcInv, ProducerStep
<1> QED
  BY <1>2, <1>3, <1>4, <1>5 DEF RpcNext

(* The inductive invariant of the programs.                                *)
THEOREM RpcInvariant == RpcSpec => []RpcInv
<1> QED
  BY RpcInitHolds, RpcStepKeeps, PTL DEF RpcSpec

(* A producer that waits for its answer takes no processor time.           *)
THEOREM RpcWaitingIsBlocked == RpcSpec => []WaitingIsBlocked
<1>1. RpcInv => WaitingIsBlocked
  BY PhaseOf DEF RpcInv, Client, WaitingIsBlocked, Queued, Served
<1> QED
  BY RpcInvariant, <1>1, PTL

(* receive_end always finds a letter.                                      *)
THEOREM RpcReceiveSucceeds == RpcSpec => []ReceiveSucceeds
<1>1. RpcInv => ReceiveSucceeds
  BY DEF RpcInv, ConsumerSound
<1> QED
  BY RpcInvariant, <1>1, PTL

(* Every request is taken once and in the order of sending, answered once, *)
(* and no __send returns without its answer: the safety part of Rpc.       *)
THEOREM RpcImplementsSafety == RpcSpec => Abstract!Safety
<1> DEFINE ph == [c \in Producers |-> Phase(c)]
<1>1. RpcInit => Abstract!Init
  <2> SUFFICES ASSUME RpcInit PROVE Abstract!Init
    OBVIOUS
  <2>1. ASSUME NEW c \in Producers PROVE Phase(c) = "idle"
    BY Pids DEF RpcInit, Init, Phase, Waits
  <2>2. Letters = <<>>
    BY Pids DEF RpcInit, Init, Letters
  <2> QED
    BY <2>1, <2>2 DEF Abstract!Init, Letters
<1>2. ASSUME NEW p \in Producers, NEW from, NEW to, Goes(p, from, to)
      PROVE  ph[p] = from /\ ph' = [ph EXCEPT ![p] = to]
  BY <1>2 DEF Goes
<1>3. RpcInv /\ [RpcNext]_rpcVars => [Abstract!Next]_(Abstract!vars)
  <2> SUFFICES ASSUME RpcInv, [RpcNext]_rpcVars PROVE [Abstract!Next]_(Abstract!vars)
    OBVIOUS
  <2>1. CASE Stays
    BY <2>1 DEF Stays, Letters, Abstract!vars
  <2>2. ASSUME NEW p \in Producers, Goes(p, "idle", "queued"), Letters' = Append(Letters, p)
        PROVE  Abstract!Request(p)
    BY <1>2, <2>2 DEF Abstract!Request, Letters
  <2>3. ASSUME NEW p \in Producers, Goes(p, "queued", "served"), Letters # <<>>,
               p = Head(Letters), Letters' = Tail(Letters), sender = Nobody
        PROVE  Abstract!Take
    <3>1. ASSUME NEW c \in Producers PROVE Phase(c) # "served"
      BY <2>3, Pids DEF Phase, Waits
    <3> QED
      BY <1>2, <2>3, <3>1 DEF Abstract!Take, Letters
  <2>4. ASSUME NEW p \in Producers, Goes(p, "served", "answered"), Letters' = Letters
        PROVE  Abstract!Answer(p)
    BY <1>2, <2>4 DEF Abstract!Answer, Letters
  <2>5. ASSUME NEW p \in Producers, Goes(p, "answered", "idle"), Letters' = Letters
        PROVE  Abstract!Collect(p)
    BY <1>2, <2>5 DEF Abstract!Collect, Letters
  <2> QED
    BY <2>1, <2>2, <2>3, <2>4, <2>5, RpcStepKeeps DEF Abstract!Next
<1> QED
  BY RpcInvariant, <1>1, <1>3, PTL DEF RpcSpec, Abstract!Safety
=============================================================================
