---------------------------- MODULE SchedProofs ----------------------------
(***************************************************************************)
(* The invariants of Sched, proved for every size of the process table and *)
(* every quantum.                                                          *)
(*                                                                         *)
(* The argument: the kernel's procedures turn a table t and a queue q that *)
(* match (Matches) into another such pair, popping the head exactly when   *)
(* its process leaves READY, and Schedule makes the head of a matching     *)
(* queue the current process.  Each action composes a few of them.         *)
(***************************************************************************)
EXTENDS Sched, SequenceTheorems, TLAPS

InQueue(q, p) == \E i \in 1 .. Len(q) : q[i] = p
NoDuplicate(q) == \A i, j \in 1 .. Len(q) : q[i] = q[j] => i = j

(* q holds exactly the READY processes of t but the null process, once.    *)
Matches(t, q) ==
  /\ t \in [Pid -> PCB]
  /\ q \in Seq(Pid)
  /\ NoDuplicate(q)
  /\ \A p \in Pid : (p # NullPid /\ Ready(t, p)) <=> InQueue(q, p)

(* Every process has the priority it needs to be rotated and woken, and    *)
(* those in S, which are not on the processor, can be resumed or started.  *)
PCBsSound(t, S) ==
  /\ t[NullPid].started
  /\ Ready(t, NullPid)
  /\ t[NullPid].prio = "LOW"
  /\ t[ShellPid].prio = "HIGH"
  /\ \A p \in Pid \ {NullPid} : t[p].state # "DEAD" => t[p].prio = "HIGH"
  /\ \A p \in S : t[p].started => t[p].trapReason # "HANDLED"
  /\ \A p \in Pid : t[p].prio = "HIGH" /\ ~t[p].started => t[p].cpuTime = Quantum

(* The inductive invariant.                                                *)
SchedInv ==
  /\ Matches(pcb, readyQueue)
  /\ current \in Pid
  /\ PCBsSound(pcb, Pid \ {current})
  /\ pcb[current].started
  /\ CurrentHeadsQueue
  /\ NullOnlyWhenIdle

----------------------------------------------------------------------------
(* Queues.                                                                 *)

(* Popping a queue without duplicates removes its head and nothing else.   *)
LEMMA PopHead ==
  ASSUME NEW q \in Seq(Pid), q # <<>>, NoDuplicate(q)
  PROVE  /\ Tail(q) \in Seq(Pid)
         /\ NoDuplicate(Tail(q))
         /\ \A p \in Pid : InQueue(Tail(q), p) <=> InQueue(q, p) /\ p # Head(q)
<1>1. /\ Tail(q) \in Seq(Pid)
      /\ Len(Tail(q)) = Len(q) - 1
      /\ \A i \in 1 .. Len(Tail(q)) : Tail(q)[i] = q[i + 1]
      /\ Len(q) \in Nat /\ Len(q) >= 1
      /\ Head(q) = q[1]
  BY HeadTailProperties, EmptySeq, LenProperties
<1>2. NoDuplicate(Tail(q))
  BY <1>1 DEF NoDuplicate
<1>3. ASSUME NEW p \in Pid
      PROVE  InQueue(Tail(q), p) <=> InQueue(q, p) /\ p # Head(q)
  <2>1. InQueue(Tail(q), p) => InQueue(q, p) /\ p # Head(q)
    BY <1>1 DEF InQueue, NoDuplicate
  <2>2. ASSUME InQueue(q, p), p # Head(q)
        PROVE  InQueue(Tail(q), p)
    <3>1. PICK i \in 1 .. Len(q) : q[i] = p
      BY <2>2 DEF InQueue
    <3>2. i # 1 /\ i - 1 \in 1 .. Len(Tail(q)) /\ Tail(q)[i - 1] = p
      BY <1>1, <2>2, <3>1
    <3> QED BY <3>2 DEF InQueue
  <2> QED BY <2>1, <2>2
<1> QED BY <1>1, <1>2, <1>3

(* Appending a process that is not queued keeps the queue duplicate-free   *)
(* and its head in place.                                                  *)
LEMMA AppendNew ==
  ASSUME NEW q \in Seq(Pid), NoDuplicate(q), NEW x \in Pid, ~InQueue(q, x)
  PROVE  /\ Append(q, x) \in Seq(Pid)
         /\ NoDuplicate(Append(q, x))
         /\ \A p \in Pid : InQueue(Append(q, x), p) <=> InQueue(q, p) \/ p = x
         /\ Append(q, x) # <<>>
         /\ Head(Append(q, x)) = IF q = <<>> THEN x ELSE Head(q)
<1>1. /\ Append(q, x) \in Seq(Pid)
      /\ Append(q, x) # <<>>
      /\ Len(q) \in Nat
      /\ Len(Append(q, x)) = Len(q) + 1
      /\ \A i \in 1 .. Len(q) : Append(q, x)[i] = q[i]
      /\ Append(q, x)[Len(q) + 1] = x
  BY AppendProperties, LenProperties
<1>2. NoDuplicate(Append(q, x))
  BY <1>1 DEF NoDuplicate, InQueue
<1>3. \A p \in Pid : InQueue(Append(q, x), p) <=> InQueue(q, p) \/ p = x
  BY <1>1 DEF InQueue
<1>4. Head(Append(q, x)) = IF q = <<>> THEN x ELSE Head(q)
  BY HeadTailAppend
<1> QED BY <1>1, <1>2, <1>3, <1>4

(* Rotating a queue permutes it.                                           *)
LEMMA RotatePermutes ==
  ASSUME NEW q \in Seq(Pid), q # <<>>, NoDuplicate(q)
  PROVE  /\ Rotate(q) \in Seq(Pid)
         /\ NoDuplicate(Rotate(q))
         /\ Rotate(q) # <<>>
         /\ \A p \in Pid : InQueue(Rotate(q), p) <=> InQueue(q, p)
<1>1. /\ Tail(q) \in Seq(Pid)
      /\ NoDuplicate(Tail(q))
      /\ \A p \in Pid : InQueue(Tail(q), p) <=> InQueue(q, p) /\ p # Head(q)
  BY PopHead
<1>2. Head(q) \in Pid /\ InQueue(q, Head(q))
  BY HeadTailProperties, EmptySeq, LenProperties DEF InQueue
<1>3. ~InQueue(Tail(q), Head(q))
  BY <1>1, <1>2
<1> QED BY <1>1, <1>2, <1>3, AppendNew DEF Rotate

----------------------------------------------------------------------------
(* The kernel's procedures.                                                *)

(* Resuming a process changes how it is resumed and nothing else.          *)
LEMMA ResumedFields ==
  ASSUME NEW t \in [Pid -> PCB], NEW c \in Pid
  PROVE  /\ Resumed(t, c) \in [Pid -> PCB]
         /\ Resumed(t, c)[c].started
         /\ \A p \in Pid :
              /\ Resumed(t, c)[p].state = t[p].state
              /\ Resumed(t, c)[p].prio = t[p].prio
              /\ Resumed(t, c)[p].cpuTime = t[p].cpuTime
              /\ p # c => Resumed(t, c)[p] = t[p]
<1> DEFINE r == [t[c] EXCEPT !.started = TRUE, !.trapReason = "HANDLED"]
<1>1. r \in PCB /\ r.started /\ r.state = t[c].state /\ r.prio = t[c].prio
      /\ r.cpuTime = t[c].cpuTime
  <2>1. t[c] \in PCB
    OBVIOUS
  <2>2. r \in PCB
    BY <2>1 DEF PCB, TrapReason
  <2>3. r.state = t[c].state /\ r.prio = t[c].prio /\ r.cpuTime = t[c].cpuTime
    BY <2>1 DEF PCB
  <2>4. r.started
    BY <2>1 DEF PCB
  <2> QED BY <2>2, <2>3, <2>4
<1>2. Resumed(t, c) = [t EXCEPT ![c] = r]
  BY DEF Resumed
<1> HIDE DEF r
<1> QED BY <1>1, <1>2

(* schedule() and the dispatcher's switch establish the invariant from any *)
(* matching table and queue whose processes are all resumable.             *)
LEMMA ScheduleEstablishes ==
  ASSUME NEW t, NEW q, Matches(t, q), PCBsSound(t, Pid), current \in Pid,
         Schedule(t, q)
  PROVE  SchedInv'
<1> DEFINE sq == ScheduledQueue(t, q)
<1>1. sq \in Seq(Pid) /\ NoDuplicate(sq) /\ \A p \in Pid : InQueue(sq, p) <=> InQueue(q, p)
  <2>1. CASE sq = q
    BY <2>1 DEF Matches
  <2>2. CASE sq = Rotate(q) /\ q # <<>>
    BY <2>2, RotatePermutes DEF Matches
  <2> QED BY <2>1, <2>2 DEF ScheduledQueue
<1>2. readyQueue' = sq /\ current' = NextProcess(sq) /\ pcb' = Resumed(t, current')
  BY DEF Schedule
<1>3. sq # <<>> => Head(sq) \in Pid \ {NullPid}
  <2> SUFFICES ASSUME sq # <<>> PROVE Head(sq) \in Pid \ {NullPid}
    OBVIOUS
  <2>1. Head(sq) \in Pid /\ InQueue(sq, Head(sq))
    BY <1>1, HeadTailProperties, EmptySeq, LenProperties DEF InQueue
  <2> QED BY <2>1, <1>1 DEF Matches
<1>4. current' \in Pid
  BY <1>2, <1>3, MaxProcsAssumption DEF NextProcess, Pid, NullPid
<1>5. Matches(pcb', readyQueue')
  <2>1. /\ pcb' \in [Pid -> PCB]
        /\ \A p \in Pid : pcb'[p].state = t[p].state
    BY <1>2, <1>4, ResumedFields DEF Matches
  <2>2. ASSUME NEW p \in Pid
        PROVE  (p # NullPid /\ Ready(pcb', p)) <=> InQueue(readyQueue', p)
    BY <1>1, <1>2, <2>1 DEF Matches, Ready
  <2> QED BY <1>1, <1>2, <2>1, <2>2 DEF Matches
<1>6. PCBsSound(pcb', Pid \ {current'}) /\ pcb'[current'].started
  <2>1. /\ pcb'[current'].started
        /\ \A p \in Pid :
             /\ pcb'[p].state = t[p].state
             /\ pcb'[p].prio = t[p].prio
             /\ pcb'[p].cpuTime = t[p].cpuTime
             /\ p # current' => pcb'[p] = t[p]
    BY <1>2, <1>4, ResumedFields DEF Matches
  <2>2. NullPid \in Pid /\ ShellPid \in Pid
    BY MaxProcsAssumption DEF Pid, NullPid, ShellPid
  <2> QED BY <2>1, <2>2, <1>4 DEF PCBsSound, Ready
<1>7. CurrentHeadsQueue' /\ NullOnlyWhenIdle'
  BY <1>2, <1>3 DEF CurrentHeadsQueue, NullOnlyWhenIdle, InUserProcess, NextProcess
<1> QED BY <1>4, <1>5, <1>6, <1>7 DEF SchedInv

(* A syscall that returns to its caller keeps the invariant if the caller  *)
(* still heads the queue.                                                  *)
LEMMA ReturnEstablishes ==
  ASSUME NEW t, NEW q, Matches(t, q), PCBsSound(t, Pid), current \in Pid,
         InUserProcess, q # <<>>, Head(q) = current, Return(t, q)
  PROVE  SchedInv'
<1>1. readyQueue' = q /\ current' = current /\ pcb' = Resumed(t, current)
  BY DEF Return
<1>2. /\ pcb'[current].started
      /\ \A p \in Pid :
           /\ pcb'[p].state = t[p].state
           /\ pcb'[p].prio = t[p].prio
           /\ pcb'[p].cpuTime = t[p].cpuTime
           /\ p # current => pcb'[p] = t[p]
  BY <1>1, ResumedFields DEF Matches
<1>3. Matches(pcb', readyQueue')
  BY <1>1, ResumedFields DEF Matches, Ready
<1>4. PCBsSound(pcb', Pid \ {current'}) /\ pcb'[current'].started
  <2>1. NullPid \in Pid /\ ShellPid \in Pid
    BY MaxProcsAssumption DEF Pid, NullPid, ShellPid
  <2> QED BY <2>1, <1>1, <1>2 DEF PCBsSound, Ready
<1>5. CurrentHeadsQueue' /\ NullOnlyWhenIdle'
  BY <1>1 DEF CurrentHeadsQueue, NullOnlyWhenIdle, InUserProcess
<1> QED BY <1>1, <1>3, <1>4, <1>5 DEF SchedInv

(* Entering the kernel leaves a table that still matches the queue and in  *)
(* which the caller, too, can be resumed.                                  *)
LEMMA TrapIsSound ==
  ASSUME SchedInv, NEW r \in {"SYSCALL", "INTERRUPT"}
  PROVE  /\ Matches(Trapped(r), readyQueue)
         /\ PCBsSound(Trapped(r), Pid)
         /\ \A p \in Pid : Trapped(r)[p].state = pcb[p].state
         /\ \A p \in Pid : Trapped(r)[p].prio = pcb[p].prio
<1>1. \A p \in Pid :
        /\ Trapped(r)[p] \in PCB
        /\ Trapped(r)[p].state = pcb[p].state
        /\ Trapped(r)[p].prio = pcb[p].prio
        /\ Trapped(r)[p].cpuTime = pcb[p].cpuTime
        /\ Trapped(r)[p].started = pcb[p].started
        /\ Trapped(r)[p].trapReason = IF p = current THEN r ELSE pcb[p].trapReason
  BY DEF SchedInv, Matches, Trapped, PCB, TrapReason
<1>2. Matches(Trapped(r), readyQueue)
  BY <1>1 DEF SchedInv, Matches, Trapped, Ready
<1>3. PCBsSound(Trapped(r), Pid)
  <2>1. NullPid \in Pid /\ ShellPid \in Pid
    BY MaxProcsAssumption DEF Pid, NullPid, ShellPid
  <2> QED BY <1>1, <2>1 DEF SchedInv, PCBsSound, Ready
<1> QED BY <1>1, <1>2, <1>3

(* The fields of a table in which one PCB has been replaced.               *)
LEMMA ReplacedPCB ==
  ASSUME NEW t \in [Pid -> PCB], NEW c \in Pid, NEW r \in PCB
  PROVE  /\ [t EXCEPT ![c] = r] \in [Pid -> PCB]
         /\ [t EXCEPT ![c] = r][c] = r
         /\ \A p \in Pid \ {c} : [t EXCEPT ![c] = r][p] = t[p]
OBVIOUS

(* wake_proc keeps table and queue matching and the queue's head in place. *)
LEMMA WakeMatches ==
  ASSUME NEW t, NEW q, Matches(t, q), PCBsSound(t, Pid),
         NEW p \in Pid \ {NullPid}, t[p].prio = "HIGH"
  PROVE  /\ Matches(Woken(t, p), WokenQueue(t, q, p))
         /\ PCBsSound(Woken(t, p), Pid)
         /\ q # <<>> => /\ WokenQueue(t, q, p) # <<>>
                        /\ Head(WokenQueue(t, q, p)) = Head(q)
<1> DEFINE w == Woken(t, p)
           r == [t[p] EXCEPT !.state = "READY"]
           wq == WokenQueue(t, q, p)
<1>1. /\ t \in [Pid -> PCB]
      /\ t[p] \in PCB
      /\ NullPid \in Pid /\ ShellPid \in Pid
  BY MaxProcsAssumption DEF Matches, Pid, NullPid, ShellPid
<1>2. /\ r \in PCB
      /\ r.state = "READY" /\ r.prio = t[p].prio /\ r.cpuTime = t[p].cpuTime
      /\ r.trapReason = t[p].trapReason
  BY <1>1 DEF PCB, ProcessState
<1>3. r.started = t[p].started
  BY <1>1 DEF PCB
<1>4. w = [t EXCEPT ![p] = r]
  BY DEF Woken
<1> HIDE DEF r, w
<1>5. w \in [Pid -> PCB] /\ w[p] = r /\ \A x \in Pid \ {p} : w[x] = t[x]
  BY <1>1, <1>2, <1>4, ReplacedPCB
<1>6. PCBsSound(w, Pid)
  BY <1>1, <1>2, <1>3, <1>5 DEF PCBsSound, Ready
<1>7. Matches(w, wq) /\ (q # <<>> => wq # <<>> /\ Head(wq) = Head(q))
  <2>1. CASE Ready(t, p)
    BY <2>1, <1>2, <1>5 DEF Matches, Ready, WokenQueue
  <2>2. CASE ~Ready(t, p)
    <3>1. wq = Append(q, p) /\ ~InQueue(q, p) /\ q \in Seq(Pid) /\ NoDuplicate(q)
      BY <2>2 DEF Matches, WokenQueue
    <3>2. /\ wq \in Seq(Pid) /\ NoDuplicate(wq) /\ wq # <<>>
          /\ \A x \in Pid : InQueue(wq, x) <=> InQueue(q, x) \/ x = p
          /\ Head(wq) = IF q = <<>> THEN p ELSE Head(q)
      BY <3>1, AppendNew
    <3> QED BY <3>2, <1>2, <1>5 DEF Matches, Ready
  <2> QED BY <2>1, <2>2
<1> QED BY <1>6, <1>7 DEF w

(* Popping the head of the queue matches giving its process a state other  *)
(* than READY, whatever else changes in that PCB.                          *)
LEMMA PopMatches ==
  ASSUME NEW t, NEW q, Matches(t, q), q # <<>>, NEW r \in PCB, r.state # "READY"
  PROVE  Matches([t EXCEPT ![Head(q)] = r], Tail(q))
<1>1. /\ t \in [Pid -> PCB]
      /\ q \in Seq(Pid)
      /\ Head(q) \in Pid
  BY HeadTailProperties DEF Matches
<1>2. /\ Tail(q) \in Seq(Pid)
      /\ NoDuplicate(Tail(q))
      /\ \A p \in Pid : InQueue(Tail(q), p) <=> InQueue(q, p) /\ p # Head(q)
  BY PopHead DEF Matches
<1> DEFINE u == [t EXCEPT ![Head(q)] = r]
<1>3. u \in [Pid -> PCB] /\ u[Head(q)] = r /\ \A p \in Pid \ {Head(q)} : u[p] = t[p]
  BY <1>1, ReplacedPCB
<1> HIDE DEF u
<1>4. Matches(u, Tail(q))
  BY <1>2, <1>3 DEF Matches, Ready
<1> QED BY <1>4 DEF u

(* block() and the reschedule after it.                                    *)
LEMMA BlockEstablishes ==
  ASSUME NEW t, NEW q, Matches(t, q), PCBsSound(t, Pid), current \in Pid,
         InUserProcess, t[current].prio = "HIGH", q # <<>>, Head(q) = current,
         Block(t, q)
  PROVE  SchedInv'
<1> DEFINE r == [t[current] EXCEPT !.state = "BLOCKED", !.cpuTime = Quantum]
           u == [t EXCEPT ![current] = r]
<1>1. t \in [Pid -> PCB] /\ t[current] \in PCB /\ NullPid \in Pid /\ ShellPid \in Pid
  BY MaxProcsAssumption DEF Matches, Pid, NullPid, ShellPid
<1>2. /\ r \in PCB
      /\ r.state = "BLOCKED" /\ r.prio = "HIGH" /\ r.cpuTime = Quantum
      /\ r.trapReason = t[current].trapReason
  <2>1. Quantum \in 0 .. Quantum
    BY QuantumAssumption
  <2>2. r \in PCB
    BY <1>1, <2>1 DEF PCB, ProcessState
  <2>3. /\ r.state = "BLOCKED" /\ r.prio = "HIGH" /\ r.cpuTime = Quantum
        /\ r.trapReason = t[current].trapReason
    BY <1>1 DEF PCB
  <2> QED BY <2>2, <2>3
<1>3. r.started = t[current].started
  BY <1>1 DEF PCB
<1>4. Schedule(u, Tail(q))
  BY DEF Block
<1> HIDE DEF r
<1>5. Matches(u, Tail(q))
  BY <1>2, PopMatches
<1>6. u[current] = r /\ \A p \in Pid \ {current} : u[p] = t[p]
  BY <1>1, <1>2, ReplacedPCB
<1> HIDE DEF u
<1>7. PCBsSound(u, Pid)
  BY <1>1, <1>2, <1>3, <1>6 DEF PCBsSound, Ready, InUserProcess
<1> QED BY <1>4, <1>5, <1>7, ScheduleEstablishes

(* A user process that runs is READY, of priority HIGH and heads the queue. *)
LEMMA CurrentIsReady ==
  ASSUME SchedInv, InUserProcess
  PROVE  /\ readyQueue # <<>> /\ Head(readyQueue) = current
         /\ Ready(pcb, current) /\ pcb[current].prio = "HIGH"
<1>1. readyQueue # <<>> /\ Head(readyQueue) = current /\ readyQueue \in Seq(Pid)
  BY DEF SchedInv, Matches, CurrentHeadsQueue
<1>2. InQueue(readyQueue, current)
  BY <1>1, HeadTailProperties, EmptySeq, LenProperties DEF InQueue
<1>3. Ready(pcb, current)
  BY <1>2 DEF SchedInv, Matches
<1> QED BY <1>1, <1>3 DEF SchedInv, PCBsSound, Ready, InUserProcess

(* create_process links a slot that was not in the queue.                  *)
LEMMA NewbornMatches ==
  ASSUME SchedInv, InUserProcess, NEW c \in Pid, FirstFree(c),
         NEW strt \in BOOLEAN, NEW reason \in TrapReason,
         strt => reason # "HANDLED"
  PROVE  /\ Matches(Newborn(c, strt, reason), Append(readyQueue, c))
         /\ PCBsSound(Newborn(c, strt, reason), Pid)
         /\ Newborn(c, strt, reason)[current].prio = "HIGH"
         /\ Append(readyQueue, c) # <<>> /\ Head(Append(readyQueue, c)) = current
<1> DEFINE t == Trapped("SYSCALL")
           r == [state |-> "READY", ppid |-> current, prio |-> pcb[current].prio,
                 cpuTime |-> Quantum, started |-> strt, trapReason |-> reason]
           u == Newborn(c, strt, reason)
<1>1. /\ readyQueue # <<>> /\ Head(readyQueue) = current
      /\ Ready(pcb, current) /\ pcb[current].prio = "HIGH"
  BY CurrentIsReady
<1>2. /\ Matches(t, readyQueue) /\ PCBsSound(t, Pid)
      /\ \A p \in Pid : t[p].state = pcb[p].state /\ t[p].prio = pcb[p].prio
  BY TrapIsSound
<1>3. c # NullPid /\ c # current /\ ~InQueue(readyQueue, c)
  BY <1>1 DEF SchedInv, PCBsSound, Matches, FirstFree, Ready
<1>4. r \in PCB
  <2>1. Quantum \in 0 .. Quantum
    BY QuantumAssumption
  <2> QED BY <1>1, <2>1 DEF PCB, ProcessState, SchedInv
<1>5. /\ r.state = "READY" /\ r.prio = "HIGH" /\ r.cpuTime = Quantum
      /\ r.trapReason = reason
      /\ r.started = strt
  BY <1>1
<1>6. u = [t EXCEPT ![c] = r]
  BY DEF Newborn
<1> HIDE DEF r, t, u
<1>7. u \in [Pid -> PCB] /\ u[c] = r /\ \A p \in Pid \ {c} : u[p] = t[p]
  BY <1>2, <1>4, <1>6, ReplacedPCB DEF Matches
<1>8. /\ Append(readyQueue, c) \in Seq(Pid)
      /\ NoDuplicate(Append(readyQueue, c))
      /\ \A p \in Pid : InQueue(Append(readyQueue, c), p) <=> InQueue(readyQueue, p) \/ p = c
      /\ Append(readyQueue, c) # <<>>
      /\ Head(Append(readyQueue, c)) = current
  BY <1>1, <1>3, AppendNew DEF SchedInv, Matches
<1>9. Matches(u, Append(readyQueue, c))
  BY <1>2, <1>3, <1>5, <1>7, <1>8 DEF Matches, Ready
<1>10. PCBsSound(u, Pid)
  <2>1. NullPid \in Pid /\ ShellPid \in Pid
    BY MaxProcsAssumption DEF Pid, NullPid, ShellPid
  <2> QED BY <1>2, <1>3, <1>5, <1>7, <2>1 DEF PCBsSound, Ready
<1>11. u[current].prio = "HIGH"
  BY <1>1, <1>2, <1>3, <1>7 DEF SchedInv
<1> QED BY <1>8, <1>9, <1>10, <1>11 DEF u

----------------------------------------------------------------------------
(* The invariant holds initially and every action keeps it.                *)

LEMMA InitEstablishes == SchedInit => SchedInv
<1> SUFFICES ASSUME SchedInit PROVE SchedInv
  OBVIOUS
<1>1. NullPid \in Pid /\ ShellPid \in Pid /\ NullPid # ShellPid /\ Quantum \in 0 .. Quantum
  BY MaxProcsAssumption, QuantumAssumption DEF Pid, NullPid, ShellPid
<1>2. /\ UnusedPCB \in PCB /\ UnusedPCB.state = "DEAD" /\ UnusedPCB.prio = "LOW"
      /\ ~UnusedPCB.started
  BY <1>1, QuantumAssumption DEF UnusedPCB, PCB, ProcessState, TrapReason
<1>3. /\ pcb[NullPid] \in PCB /\ pcb[NullPid].state = "READY"
      /\ pcb[NullPid].prio = "LOW" /\ pcb[NullPid].started
  BY <1>1 DEF SchedInit, InitPCB, UnusedPCB, PCB, ProcessState, TrapReason
<1>4. /\ pcb[ShellPid] \in PCB /\ pcb[ShellPid].state = "READY"
      /\ pcb[ShellPid].prio = "HIGH" /\ ~pcb[ShellPid].started
      /\ pcb[ShellPid].cpuTime = Quantum
  BY <1>1 DEF SchedInit, InitPCB, UnusedPCB, PCB, ProcessState, TrapReason
<1>5. \A p \in Pid \ {NullPid, ShellPid} : pcb[p] = UnusedPCB
  BY DEF SchedInit
<1>6. pcb \in [Pid -> PCB]
  BY <1>2, <1>3, <1>4, <1>5 DEF SchedInit
<1>7. readyQueue \in Seq(Pid) /\ Len(readyQueue) = 1 /\ readyQueue[1] = ShellPid
  BY <1>1 DEF SchedInit
<1>8. \A p \in Pid : InQueue(readyQueue, p) <=> p = ShellPid
  BY <1>7 DEF InQueue
<1>9. Matches(pcb, readyQueue)
  BY <1>1, <1>2, <1>3, <1>4, <1>5, <1>6, <1>7, <1>8 DEF Matches, NoDuplicate, Ready
<1>10. PCBsSound(pcb, Pid \ {current})
  BY <1>1, <1>2, <1>3, <1>4, <1>5 DEF PCBsSound, Ready, SchedInit
<1>11. CurrentHeadsQueue /\ NullOnlyWhenIdle
  BY <1>4 DEF SchedInit, CurrentHeadsQueue, NullOnlyWhenIdle, InUserProcess
<1> QED BY <1>1, <1>3, <1>9, <1>10, <1>11 DEF SchedInv, SchedInit

LEMMA ExitEstablishes ==
  ASSUME SchedInv, Exit
  PROVE  SchedInv'
<1> DEFINE t0 == Trapped("SYSCALL")
           r == [t0[current] EXCEPT !.state = "DEAD"]
           t == [t0 EXCEPT ![current] = r]
           q == Tail(readyQueue)
<1>1. InUserProcess /\ current \in Pid \ {NullPid} /\ NullPid \in Pid /\ ShellPid \in Pid \ {NullPid}
  BY MaxProcsAssumption DEF Exit, SchedInv, InUserProcess, Pid, NullPid, ShellPid
<1>2. readyQueue # <<>> /\ Head(readyQueue) = current /\ pcb[current].prio = "HIGH"
  BY <1>1, CurrentIsReady
<1>3. /\ Matches(t0, readyQueue) /\ PCBsSound(t0, Pid)
      /\ t0[current] \in PCB /\ t0[current].prio = "HIGH"
  BY <1>1, <1>2, TrapIsSound DEF Matches
<1>4. IF pcb[current].ppid = ShellPid
      THEN Schedule(Woken(t, ShellPid), WokenQueue(t, q, ShellPid))
      ELSE Schedule(t, q)
  BY DEF Exit
<1> HIDE DEF t0
<1>5. /\ r \in PCB
      /\ r.state = "DEAD" /\ r.prio = "HIGH" /\ r.cpuTime = t0[current].cpuTime
      /\ r.trapReason = t0[current].trapReason
  BY <1>3 DEF PCB, ProcessState
<1>6. r.started = t0[current].started
  BY <1>3 DEF PCB
<1> HIDE DEF r
<1>7. t[current] = r /\ \A p \in Pid \ {current} : t[p] = t0[p]
  BY <1>1, <1>3, <1>5, ReplacedPCB DEF Matches
<1>8. Matches(t, q)
  BY <1>2, <1>3, <1>5, PopMatches
<1> HIDE DEF t, q
<1>9. PCBsSound(t, Pid)
  BY <1>1, <1>3, <1>5, <1>6, <1>7 DEF PCBsSound, Ready
<1>10. CASE pcb[current].ppid = ShellPid
  <2>1. t[ShellPid].prio = "HIGH"
    BY <1>9 DEF PCBsSound
  <2>2. /\ Matches(Woken(t, ShellPid), WokenQueue(t, q, ShellPid))
        /\ PCBsSound(Woken(t, ShellPid), Pid)
    BY <1>1, <1>8, <1>9, <2>1, WakeMatches
  <2> QED BY <1>1, <1>4, <1>10, <2>2, ScheduleEstablishes
<1>11. CASE pcb[current].ppid # ShellPid
  BY <1>1, <1>4, <1>8, <1>9, <1>11, ScheduleEstablishes
<1> QED BY <1>10, <1>11

LEMMA TickKeeps ==
  ASSUME SchedInv, Tick
  PROVE  SchedInv'
<1> DEFINE r == [pcb[current] EXCEPT !.cpuTime = @ - 1]
<1>1. /\ current \in Pid /\ pcb \in [Pid -> PCB] /\ pcb[current] \in PCB
      /\ pcb[current].cpuTime \in Nat /\ pcb[current].cpuTime > 1
      /\ NullPid \in Pid /\ ShellPid \in Pid
  BY MaxProcsAssumption DEF SchedInv, Matches, Tick, PCB, Pid, NullPid, ShellPid
<1>2. r \in PCB
  BY <1>1, QuantumAssumption DEF PCB
<1>3. /\ r.state = pcb[current].state /\ r.prio = pcb[current].prio
      /\ r.trapReason = pcb[current].trapReason
  BY <1>1 DEF PCB
<1>4. r.started = pcb[current].started
  BY <1>1 DEF PCB
<1>5. pcb' = [pcb EXCEPT ![current] = r] /\ UNCHANGED <<readyQueue, current>>
  BY DEF Tick
<1> HIDE DEF r
<1>6. pcb' \in [Pid -> PCB] /\ pcb'[current] = r /\ \A p \in Pid \ {current} : pcb'[p] = pcb[p]
  BY <1>1, <1>2, <1>5, ReplacedPCB
<1>7. Matches(pcb', readyQueue')
  <2>1. \A p \in Pid : pcb'[p].state = pcb[p].state
    BY <1>3, <1>6
  <2> QED BY <1>5, <1>6, <2>1 DEF SchedInv, Matches, Ready
<1>8. PCBsSound(pcb', Pid \ {current'}) /\ pcb'[current'].started
  BY <1>1, <1>3, <1>4, <1>5, <1>6 DEF SchedInv, PCBsSound, Ready
<1>9. CurrentHeadsQueue'
  BY <1>5 DEF SchedInv, CurrentHeadsQueue, InUserProcess
<1>10. NullOnlyWhenIdle'
  <2>1. ~pcb[ShellPid].started => ~pcb'[ShellPid].started
    BY <1>1, <1>4, <1>6
  <2> QED BY <1>5, <2>1 DEF SchedInv, NullOnlyWhenIdle
<1> QED BY <1>1, <1>5, <1>7, <1>8, <1>9, <1>10 DEF SchedInv

LEMMA PreemptKeeps ==
  ASSUME SchedInv, Preempt
  PROVE  SchedInv'
<1> DEFINE t0 == Trapped("INTERRUPT")
           r == [t0[current] EXCEPT !.cpuTime = Quantum]
           t == [t0 EXCEPT ![current] = r]
<1>1. current \in Pid /\ NullPid \in Pid /\ ShellPid \in Pid
  BY MaxProcsAssumption DEF SchedInv, Pid, NullPid, ShellPid
<1>2. Matches(t0, readyQueue) /\ PCBsSound(t0, Pid) /\ t0[current] \in PCB
  BY <1>1, TrapIsSound DEF Matches
<1>3. Schedule(t, readyQueue)
  BY DEF Preempt
<1> HIDE DEF t0
<1>4. r \in PCB /\ r.cpuTime = Quantum
  <2>1. Quantum \in 0 .. Quantum
    BY QuantumAssumption
  <2> QED BY <1>2, <2>1 DEF PCB
<1>5. /\ r.state = t0[current].state /\ r.prio = t0[current].prio
      /\ r.trapReason = t0[current].trapReason
  BY <1>2 DEF PCB
<1>6. r.started = t0[current].started
  BY <1>2 DEF PCB
<1> HIDE DEF r
<1>7. /\ t \in [Pid -> PCB]
      /\ t[current] = r /\ \A p \in Pid \ {current} : t[p] = t0[p]
  BY <1>1, <1>2, <1>4, ReplacedPCB DEF Matches
<1> HIDE DEF t
<1>8. Matches(t, readyQueue)
  <2>1. \A p \in Pid : t[p].state = t0[p].state
    BY <1>5, <1>7
  <2> QED BY <1>2, <1>7, <2>1 DEF Matches, Ready
<1>9. PCBsSound(t, Pid)
  BY <1>1, <1>2, <1>4, <1>5, <1>6, <1>7 DEF PCBsSound, Ready
<1> QED BY <1>1, <1>3, <1>8, <1>9, ScheduleEstablishes

(* Every system call and interrupt keeps the invariant.                    *)
LEMMA StepKeeps == SchedInv /\ [SchedNext]_schedVars => SchedInv'
<1> SUFFICES ASSUME SchedInv, [SchedNext]_schedVars
             PROVE  SchedInv'
  OBVIOUS
<1> DEFINE t == Trapped("SYSCALL")
<1>1. /\ current \in Pid
      /\ Matches(t, readyQueue) /\ PCBsSound(t, Pid)
      /\ \A p \in Pid : t[p].state = pcb[p].state /\ t[p].prio = pcb[p].prio
  BY TrapIsSound DEF SchedInv
<1>2. InUserProcess => /\ readyQueue # <<>> /\ Head(readyQueue) = current
                       /\ t[current].prio = "HIGH"
  BY <1>1, CurrentIsReady
<1>3. ASSUME NEW p \in Pid, Wakeable(p)
      PROVE  p \in Pid \ {NullPid} /\ t[p].prio = "HIGH" /\ p # current
  <2>1. pcb[p].prio = "HIGH" /\ p # current
    BY <1>3 DEF Wakeable, SchedInv, Matches, PCB
  <2>2. p # NullPid
    BY <1>3, <2>1 DEF Wakeable, SchedInv, Matches, PCB, PCBsSound
  <2> QED BY <1>1, <2>1, <2>2
<1>4. CASE Tick
  BY <1>4, TickKeeps
<1>5. CASE Preempt
  BY <1>5, PreemptKeeps
<1>6. CASE Yield
  BY <1>1, <1>6, ScheduleEstablishes DEF Yield
<1>7. CASE Exit
  BY <1>7, ExitEstablishes
<1>8. CASE BlockSelf
  BY <1>1, <1>2, <1>8, BlockEstablishes DEF BlockSelf
<1>9. ASSUME NEW c \in Pid, Fork(c)
      PROVE  SchedInv'
  <2> DEFINE u == Newborn(c, TRUE, "SYSCALL")
             q == Append(readyQueue, c)
  <2>1. InUserProcess /\ FirstFree(c) /\ Return(u, q)
    BY <1>9 DEF Fork
  <2>2. /\ Matches(u, q) /\ PCBsSound(u, Pid)
        /\ q # <<>> /\ Head(q) = current
    BY <2>1, NewbornMatches DEF TrapReason
  <2> HIDE DEF u, q
  <2> QED BY <1>1, <2>1, <2>2, ReturnEstablishes
<1>10. ASSUME NEW c \in Pid, Exec(c)
       PROVE  SchedInv'
  <2> DEFINE u == Newborn(c, FALSE, "HANDLED")
             q == Append(readyQueue, c)
  <2>1. /\ InUserProcess /\ FirstFree(c)
        /\ IF current = ShellPid THEN Block(u, q) ELSE Return(u, q)
    BY <1>10 DEF Exec
  <2>2. /\ Matches(u, q) /\ PCBsSound(u, Pid)
        /\ u[current].prio = "HIGH"
        /\ q # <<>> /\ Head(q) = current
    BY <2>1, NewbornMatches DEF TrapReason
  <2> HIDE DEF u, q
  <2> QED BY <1>1, <2>1, <2>2, ReturnEstablishes, BlockEstablishes
<1>11. ASSUME NEW p \in Pid, WakeAndBlock(p)
       PROVE  SchedInv'
  <2> DEFINE u == Woken(t, p)
             q == WokenQueue(t, readyQueue, p)
  <2>1. InUserProcess /\ Wakeable(p) /\ Block(u, q)
    BY <1>11 DEF WakeAndBlock
  <2>2. p \in Pid \ {NullPid} /\ t[p].prio = "HIGH" /\ p # current
    BY <1>3, <2>1
  <2>3. u[current] = t[current]
    BY <1>1, <2>2 DEF Woken, Matches
  <2> HIDE DEF t
  <2>4. /\ Matches(u, q) /\ PCBsSound(u, Pid)
        /\ q # <<>> /\ Head(q) = current
    BY <1>1, <1>2, <2>1, <2>2, WakeMatches
  <2> HIDE DEF u, q
  <2> QED BY <1>1, <1>2, <2>1, <2>3, <2>4, BlockEstablishes
<1>12. ASSUME NEW p \in Pid, Wake(p)
       PROVE  SchedInv'
  <2> DEFINE u == Woken(t, p)
             q == WokenQueue(t, readyQueue, p)
  <2>1. InUserProcess /\ Wakeable(p) /\ Return(u, q)
    BY <1>12 DEF Wake
  <2>2. p \in Pid \ {NullPid} /\ t[p].prio = "HIGH"
    BY <1>3, <2>1
  <2> HIDE DEF t
  <2>3. /\ Matches(u, q) /\ PCBsSound(u, Pid)
        /\ q # <<>> /\ Head(q) = current
    BY <1>1, <1>2, <2>1, <2>2, WakeMatches
  <2> HIDE DEF u, q
  <2> QED BY <1>1, <2>1, <2>3, ReturnEstablishes
<1>13. CASE UNCHANGED schedVars
  <2>1. pcb' = pcb /\ readyQueue' = readyQueue /\ current' = current
    BY <1>13 DEF schedVars
  <2> QED BY <2>1 DEF SchedInv, CurrentHeadsQueue, NullOnlyWhenIdle, InUserProcess
<1> QED BY <1>4, <1>5, <1>6, <1>7, <1>8, <1>9, <1>10, <1>11, <1>12, <1>13 DEF SchedNext

(* The invariant implies the properties of Sched.                          *)
LEMMA InvImplies ==
  SchedInv => /\ SchedTypeOK /\ QueueIsReadySet /\ CurrentHeadsQueue
              /\ NullOnlyWhenIdle /\ ReadyIsResumable /\ StartsWithFullQuantum
<1> SUFFICES ASSUME SchedInv
             PROVE  /\ SchedTypeOK /\ QueueIsReadySet /\ CurrentHeadsQueue
                    /\ NullOnlyWhenIdle /\ ReadyIsResumable /\ StartsWithFullQuantum
  OBVIOUS
<1>1. pcb \in [Pid -> PCB] /\ readyQueue \in Seq(Pid) /\ current \in Pid
  BY DEF SchedInv, Matches
<1>2. SchedTypeOK
  BY <1>1 DEF SchedTypeOK
<1>3. QueueIsReadySet
  <2>1. DOMAIN readyQueue = 1 .. Len(readyQueue)
    BY <1>1, LenProperties
  <2> QED BY <2>1 DEF SchedInv, Matches, NoDuplicate, InQueue, QueueIsReadySet
<1>4. ReadyIsResumable
  BY DEF SchedInv, PCBsSound, ReadyIsResumable
<1>5. StartsWithFullQuantum
  <2> SUFFICES ASSUME NEW p \in Pid, Ready(pcb, p), ~pcb[p].started
               PROVE  pcb[p].cpuTime = Quantum
    BY DEF StartsWithFullQuantum
  <2>1. p # NullPid
    BY DEF SchedInv, PCBsSound
  <2> QED BY <2>1 DEF SchedInv, PCBsSound, Ready
<1> QED BY <1>2, <1>3, <1>4, <1>5 DEF SchedInv

----------------------------------------------------------------------------
(* Every reachable state of the scheduler satisfies its inductive          *)
(* invariant: the basis of the theorems below and of SrrProofs.            *)
THEOREM SchedInvariant == SchedSpec => []SchedInv
<1>1. SchedInit => SchedInv
  BY InitEstablishes
<1>2. SchedInv /\ [SchedNext]_schedVars => SchedInv'
  BY StepKeeps
<1> QED BY <1>1, <1>2, PTL DEF SchedSpec

(* Type correctness of the process table, the queue and current_process.   *)
THEOREM SchedTypeCorrect == SchedSpec => []SchedTypeOK
<1>1. SchedInv => SchedTypeOK
  BY InvImplies
<1> QED BY <1>1, SchedInvariant, PTL

(* The ready queue is exactly the set of READY processes, each once.       *)
THEOREM SchedQueueCorrect == SchedSpec => []QueueIsReadySet
<1>1. SchedInv => QueueIsReadySet
  BY InvImplies
<1> QED BY <1>1, SchedInvariant, PTL

(* block() and kexit() always pop the running process.                     *)
THEOREM SchedHeadCorrect == SchedSpec => []CurrentHeadsQueue
<1>1. SchedInv => CurrentHeadsQueue
  BY InvImplies
<1> QED BY <1>1, SchedInvariant, PTL

(* After the shell's first dispatch the null process runs only when no     *)
(* other process is READY.                                                 *)
THEOREM SchedNullCorrect == SchedSpec => []NullOnlyWhenIdle
<1>1. SchedInv => NullOnlyWhenIdle
  BY InvImplies
<1> QED BY <1>1, SchedInvariant, PTL

(* The dispatcher never selects a process it cannot switch into.           *)
THEOREM SchedResumable == SchedSpec => []ReadyIsResumable
<1>1. SchedInv => ReadyIsResumable
  BY InvImplies
<1> QED BY <1>1, SchedInvariant, PTL

(* A process enters switch_to_start with all of its quantum.               *)
THEOREM SchedFullQuantum == SchedSpec => []StartsWithFullQuantum
<1>1. SchedInv => StartsWithFullQuantum
  BY InvImplies
<1> QED BY <1>1, SchedInvariant, PTL
=============================================================================
