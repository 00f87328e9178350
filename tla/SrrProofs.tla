------------------------------ MODULE SrrProofs ------------------------------
(***************************************************************************)
(* The invariants of SrrIpc, proved for every size of the process table,   *)
(* of the mailboxes and of the quantum.                                    *)
(*                                                                         *)
(* The argument: a step of SrrIpc is a step or a stutter of Sched, so the  *)
(* invariant of Sched holds and says who is READY.  Over it, no step makes *)
(* any process BLOCKED but the caller (BlockSelfStates), and a send or a   *)
(* reply leaves the process it names READY (WakeStates).                   *)
(***************************************************************************)
EXTENDS SrrIpc, SchedProofs

IpcInv ==
  /\ SchedInv
  /\ TypeOK
  /\ NoLostWakeup
  /\ SenderIsRegistered
  /\ NoMutualWait
  /\ ShellHasChild

----------------------------------------------------------------------------
(* What the steps of Sched do to the states of processes.                  *)

LEMMA PidFacts == NullPid \in Pid /\ ShellPid \in Pid /\ Nobody \in Pid /\ NullPid # ShellPid
BY MaxProcsAssumption DEF Pid, NullPid, ShellPid, Nobody

LEMMA ResumedStates ==
  ASSUME NEW t \in [Pid -> PCB], NEW c
  PROVE  \A p \in Pid : /\ Resumed(t, c)[p].state = t[p].state
                        /\ Resumed(t, c)[p].ppid = t[p].ppid
                        /\ Resumed(t, c)[p].prio = t[p].prio
<1> SUFFICES ASSUME NEW p \in Pid
             PROVE  /\ Resumed(t, c)[p].state = t[p].state
                    /\ Resumed(t, c)[p].ppid = t[p].ppid
                    /\ Resumed(t, c)[p].prio = t[p].prio
  OBVIOUS
<1>1. CASE p = c
  BY <1>1 DEF Resumed, PCB
<1>2. CASE p # c
  BY <1>2 DEF Resumed
<1> QED BY <1>1, <1>2

LEMMA BlockStates ==
  ASSUME NEW t \in [Pid -> PCB], NEW q, current \in Pid, Block(t, q)
  PROVE  /\ pcb'[current].state = "BLOCKED"
         /\ pcb'[current].ppid = t[current].ppid
         /\ \A p \in Pid \ {current} : /\ pcb'[p].state = t[p].state
                                       /\ pcb'[p].ppid = t[p].ppid
<1> DEFINE r == [t[current] EXCEPT !.state = "BLOCKED", !.cpuTime = Quantum]
           u == [t EXCEPT ![current] = r]
<1>1. r \in PCB /\ r.state = "BLOCKED" /\ r.ppid = t[current].ppid
  <2>1. t[current] \in PCB
    OBVIOUS
  <2>2. Quantum \in 0 .. Quantum
    BY QuantumAssumption
  <2> QED BY <2>1, <2>2 DEF PCB, ProcessState
<1>2. pcb' = Resumed(u, current')
  BY DEF Block, Schedule
<1> HIDE DEF r
<1>3. u \in [Pid -> PCB] /\ u[current] = r /\ \A p \in Pid \ {current} : u[p] = t[p]
  BY <1>1, ReplacedPCB
<1> HIDE DEF u
<1> QED BY <1>1, <1>2, <1>3, ResumedStates

LEMMA TrappedStates ==
  ASSUME SchedInv, NEW reason \in {"SYSCALL", "INTERRUPT"}
  PROVE  /\ Trapped(reason) \in [Pid -> PCB]
         /\ \A p \in Pid : /\ Trapped(reason)[p].state = pcb[p].state
                           /\ Trapped(reason)[p].ppid = pcb[p].ppid
                           /\ Trapped(reason)[p].prio = pcb[p].prio
<1>1. pcb \in [Pid -> PCB] /\ current \in Pid
  BY DEF SchedInv, Matches
<1>2. Trapped(reason) \in [Pid -> PCB]
  BY TrapIsSound DEF Matches
<1>3. ASSUME NEW p \in Pid
      PROVE  /\ Trapped(reason)[p].state = pcb[p].state
             /\ Trapped(reason)[p].ppid = pcb[p].ppid
             /\ Trapped(reason)[p].prio = pcb[p].prio
  <2>1. CASE p = current
    BY <2>1, <1>1 DEF Trapped, PCB
  <2>2. CASE p # current
    BY <2>2, <1>1 DEF Trapped
  <2> QED BY <2>1, <2>2
<1> QED BY <1>2, <1>3

LEMMA WokenStates ==
  ASSUME NEW t \in [Pid -> PCB], NEW w \in Pid
  PROVE  /\ Woken(t, w) \in [Pid -> PCB]
         /\ Woken(t, w)[w].state = "READY"
         /\ \A p \in Pid : Woken(t, w)[p].ppid = t[p].ppid
         /\ \A p \in Pid \ {w} : Woken(t, w)[p] = t[p]
<1> DEFINE r == [t[w] EXCEPT !.state = "READY"]
<1>1. r \in PCB /\ r.state = "READY" /\ r.ppid = t[w].ppid
  <2>1. t[w] \in PCB
    OBVIOUS
  <2> QED BY <2>1 DEF PCB, ProcessState
<1>2. Woken(t, w) = [t EXCEPT ![w] = r]
  BY DEF Woken
<1> HIDE DEF r
<1> QED BY <1>1, <1>2, ReplacedPCB

LEMMA NewbornStates ==
  ASSUME SchedInv, InUserProcess, NEW c \in Pid, FirstFree(c),
         NEW strt \in BOOLEAN, NEW reason \in TrapReason
  PROVE  LET u == Newborn(c, strt, reason)
         IN /\ u \in [Pid -> PCB]
            /\ c # current /\ u[c].state = "READY" /\ u[c].ppid = current
            /\ \A p \in Pid \ {c} : /\ u[p].state = pcb[p].state
                                    /\ u[p].ppid = pcb[p].ppid
<1> DEFINE r == [state |-> "READY", ppid |-> current, prio |-> pcb[current].prio,
                 cpuTime |-> Quantum, started |-> strt, trapReason |-> reason]
           u == Newborn(c, strt, reason)
<1>1. pcb \in [Pid -> PCB] /\ current \in Pid
  BY DEF SchedInv, Matches
<1>2. c # current
  BY CurrentIsReady DEF FirstFree, Ready
<1>3. r \in PCB
  <2>1. pcb[current].prio \in {"LOW", "HIGH"}
    BY <1>1 DEF PCB
  <2> QED BY <2>1, <1>1, QuantumAssumption DEF PCB, ProcessState
<1>4. r.state = "READY" /\ r.ppid = current
  OBVIOUS
<1>5. u = [Trapped("SYSCALL") EXCEPT ![c] = r]
  BY DEF Newborn
<1> HIDE DEF r, u
<1>6. /\ u \in [Pid -> PCB] /\ u[c] = r
      /\ \A p \in Pid \ {c} : u[p] = Trapped("SYSCALL")[p]
  BY <1>3, <1>5, TrappedStates, ReplacedPCB
<1>7. \A p \in Pid \ {c} : u[p].state = pcb[p].state /\ u[p].ppid = pcb[p].ppid
  BY <1>6, TrappedStates
<1> QED BY <1>2, <1>4, <1>6, <1>7 DEF u

(* After Schedule and after Return the states are those of the table given *)
(* to them.                                                                *)
LEMMA SwitchStates ==
  ASSUME NEW t \in [Pid -> PCB], NEW q, Schedule(t, q) \/ Return(t, q)
  PROVE  \A p \in Pid : pcb'[p].state = t[p].state /\ pcb'[p].ppid = t[p].ppid
<1>1. CASE Schedule(t, q)
  <2>1. pcb' = Resumed(t, current')
    BY <1>1 DEF Schedule
  <2> QED BY <2>1, ResumedStates
<1>2. CASE Return(t, q)
  <2>1. pcb' = Resumed(t, current)
    BY <1>2 DEF Return
  <2> QED BY <2>1, ResumedStates
<1> QED BY <1>1, <1>2

LEMMA TimerAndYieldStates ==
  ASSUME SchedInv, TimerInterrupt \/ Yield
  PROVE  \A p \in Pid : pcb'[p].state = pcb[p].state /\ pcb'[p].ppid = pcb[p].ppid
<1>0. pcb \in [Pid -> PCB] /\ current \in Pid
  BY DEF SchedInv, Matches
<1>1. CASE Tick
  <2>1. pcb' = [pcb EXCEPT ![current].cpuTime = @ - 1]
    BY <1>1 DEF Tick
  <2> SUFFICES ASSUME NEW p \in Pid
               PROVE  pcb'[p].state = pcb[p].state /\ pcb'[p].ppid = pcb[p].ppid
    OBVIOUS
  <2>2. CASE p = current
    BY <1>0, <2>1, <2>2 DEF PCB
  <2>3. CASE p # current
    BY <1>0, <2>1, <2>3
  <2> QED BY <2>2, <2>3
<1>2. CASE Preempt
  <2> DEFINE t == Trapped("INTERRUPT")
             r == [t[current] EXCEPT !.cpuTime = Quantum]
             u == [t EXCEPT ![current] = r]
  <2>1. t \in [Pid -> PCB] /\ \A p \in Pid : t[p].state = pcb[p].state /\ t[p].ppid = pcb[p].ppid
    BY TrappedStates
  <2>2. Schedule(u, readyQueue)
    BY <1>2 DEF Preempt
  <2> HIDE DEF t
  <2>3. r \in PCB /\ r.state = t[current].state /\ r.ppid = t[current].ppid
    <3>1. t[current] \in PCB /\ Quantum \in 0 .. Quantum
      BY <1>0, <2>1, QuantumAssumption
    <3> QED BY <3>1 DEF PCB
  <2> HIDE DEF r
  <2>4. /\ u \in [Pid -> PCB] /\ u[current] = r
        /\ \A p \in Pid \ {current} : u[p] = t[p]
    BY <1>0, <2>1, <2>3, ReplacedPCB
  <2> HIDE DEF u
  <2> QED BY <2>1, <2>2, <2>3, <2>4, SwitchStates
<1>3. CASE Yield
  <2>1. Schedule(Trapped("SYSCALL"), readyQueue)
    BY <1>3 DEF Yield
  <2> QED BY <2>1, TrappedStates, SwitchStates
<1> QED BY <1>1, <1>2, <1>3 DEF TimerInterrupt

LEMMA ForkStates ==
  ASSUME SchedInv, NEW c \in Pid, Fork(c)
  PROVE  /\ c # current /\ pcb'[c].state = "READY" /\ pcb'[c].ppid = current
         /\ \A p \in Pid \ {c} : pcb'[p].state = pcb[p].state /\ pcb'[p].ppid = pcb[p].ppid
<1> DEFINE u == Newborn(c, TRUE, "SYSCALL")
<1>1. InUserProcess /\ FirstFree(c) /\ Return(u, Append(readyQueue, c))
  BY DEF Fork
<1>2. /\ u \in [Pid -> PCB]
      /\ c # current /\ u[c].state = "READY" /\ u[c].ppid = current
      /\ \A p \in Pid \ {c} : u[p].state = pcb[p].state /\ u[p].ppid = pcb[p].ppid
  BY <1>1, NewbornStates DEF TrapReason
<1> HIDE DEF u
<1> QED BY <1>1, <1>2, SwitchStates

LEMMA ExecStates ==
  ASSUME SchedInv, NEW c \in Pid, Exec(c)
  PROVE  /\ c # current /\ pcb'[c].state = "READY" /\ pcb'[c].ppid = current
         /\ \A p \in Pid \ {c} : pcb'[p].ppid = pcb[p].ppid
         /\ \A p \in Pid \ {c, current} : pcb'[p].state = pcb[p].state
         /\ current # ShellPid => pcb'[current].state = pcb[current].state
<1> DEFINE u == Newborn(c, FALSE, "HANDLED")
           q == Append(readyQueue, c)
<1>0. current \in Pid
  BY DEF SchedInv
<1>1. /\ InUserProcess /\ FirstFree(c)
      /\ IF current = ShellPid THEN Block(u, q) ELSE Return(u, q)
  BY DEF Exec
<1>2. /\ u \in [Pid -> PCB]
      /\ c # current /\ u[c].state = "READY" /\ u[c].ppid = current
      /\ \A p \in Pid \ {c} : u[p].state = pcb[p].state /\ u[p].ppid = pcb[p].ppid
  BY <1>1, NewbornStates DEF TrapReason
<1> HIDE DEF u, q
<1>3. CASE current = ShellPid
  BY <1>0, <1>1, <1>2, <1>3, BlockStates
<1>4. CASE current # ShellPid
  BY <1>0, <1>1, <1>2, <1>4, SwitchStates
<1> QED BY <1>3, <1>4

LEMMA ExitStates ==
  ASSUME SchedInv, Exit
  PROVE  /\ \A p \in Pid : pcb'[p].ppid = pcb[p].ppid
         /\ \A p \in Pid \ {current, ShellPid} : pcb'[p].state = pcb[p].state
         /\ pcb'[current].state # "BLOCKED"
         /\ pcb'[ShellPid].state \in {"READY", pcb[ShellPid].state, "DEAD"}
         /\ pcb[current].ppid = ShellPid => pcb'[ShellPid].state = "READY"
<1> DEFINE t0 == Trapped("SYSCALL")
           r == [t0[current] EXCEPT !.state = "DEAD"]
           t == [t0 EXCEPT ![current] = r]
           w == Woken(t, ShellPid)
<1>0. current \in Pid
  BY DEF SchedInv
<1>1. \/ pcb[current].ppid = ShellPid
         /\ Schedule(w, WokenQueue(t, Tail(readyQueue), ShellPid))
      \/ pcb[current].ppid # ShellPid /\ Schedule(t, Tail(readyQueue))
  BY DEF Exit
<1>2. /\ t0 \in [Pid -> PCB]
      /\ \A p \in Pid : t0[p].state = pcb[p].state /\ t0[p].ppid = pcb[p].ppid
  BY TrappedStates
<1> HIDE DEF t0
<1>3. r \in PCB /\ r.state = "DEAD" /\ r.ppid = t0[current].ppid
  <2>1. t0[current] \in PCB
    BY <1>0, <1>2
  <2> QED BY <2>1 DEF PCB, ProcessState
<1> HIDE DEF r
<1>4. /\ t \in [Pid -> PCB] /\ t[current] = r
      /\ \A p \in Pid \ {current} : t[p] = t0[p]
  BY <1>0, <1>2, <1>3, ReplacedPCB
<1> HIDE DEF t
<1>5. /\ w \in [Pid -> PCB] /\ w[ShellPid].state = "READY"
      /\ \A p \in Pid : w[p].ppid = t[p].ppid
      /\ \A p \in Pid \ {ShellPid} : w[p] = t[p]
  BY <1>4, PidFacts, WokenStates
<1> HIDE DEF w
<1>6. CASE /\ pcb[current].ppid = ShellPid
           /\ Schedule(w, WokenQueue(t, Tail(readyQueue), ShellPid))
  <2>1. \A p \in Pid : pcb'[p].state = w[p].state /\ pcb'[p].ppid = w[p].ppid
    BY <1>5, <1>6, SwitchStates
  <2> QED BY <1>0, <1>2, <1>3, <1>4, <1>5, <2>1, PidFacts
<1>7. CASE pcb[current].ppid # ShellPid /\ Schedule(t, Tail(readyQueue))
  <2>1. \A p \in Pid : pcb'[p].state = t[p].state /\ pcb'[p].ppid = t[p].ppid
    BY <1>4, <1>7, SwitchStates
  <2> QED BY <1>0, <1>2, <1>3, <1>4, <1>7, <2>1, PidFacts
<1> QED BY <1>1, <1>6, <1>7

LEMMA BlockSelfStates ==
  ASSUME SchedInv, BlockSelf
  PROVE  /\ \A p \in Pid : pcb'[p].ppid = pcb[p].ppid
         /\ \A p \in Pid \ {current} : pcb'[p].state = pcb[p].state
         /\ pcb'[current].state = "BLOCKED"
<1>0. current \in Pid
  BY DEF SchedInv
<1>1. Block(Trapped("SYSCALL"), readyQueue)
  BY DEF BlockSelf
<1> QED BY <1>0, <1>1, TrappedStates, BlockStates

LEMMA WakeStates ==
  ASSUME SchedInv, NEW q \in Pid, Wake(q) \/ WakeAndBlock(q)
  PROVE  /\ q # current /\ pcb'[q].state = "READY"
         /\ \A p \in Pid : pcb'[p].ppid = pcb[p].ppid
         /\ \A p \in Pid \ {q, current} : pcb'[p].state = pcb[p].state
         /\ Wake(q) => pcb'[current].state = pcb[current].state
<1> DEFINE t == Trapped("SYSCALL")
           w == Woken(t, q)
<1>0. current \in Pid /\ q # current
  BY DEF SchedInv, Wake, WakeAndBlock, Wakeable
<1>1. /\ t \in [Pid -> PCB]
      /\ \A p \in Pid : t[p].state = pcb[p].state /\ t[p].ppid = pcb[p].ppid
  BY TrappedStates
<1>2. /\ Wake(q) => Return(w, WokenQueue(t, readyQueue, q))
      /\ WakeAndBlock(q) => Block(w, WokenQueue(t, readyQueue, q))
  BY DEF Wake, WakeAndBlock
<1> HIDE DEF t
<1>3. /\ w \in [Pid -> PCB] /\ w[q].state = "READY"
      /\ \A p \in Pid : w[p].ppid = t[p].ppid
      /\ \A p \in Pid \ {q} : w[p] = t[p]
  BY <1>1, WokenStates
<1> HIDE DEF w
<1>4. CASE Wake(q)
  BY <1>0, <1>1, <1>2, <1>3, <1>4, SwitchStates
<1>5. CASE WakeAndBlock(q) /\ ~Wake(q)
  BY <1>0, <1>1, <1>2, <1>3, <1>5, BlockStates
<1> QED BY <1>4, <1>5

LEMMA WakeAndBlockBlocks ==
  ASSUME SchedInv, NEW q \in Pid, WakeAndBlock(q)
  PROVE  pcb'[current].state = "BLOCKED"
<1> DEFINE w == Woken(Trapped("SYSCALL"), q)
<1>1. current \in Pid /\ w \in [Pid -> PCB]
  BY TrappedStates, WokenStates DEF SchedInv
<1>2. Block(w, WokenQueue(Trapped("SYSCALL"), readyQueue, q))
  BY DEF WakeAndBlock
<1> HIDE DEF w
<1> QED BY <1>1, <1>2, BlockStates

----------------------------------------------------------------------------
(* Steps of SrrIpc.                                                        *)

(* Every step is a step of the scheduler or leaves it alone.               *)
LEMMA StepIsSchedStep == [Next]_vars => [SchedNext]_schedVars
<1> SUFFICES ASSUME [Next]_vars PROVE [SchedNext]_schedVars
  OBVIOUS
<1>1. CASE Timer
  BY <1>1 DEF Timer, TimerInterrupt, SchedNext
<1>2. CASE YieldCall
  BY <1>2 DEF YieldCall, SchedNext
<1>3. CASE SendEnd
  BY <1>3 DEF SendEnd
<1>4. CASE Receive
  BY <1>4 DEF Receive, SchedNext
<1>5. CASE ReceiveEnd
  BY <1>5 DEF ReceiveEnd
<1>6. CASE ExitCall
  BY <1>6 DEF ExitCall, SchedNext
<1>7. ASSUME NEW q \in Pid, Send(q) PROVE SchedNext
  BY <1>7 DEF Send, SchedNext
<1>8. ASSUME NEW q \in Pid, SendToUnused(q) PROVE UNCHANGED schedVars
  BY <1>8 DEF SendToUnused
<1>9. ASSUME NEW q \in Pid, Reply(q) PROVE SchedNext
  BY <1>9 DEF Reply, SchedNext
<1>10. ASSUME NEW q \in Pid, ForkCall(q) PROVE SchedNext
  BY <1>10 DEF ForkCall, SchedNext
<1>11. ASSUME NEW q \in Pid, ExecCall(q) PROVE SchedNext
  BY <1>11 DEF ExecCall, SchedNext
<1>12. CASE Wild \/ UNCHANGED vars
  BY <1>12 DEF Wild, vars
<1> QED BY <1>1, <1>2, <1>3, <1>4, <1>5, <1>6, <1>7, <1>8, <1>9, <1>10, <1>11, <1>12 DEF Next

LEMMA IpcTypes ==
  ASSUME IpcInv, [Next]_vars
  PROVE  TypeOK'
<1> USE PidFacts
<1>1. SchedTypeOK'
  <2>1. SchedInv'
    BY StepIsSchedStep, StepKeeps DEF IpcInv
  <2> QED BY <2>1 DEF SchedInv, Matches, SchedTypeOK
<1>2. /\ mail \in [Pid -> Seq(Pid \ {NullPid})] /\ sentTo \in [Pid -> Pid]
      /\ reply \in [Pid -> Pid] /\ stage \in [Pid -> Stage] /\ peer \in [Pid -> Pid]
      /\ shellLives \in BOOLEAN /\ wild \in BOOLEAN /\ current \in Pid
  BY DEF IpcInv, TypeOK, SchedTypeOK
<1>3. \A x \in {"user", "send", "receive", "exec"} : x \in Stage
  BY DEF Stage
<1>4. CASE Timer \/ YieldCall \/ Wild \/ UNCHANGED vars
  BY <1>1, <1>2, <1>4 DEF TypeOK, Timer, YieldCall, Wild, vars, ipcVars
<1>5. CASE SendEnd
  BY <1>1, <1>2, <1>3, <1>5 DEF TypeOK, SendEnd, Enter
<1>6. CASE Receive
  BY <1>1, <1>2, <1>3, <1>6 DEF TypeOK, Receive, Enter
<1>7. CASE ReceiveEnd
  <2>1. mail' \in [Pid -> Seq(Pid \ {NullPid})]
    BY <1>2, <1>7 DEF ReceiveEnd
  <2> QED BY <1>1, <1>2, <1>3, <1>7, <2>1 DEF TypeOK, ReceiveEnd, Enter
<1>8. CASE ExitCall
  BY <1>1, <1>2, <1>3, <1>8 DEF TypeOK, ExitCall
<1>9. ASSUME NEW q \in Pid, Send(q) PROVE TypeOK'
  <2>1. current \in Pid \ {NullPid}
    BY <1>2, <1>9 DEF Send, Calls, AtUser, InUserProcess
  <2>2. Append(mail[q], current) \in Seq(Pid \ {NullPid})
    BY <1>2, <2>1
  <2>3. mail' \in [Pid -> Seq(Pid \ {NullPid})]
    BY <1>2, <1>9, <2>2 DEF Send
  <2> QED BY <1>1, <1>2, <1>3, <1>9, <2>3 DEF TypeOK, Send, Enter
<1>10. ASSUME NEW q \in Pid, SendToUnused(q) PROVE TypeOK'
  BY <1>1, <1>2, <1>10 DEF TypeOK, SendToUnused
<1>11. ASSUME NEW q \in Pid, Reply(q) PROVE TypeOK'
  BY <1>1, <1>2, <1>11 DEF TypeOK, Reply, Nobody
<1>12. ASSUME NEW c \in Pid, ForkCall(c) \/ ExecCall(c) PROVE TypeOK'
  <2>1. <<>> \in Seq(Pid \ {NullPid})
    OBVIOUS
  <2>2. FreshMailbox(c)
    BY <1>12 DEF ForkCall, ExecCall
  <2>3. mail' \in [Pid -> Seq(Pid \ {NullPid})]
    BY <1>2, <2>1, <2>2 DEF FreshMailbox
  <2>4. sentTo' \in [Pid -> Pid] /\ reply' \in [Pid -> Pid]
    BY <1>2, <2>2 DEF FreshMailbox
  <2>5. stage' \in [Pid -> Stage]
    <3> DEFINE s == [stage EXCEPT ![c] = "user"]
    <3>1. s \in [Pid -> Stage]
      BY <1>2, <1>3
    <3>2. \E x \in Stage : stage' = [s EXCEPT ![current] = x]
      BY <1>2, <1>3, <1>12 DEF ForkCall, ExecCall
    <3> HIDE DEF s
    <3> QED BY <3>1, <3>2
  <2>6. peer' \in [Pid -> Pid] /\ shellLives' \in BOOLEAN /\ wild' \in BOOLEAN
    <3>1. peer' = [peer EXCEPT ![c] = Nobody] /\ shellLives' = shellLives /\ wild' = wild
      BY <1>12, Zenon DEF ForkCall, ExecCall
    <3> QED BY <1>2, <3>1
  <2> QED BY <1>1, <2>3, <2>4, <2>5, <2>6 DEF TypeOK
<1> QED BY <1>4, <1>5, <1>6, <1>7, <1>8, <1>9, <1>10, <1>11, <1>12 DEF Next

(* The EDEADLK test keeps two processes from waiting for each other: only  *)
(* a send sets sent_to, a reply and a new owner of the slot clear it.      *)
LEMMA MutualWaitKept ==
  ASSUME IpcInv, [Next]_vars
  PROVE  NoMutualWait'
<1>1. NoMutualWait /\ sentTo \in [Pid -> Pid] /\ current \in Pid
  BY DEF IpcInv, TypeOK, SchedTypeOK
<1>2. ASSUME NEW q \in Pid, Send(q) PROVE NoMutualWait'
  <2>1. sentTo' = [sentTo EXCEPT ![current] = q] /\ sentTo[q] # current /\ q # current
    BY <1>2 DEF Send, MaySend
  <2> QED BY <1>1, <2>1 DEF NoMutualWait
<1>3. ASSUME NEW q \in Pid, Reply(q) PROVE NoMutualWait'
  BY <1>1, <1>3 DEF Reply, NoMutualWait, Nobody
<1>4. ASSUME NEW c \in Pid, ForkCall(c) \/ ExecCall(c) PROVE NoMutualWait'
  BY <1>1, <1>4 DEF ForkCall, ExecCall, FreshMailbox, NoMutualWait, Nobody
<1>5. ASSUME UNCHANGED sentTo PROVE NoMutualWait'
  BY <1>1, <1>5 DEF NoMutualWait
<1> QED
  BY <1>2, <1>3, <1>4, <1>5
  DEF Next, Timer, YieldCall, SendEnd, Receive, ReceiveEnd, ExitCall, SendToUnused, Wild,
      vars, ipcVars

(* What a fork or an f_exec does to the wrappers its two processes are in. *)
LEMMA CreateStages ==
  ASSUME IpcInv, NEW c \in Pid, c # current, ForkCall(c) \/ ExecCall(c)
  PROVE  /\ stage'[c] = "user"
         /\ stage'[current] \in {"user", "exec"}
         /\ \A p \in Pid \ {c, current} : stage'[p] = stage[p]
         /\ \A p \in Pid \ {c} : peer'[p] = peer[p] /\ sentTo'[p] = sentTo[p] /\ mail'[p] = mail[p]
<1> DEFINE s == [stage EXCEPT ![c] = "user"]
<1>1. /\ stage \in [Pid -> Stage] /\ current \in Pid /\ peer \in [Pid -> Pid]
      /\ sentTo \in [Pid -> Pid] /\ mail \in [Pid -> Seq(Pid \ {NullPid})]
  BY DEF IpcInv, TypeOK, SchedTypeOK
<1>2. s \in [Pid -> Stage] /\ s[c] = "user" /\ \A p \in Pid \ {c} : s[p] = stage[p]
  <2>1. "user" \in Stage
    BY DEF Stage
  <2> QED BY <1>1, <2>1
<1>3. stage' = [s EXCEPT ![current] = "user"] \/ stage' = [s EXCEPT ![current] = "exec"]
  BY DEF ForkCall, ExecCall
<1>4. FreshMailbox(c) /\ peer' = [peer EXCEPT ![c] = Nobody]
  BY Zenon DEF ForkCall, ExecCall
<1> HIDE DEF s
<1>5. /\ stage'[c] = "user" /\ stage'[current] \in {"user", "exec"}
      /\ \A p \in Pid \ {c, current} : stage'[p] = stage[p]
  BY <1>1, <1>2, <1>3
<1>6. \A p \in Pid \ {c} : peer'[p] = peer[p] /\ sentTo'[p] = sentTo[p] /\ mail'[p] = mail[p]
  BY <1>1, <1>4 DEF FreshMailbox
<1> QED BY <1>5, <1>6

(* No process sleeps in receive with a letter in its mailbox, and one that *)
(* sleeps in send is registered with the process it sent to.               *)
Asleep(p) ==
  /\ Blocked(p) /\ stage[p] = "receive" => mail[p] = <<>>
  /\ Blocked(p) /\ stage[p] = "send" => sentTo[p] = peer[p] /\ peer[p] # Nobody

LEMMA AsleepKept ==
  ASSUME IpcInv, [Next]_vars
  PROVE  \A p \in Pid : Asleep(p)'
<1>1. /\ SchedInv /\ current \in Pid /\ pcb \in [Pid -> PCB]
      /\ stage \in [Pid -> Stage] /\ peer \in [Pid -> Pid] /\ sentTo \in [Pid -> Pid]
      /\ mail \in [Pid -> Seq(Pid \ {NullPid})]
      /\ \A p \in Pid : Asleep(p)
  BY DEF IpcInv, TypeOK, SchedTypeOK, NoLostWakeup, SenderIsRegistered, Asleep
<1>2. InUserProcess => pcb[current].state = "READY"
  BY <1>1, CurrentIsReady DEF Ready
<1> SUFFICES ASSUME NEW p \in Pid PROVE Asleep(p)'
  OBVIOUS
<1>3. CASE Timer \/ YieldCall
  <2>1. pcb'[p].state = pcb[p].state
    BY <1>1, <1>3, TimerAndYieldStates DEF Timer, YieldCall
  <2>2. UNCHANGED ipcVars
    BY <1>3 DEF Timer, YieldCall
  <2> QED BY <1>1, <2>1, <2>2 DEF Asleep, Blocked, ipcVars
<1>4. CASE SendEnd \/ ReceiveEnd
  <2>1. /\ pcb' = pcb /\ stage' = [stage EXCEPT ![current] = "user"] /\ UNCHANGED sentTo
        /\ \A x \in Pid \ {current} : mail'[x] = mail[x] /\ peer'[x] = peer[x]
    BY <1>1, <1>4 DEF SendEnd, ReceiveEnd, Enter, schedVars
  <2> QED BY <1>1, <2>1 DEF Asleep, Blocked
<1>5. CASE Receive
  <2>1. /\ stage' = [stage EXCEPT ![current] = "receive"] /\ UNCHANGED <<mail, sentTo>>
        /\ \A x \in Pid \ {current} : peer'[x] = peer[x]
    BY <1>1, <1>5 DEF Receive, Enter
  <2>2. CASE mail[current] = <<>>
    <3>1. \A x \in Pid \ {current} : pcb'[x].state = pcb[x].state
      BY <1>1, <1>5, <2>2, BlockSelfStates DEF Receive
    <3> QED BY <1>1, <2>1, <2>2, <3>1 DEF Asleep, Blocked
  <2>3. CASE mail[current] # <<>>
    <3>1. pcb' = pcb /\ pcb[current].state = "READY"
      BY <1>2, <1>5, <2>3 DEF Receive, schedVars, Calls, AtUser
    <3> QED BY <1>1, <2>1, <3>1 DEF Asleep, Blocked
  <2> QED BY <2>2, <2>3
<1>6. CASE ExitCall
  <2>1. stage' = [stage EXCEPT ![current] = "user"] /\ UNCHANGED <<mail, sentTo, peer>>
    BY <1>6 DEF ExitCall
  <2>2. \A x \in Pid \ {current} : pcb'[x].state = "BLOCKED" => pcb[x].state = "BLOCKED"
    BY <1>1, <1>6, ExitStates, PidFacts DEF ExitCall
  <2> QED BY <1>1, <2>1, <2>2 DEF Asleep, Blocked
<1>7. ASSUME NEW q \in Pid, Send(q) PROVE Asleep(p)'
  <2>1. /\ q # current /\ pcb'[q].state = "READY"
        /\ \A x \in Pid \ {q, current} : pcb'[x].state = pcb[x].state
    BY <1>1, <1>7, WakeStates DEF Send
  <2>2. /\ stage' = [stage EXCEPT ![current] = "send"] /\ peer' = [peer EXCEPT ![current] = q]
        /\ sentTo' = [sentTo EXCEPT ![current] = q] /\ q # Nobody
        /\ \A x \in Pid \ {q} : mail'[x] = mail[x]
    BY <1>1, <1>7 DEF Send, MaySend, Enter, Nobody, NullPid
  <2>3. CASE p = q
    BY <2>1, <2>3 DEF Asleep, Blocked
  <2>4. CASE p # q
    BY <1>1, <2>1, <2>2, <2>4 DEF Asleep, Blocked
  <2> QED BY <2>3, <2>4
<1>8. ASSUME NEW q \in Pid, SendToUnused(q) PROVE Asleep(p)'
  BY <1>1, <1>8 DEF SendToUnused, schedVars, Asleep, Blocked
<1>9. ASSUME NEW q \in Pid, Reply(q) PROVE Asleep(p)'
  <2>1. /\ q # current /\ pcb'[q].state = "READY"
        /\ \A x \in Pid \ {q} : pcb'[x].state = pcb[x].state
    BY <1>1, <1>9, WakeStates DEF Reply
  <2>2. /\ UNCHANGED <<mail, stage, peer>> /\ \A x \in Pid \ {q} : sentTo'[x] = sentTo[x]
    BY <1>1, <1>9 DEF Reply
  <2> QED BY <1>1, <2>1, <2>2 DEF Asleep, Blocked
<1>10. ASSUME NEW c \in Pid, ForkCall(c) \/ ExecCall(c) PROVE Asleep(p)'
  <2>1. /\ c # current /\ pcb'[c].state = "READY"
        /\ \A x \in Pid \ {c, current} : pcb'[x].state = pcb[x].state
    BY <1>1, <1>10, ForkStates, ExecStates DEF ForkCall, ExecCall
  <2> QED BY <1>1, <1>10, <2>1, CreateStages DEF Asleep, Blocked
<1>11. CASE Wild \/ UNCHANGED vars
  BY <1>1, <1>11 DEF Wild, vars, schedVars, ipcVars, Asleep, Blocked
<1> QED BY <1>3, <1>4, <1>5, <1>6, <1>7, <1>8, <1>9, <1>10, <1>11 DEF Next

ShellsChild(c) == c # NullPid /\ c # ShellPid /\ pcb[c].state # "DEAD" /\ pcb[c].ppid = ShellPid

(* A child of the sleeping shell stays its child until it exits, and that  *)
(* exit wakes the shell.                                                   *)
LEMMA ShellHasChildKept ==
  ASSUME IpcInv, [Next]_vars
  PROVE  ShellHasChild'
<1>1. /\ SchedInv /\ current \in Pid /\ stage \in [Pid -> Stage] /\ ShellHasChild
      /\ pcb[NullPid].state = "READY"
  BY DEF IpcInv, TypeOK, SchedTypeOK, SchedInv, PCBsSound, Ready
<1>2. InUserProcess => pcb[current].state = "READY"
  BY <1>1, CurrentIsReady DEF Ready
<1> USE PidFacts
<1> SUFFICES ASSUME pcb'[ShellPid].state = "BLOCKED", stage'[ShellPid] = "exec"
             PROVE  \E c \in Pid : ShellsChild(c)'
  BY DEF ShellHasChild, Blocked, ShellsChild
<1>3. ASSUME Blocked(ShellPid), stage[ShellPid] = "exec"
      PROVE  \E c \in Pid : ShellsChild(c)
  BY <1>1, <1>3 DEF ShellHasChild, ShellsChild
(* A step that lets every process live on and keep its parent, and neither *)
(* blocks the shell nor takes it into f_exec.                              *)
<1>4. ASSUME \A p \in Pid : pcb[p].state # "DEAD" =>
                pcb'[p].state # "DEAD" /\ pcb'[p].ppid = pcb[p].ppid,
             pcb[ShellPid].state = "BLOCKED", stage[ShellPid] = "exec"
      PROVE  \E c \in Pid : ShellsChild(c)'
  BY <1>3, <1>4 DEF ShellsChild, Blocked
<1>5. CASE Timer \/ YieldCall
  <2>1. \A p \in Pid : pcb'[p].state = pcb[p].state /\ pcb'[p].ppid = pcb[p].ppid
    BY <1>1, <1>5, TimerAndYieldStates DEF Timer, YieldCall
  <2>2. stage' = stage
    BY <1>5 DEF Timer, YieldCall, ipcVars
  <2> QED BY <1>4, <2>1, <2>2
<1>6. CASE SendEnd \/ ReceiveEnd \/ \E q \in Pid : SendToUnused(q)
  <2>1. pcb' = pcb /\ (stage'[ShellPid] = "exec" => stage[ShellPid] = "exec")
    BY <1>1, <1>6 DEF SendEnd, ReceiveEnd, SendToUnused, Enter, schedVars
  <2> QED BY <1>4, <2>1
<1>7. CASE Receive
  <2>1. stage' = [stage EXCEPT ![current] = "receive"]
    BY <1>7 DEF Receive, Enter
  <2>2. current # ShellPid /\ stage[ShellPid] = "exec"
    BY <1>1, <2>1
  <2>3. \A p \in Pid : pcb'[p].ppid = pcb[p].ppid /\ (p # current => pcb'[p].state = pcb[p].state)
    BY <1>1, <1>7, BlockSelfStates DEF Receive, schedVars
  <2>4. pcb'[current].state # "DEAD"
    BY <1>1, <1>2, <1>7, BlockSelfStates DEF Receive, schedVars, Calls, AtUser
  <2> QED BY <1>4, <2>2, <2>3, <2>4
<1>8. CASE ExitCall
  <2>1. stage' = [stage EXCEPT ![current] = "user"] /\ Exit /\ InUserProcess
    BY <1>8 DEF ExitCall, AtUser
  <2>2. current # ShellPid /\ stage[ShellPid] = "exec"
    BY <1>1, <2>1
  <2>3. /\ \A p \in Pid : pcb'[p].ppid = pcb[p].ppid
        /\ \A p \in Pid \ {current, ShellPid} : pcb'[p].state = pcb[p].state
        /\ pcb'[ShellPid].state \in {"READY", pcb[ShellPid].state, "DEAD"}
        /\ pcb[current].ppid = ShellPid => pcb'[ShellPid].state = "READY"
    BY <1>1, <2>1, ExitStates
  <2>4. pcb[ShellPid].state = "BLOCKED" /\ pcb[current].ppid # ShellPid
    BY <2>3
  <2>5. PICK c \in Pid : ShellsChild(c)
    BY <1>3, <2>2, <2>4 DEF Blocked
  <2> QED BY <2>3, <2>4, <2>5 DEF ShellsChild
<1>9. ASSUME NEW q \in Pid, Send(q) PROVE \E c \in Pid : ShellsChild(c)'
  <2>1. stage' = [stage EXCEPT ![current] = "send"]
    BY <1>9 DEF Send, Enter
  <2>2. current # ShellPid /\ stage[ShellPid] = "exec"
    BY <1>1, <2>1
  <2>3. /\ WakeAndBlock(q) /\ q # current /\ pcb'[q].state = "READY"
        /\ \A p \in Pid : pcb'[p].ppid = pcb[p].ppid
        /\ \A p \in Pid \ {q, current} : pcb'[p].state = pcb[p].state
    BY <1>1, <1>9, WakeStates DEF Send
  <2>4. pcb'[current].state = "BLOCKED"
    BY <1>1, <2>3, WakeAndBlockBlocks
  <2> QED BY <1>4, <2>2, <2>3, <2>4
<1>10. ASSUME NEW q \in Pid, Reply(q) PROVE \E c \in Pid : ShellsChild(c)'
  <2>1. /\ q # current /\ pcb'[q].state = "READY"
        /\ \A p \in Pid : pcb'[p].ppid = pcb[p].ppid
        /\ \A p \in Pid \ {q} : pcb'[p].state = pcb[p].state
    BY <1>1, <1>10, WakeStates DEF Reply
  <2> QED BY <1>4, <1>10, <2>1 DEF Reply
<1>11. ASSUME NEW c \in Pid, ForkCall(c) \/ ExecCall(c) PROVE \E d \in Pid : ShellsChild(d)'
  <2>1. /\ c # current /\ pcb'[c].state = "READY" /\ pcb'[c].ppid = current
        /\ \A p \in Pid \ {c} : pcb'[p].ppid = pcb[p].ppid
        /\ \A p \in Pid \ {c, current} : pcb'[p].state = pcb[p].state
        /\ current # ShellPid \/ ForkCall(c) => pcb'[current].state = pcb[current].state
        /\ pcb[c].state = "DEAD" /\ pcb[current].state = "READY"
    <3>1. Fork(c) \/ Exec(c)
      BY <1>11, Zenon DEF ForkCall, ExecCall
    <3>2. ForkCall(c) => Fork(c)
      BY Zenon DEF ForkCall
    <3>3. InUserProcess /\ pcb[c].state = "DEAD"
      BY <3>1, Zenon DEF Fork, Exec, FirstFree
    <3> QED BY <1>1, <1>2, <3>1, <3>2, <3>3, ForkStates, ExecStates
  <2>2. CASE current = ShellPid
    <3>1. ShellsChild(c)'
      BY <1>1, <2>1, <2>2 DEF ShellsChild
    <3> QED BY <3>1
  <2>3. CASE current # ShellPid
    <3>1. c # ShellPid /\ pcb[ShellPid].state = "BLOCKED"
      BY <2>1, <2>3
    <3>2. stage[ShellPid] = "exec"
      BY <1>11, <2>1, <2>3, <3>1, CreateStages
    <3> QED BY <1>4, <2>1, <2>3, <3>1, <3>2
  <2> QED BY <2>2, <2>3
<1>12. CASE Wild \/ UNCHANGED vars
  <2>1. pcb' = pcb /\ stage' = stage
    BY <1>12 DEF Wild, vars, schedVars, ipcVars
  <2> QED BY <1>4, <2>1
<1> QED BY <1>5, <1>6, <1>7, <1>8, <1>9, <1>10, <1>11, <1>12 DEF Next

----------------------------------------------------------------------------
LEMMA InitHolds == Init => IpcInv
<1> SUFFICES ASSUME Init PROVE IpcInv
  OBVIOUS
<1>1. SchedInv
  BY InitEstablishes DEF Init
<1>2. \A p \in Pid : pcb[p].state \in {"READY", "DEAD"}
  BY <1>1 DEF Init, SchedInit, InitPCB, UnusedPCB
<1>3. TypeOK
  <2>1. SchedTypeOK
    BY <1>1 DEF SchedInv, Matches, SchedTypeOK
  <2>2. <<>> \in Seq(Pid \ {NullPid}) /\ "user" \in Stage
    BY DEF Stage
  <2> QED BY <2>1, <2>2, PidFacts DEF Init, TypeOK
<1> QED
  BY <1>1, <1>2, <1>3, PidFacts
  DEF Init, IpcInv, NoLostWakeup, SenderIsRegistered, NoMutualWait, ShellHasChild, Blocked, Nobody

LEMMA IpcStep == IpcInv /\ [Next]_vars => IpcInv'
<1> SUFFICES ASSUME IpcInv, [Next]_vars PROVE IpcInv'
  OBVIOUS
<1>1. SchedInv'
  BY StepIsSchedStep, StepKeeps DEF IpcInv
<1>2. NoLostWakeup' /\ SenderIsRegistered'
  BY AsleepKept DEF Asleep, NoLostWakeup, SenderIsRegistered
<1> QED BY <1>1, <1>2, IpcTypes, MutualWaitKept, ShellHasChildKept DEF IpcInv

(* The inductive invariant of SrrIpc.                                      *)
THEOREM IpcInvariant == Spec => []IpcInv
<1> QED BY InitHolds, IpcStep, PTL DEF Spec

(* Send, receive and reply use the scheduler only as it may be used: what  *)
(* is proved of Sched holds of every behaviour of SrrIpc.                  *)
THEOREM IpcImplementsSched == Spec => SchedSpec
<1>1. Init => SchedInit
  BY DEF Init
<1> QED BY <1>1, StepIsSchedStep, PTL DEF Spec, SchedSpec

(* Type correctness of the mailboxes.                                      *)
THEOREM IpcTypeCorrect == Spec => []TypeOK
<1>1. IpcInv => TypeOK
  BY DEF IpcInv
<1> QED BY <1>1, IpcInvariant, PTL

(* receive() never sleeps through a letter.                                *)
THEOREM IpcNoLostWakeup == Spec => []NoLostWakeup
<1>1. IpcInv => NoLostWakeup
  BY DEF IpcInv
<1> QED BY <1>1, IpcInvariant, PTL

(* reply() accepts a reply to every sender that sleeps.                    *)
THEOREM IpcSenderIsRegistered == Spec => []SenderIsRegistered
<1>1. IpcInv => SenderIsRegistered
  BY DEF IpcInv
<1> QED BY <1>1, IpcInvariant, PTL

(* The EDEADLK test of send() leaves no pair waiting for each other.       *)
THEOREM IpcNoMutualWait == Spec => []NoMutualWait
<1>1. IpcInv => NoMutualWait
  BY DEF IpcInv
<1> QED BY <1>1, IpcInvariant, PTL

(* The shell never sleeps in f_exec without a child whose exit wakes it.   *)
THEOREM IpcShellHasChild == Spec => []ShellHasChild
<1>1. IpcInv => ShellHasChild
  BY DEF IpcInv
<1> QED BY <1>1, IpcInvariant, PTL
=============================================================================
