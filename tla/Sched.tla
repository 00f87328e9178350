------------------------------- MODULE Sched -------------------------------
(***************************************************************************)
(* The process table, the ready queue and the dispatcher of BuddyOS        *)
(* (kernel/sched/proc.c, kernel/sched/dispatcher.c and the timer half of   *)
(* kernel/interrupt/k_intr.c).                                             *)
(*                                                                         *)
(* The kernel runs with interrupts masked, so one trap is one action: the  *)
(* svc or timer entry, execute_syscall, the dispatcher's test after it and *)
(* the switch into the process it selects.  Between two actions the        *)
(* process current is executing user code.                                 *)
(*                                                                         *)
(* An operator named Bad... is a seeded fault: a form of the definition    *)
(* after it that a run must reject.  No specification uses one.            *)
(***************************************************************************)
EXTENDS Naturals, Sequences

CONSTANTS MaxProcs,   \* MAX_PROCS, slots of the process table
          Quantum     \* PROC_QUANTUM, timer ticks a process may run

(* The table holds the null process and the shell from the start.  The     *)
(* code asks for a quantum of at least two ticks (context_switch.S,        *)
(* switch_to_start) and sets 1000; nothing here needs more than one.       *)
ASSUME MaxProcsAssumption == MaxProcs \in Nat /\ MaxProcs >= 2
ASSUME QuantumAssumption  == Quantum \in Nat /\ Quantum >= 1

Pid      == 0 .. MaxProcs - 1
NullPid  == 0
ShellPid == 1

VARIABLES
  pcb,          \* PROC_TABLE, the scheduling fields of each PCB
  readyQueue,   \* ready_queue, the pids linked through sched_node
  current       \* current_process

schedVars == <<pcb, readyQueue, current>>

(* The value RUNNING of enum ProcessState is declared but never stored.    *)
ProcessState == {"READY", "BLOCKED", "DEAD"}
TrapReason   == {"HANDLED", "SYSCALL", "INTERRUPT"}

PCB == [state      : ProcessState,
        ppid       : Pid,                \* parent of the slot's last process
        prio       : {"LOW", "HIGH"},
        cpuTime    : 0 .. Quantum,       \* ticks left
        started    : BOOLEAN,            \* has been through switch_to_start
        trapReason : TrapReason]         \* how the dispatcher resumes it

SchedTypeOK ==
  /\ pcb \in [Pid -> PCB]
  /\ readyQueue \in Seq(Pid)
  /\ current \in Pid

(* A zeroed PCB marked DEAD by main, and the PCB that init_process makes.  *)
UnusedPCB == [state |-> "DEAD", ppid |-> NullPid, prio |-> "LOW", cpuTime |-> 0,
              started |-> FALSE, trapReason |-> "HANDLED"]
InitPCB(pr, strt) ==
  [UnusedPCB EXCEPT !.state = "READY", !.prio = pr, !.cpuTime = Quantum,
                    !.started = strt]

(* main: the null process is LOW and not queued, the shell is HIGH and     *)
(* queued, and the dispatcher starts the null process first.               *)
SchedInit ==
  /\ pcb = [p \in Pid |-> CASE p = NullPid  -> InitPCB("LOW", TRUE)
                            [] p = ShellPid -> InitPCB("HIGH", FALSE)
                            [] OTHER        -> UnusedPCB]
  /\ readyQueue = <<ShellPid>>
  /\ current = NullPid

----------------------------------------------------------------------------
(* The kernel's procedures, on a process table t and a ready queue q.      *)

Ready(t, p) == t[p].state = "READY"

Rotate(q) == Append(Tail(q), Head(q))

(* schedule(): the head goes to the tail unless the current process is the *)
(* null process or has just been blocked; the new head runs next.          *)
BadScheduledQueue(t, q) == q
ScheduledQueue(t, q) ==
  IF q # <<>> /\ t[current].prio # "LOW" /\ t[current].state # "BLOCKED"
  THEN Rotate(q) ELSE q

NextProcess(q) == IF q = <<>> THEN NullPid ELSE Head(q)

(* The dispatcher switches into p: from then on p counts as started and    *)
(* its trap as handled.                                                    *)
BadResumed(t, p) == [t EXCEPT ![p].started = TRUE, ![p].trapReason = "HANDLED",
                            ![p].state = "RUNNING"]
Resumed(t, p) == [t EXCEPT ![p].started = TRUE, ![p].trapReason = "HANDLED"]

Schedule(t, q) ==
  /\ readyQueue' = ScheduledQueue(t, q)
  /\ current' = NextProcess(readyQueue')
  /\ pcb' = Resumed(t, current')

(* The table once current has trapped into the kernel.                     *)
Trapped(reason) == [pcb EXCEPT ![current].trapReason = reason]

(* A syscall that leaves its caller running.                               *)
Return(t, q) ==
  /\ readyQueue' = q
  /\ current' = current
  /\ pcb' = Resumed(t, current)

(* wake_proc: whatever is not READY becomes READY and is queued, a DEAD    *)
(* process too.                                                            *)
Woken(t, p) == [t EXCEPT ![p].state = "READY"]
BadWokenQueue(t, q, p) == Append(q, p)
BadWokenQueueAtHead(t, q, p) == IF Ready(t, p) THEN q ELSE <<p>> \o q
WokenQueue(t, q, p) == IF Ready(t, p) THEN q ELSE Append(q, p)

(* block(), after which the dispatcher finds the caller BLOCKED, refills   *)
(* its quantum and calls schedule().                                       *)
Block(t, q) ==
  Schedule([t EXCEPT ![current].state = "BLOCKED", ![current].cpuTime = Quantum],
           Tail(q))

(* create_process in the first DEAD slot; with none free, fork and f_exec  *)
(* return -1 and nothing changes.                                          *)
FirstFree(c) == /\ pcb[c].state = "DEAD"
                /\ \A d \in Pid : pcb[d].state = "DEAD" => c <= d

BadNewborn(c, strt, reason) ==
  [Trapped("SYSCALL") EXCEPT
     ![c] = [state |-> "READY", ppid |-> current, prio |-> pcb[current].prio,
             cpuTime |-> pcb[c].cpuTime, started |-> strt, trapReason |-> reason]]
Newborn(c, strt, reason) ==
  [Trapped("SYSCALL") EXCEPT
     ![c] = [state |-> "READY", ppid |-> current, prio |-> pcb[current].prio,
             cpuTime |-> Quantum, started |-> strt, trapReason |-> reason]]

----------------------------------------------------------------------------
(* The timer interrupt.                                                    *)

BadTick ==
  /\ pcb' = [pcb EXCEPT ![current].cpuTime = @ - 1]
  /\ UNCHANGED <<readyQueue, current>>
Tick ==
  /\ pcb[current].cpuTime > 1
  /\ pcb' = [pcb EXCEPT ![current].cpuTime = @ - 1]
  /\ UNCHANGED <<readyQueue, current>>

Preempt ==
  /\ pcb[current].cpuTime <= 1
  /\ Schedule([Trapped("INTERRUPT") EXCEPT ![current].cpuTime = Quantum], readyQueue)

TimerInterrupt == Tick \/ Preempt

(* The system calls.  The null process makes none.                         *)
InUserProcess == current # NullPid

Yield ==
  /\ InUserProcess
  /\ Schedule(Trapped("SYSCALL"), readyQueue)

(* The child of a fork resumes from the same svc as its parent.            *)
BadFork(c) ==
  /\ InUserProcess
  /\ FirstFree(c)
  /\ Return(Newborn(c, TRUE, "HANDLED"), Append(readyQueue, c))
Fork(c) ==
  /\ InUserProcess
  /\ FirstFree(c)
  /\ Return(Newborn(c, TRUE, "SYSCALL"), Append(readyQueue, c))

(* The child of f_exec starts from the beginning of its program; the shell *)
(* blocks until a child exits.                                             *)
Exec(c) ==
  /\ InUserProcess
  /\ FirstFree(c)
  /\ LET t == Newborn(c, FALSE, "HANDLED")
         q == Append(readyQueue, c)
     IN IF current = ShellPid THEN Block(t, q) ELSE Return(t, q)

(* kexit() and the schedule() the EXIT case adds to it.  A child of the    *)
(* shell wakes it.                                                         *)
BadExit ==
  /\ InUserProcess
  /\ LET t == [Trapped("SYSCALL") EXCEPT ![current].state = "DEAD"]
         q == ScheduledQueue(t, Tail(readyQueue))
     IN /\ current' = NextProcess(q)
        /\ readyQueue' = IF pcb[current].ppid = ShellPid THEN WokenQueue(t, q, ShellPid)
                                                         ELSE q
        /\ pcb' = Resumed(IF pcb[current].ppid = ShellPid THEN Woken(t, ShellPid) ELSE t,
                          current')
BadExitUnheard ==
  /\ InUserProcess
  /\ Schedule([Trapped("SYSCALL") EXCEPT ![current].state = "DEAD"], Tail(readyQueue))
Exit ==
  /\ InUserProcess
  /\ LET t == [Trapped("SYSCALL") EXCEPT ![current].state = "DEAD"]
         q == Tail(readyQueue)
     IN IF pcb[current].ppid = ShellPid
        THEN Schedule(Woken(t, ShellPid), WokenQueue(t, q, ShellPid))
        ELSE Schedule(t, q)

(* What receive, send and reply do to the scheduler (SrrIpc): the caller   *)
(* blocks; it wakes p and blocks; it wakes p and goes on.  p has held a    *)
(* process: a PCB never used has no mailbox to reach wake_proc through.    *)
Wakeable(p) == p # current /\ pcb[p].prio # "LOW"

BlockSelf ==
  /\ InUserProcess
  /\ Block(Trapped("SYSCALL"), readyQueue)

WakeAndBlock(p) ==
  /\ InUserProcess
  /\ Wakeable(p)
  /\ LET t == Trapped("SYSCALL")
     IN Block(Woken(t, p), WokenQueue(t, readyQueue, p))

Wake(p) ==
  /\ InUserProcess
  /\ Wakeable(p)
  /\ LET t == Trapped("SYSCALL")
     IN Return(Woken(t, p), WokenQueue(t, readyQueue, p))

SchedNext ==
  \/ Tick
  \/ Preempt
  \/ Yield
  \/ Exit
  \/ BlockSelf
  \/ \E p \in Pid : Fork(p) \/ Exec(p) \/ WakeAndBlock(p) \/ Wake(p)

SchedSpec == SchedInit /\ [][SchedNext]_schedVars

(* The timer keeps interrupting whatever runs in user mode.                *)
FairSched == SchedSpec /\ WF_schedVars(TimerInterrupt)

----------------------------------------------------------------------------
(* Properties.                                                             *)

(* The ready queue holds each READY process but the null process exactly   *)
(* once and nothing else: no process is queued twice by wake_proc or       *)
(* create_process, and none is READY yet unreachable for schedule().       *)
QueueIsReadySet ==
  /\ \A i, j \in DOMAIN readyQueue : readyQueue[i] = readyQueue[j] => i = j
  /\ \A p \in Pid :
       (p # NullPid /\ Ready(pcb, p)) <=> (\E i \in DOMAIN readyQueue : readyQueue[i] = p)

(* The running process heads the ready queue.  block() and kexit() pop the *)
(* head to take "the current process out of the queue" without looking at  *)
(* which process it is.                                                    *)
CurrentHeadsQueue ==
  InUserProcess => readyQueue # <<>> /\ Head(readyQueue) = current

(* The null process runs only when nothing else can, except before the     *)
(* shell's first dispatch.                                                 *)
NullOnlyWhenIdle ==
  current = NullPid => readyQueue = <<>> \/ ~pcb[ShellPid].started

(* Whatever schedule() may pick can be resumed: it has not started, or it  *)
(* left user mode by a trap that the dispatcher knows how to return from.  *)
(* A started process whose trap reads HANDLED would make the dispatcher    *)
(* loop without ever switching.                                            *)
ReadyIsResumable ==
  \A p \in Pid \ {current} :
    Ready(pcb, p) => ~pcb[p].started \/ pcb[p].trapReason # "HANDLED"

(* switch_to_start relies on a process that has not started having all of  *)
(* its quantum, so that the timer cannot reschedule inside it.             *)
StartsWithFullQuantum ==
  \A p \in Pid : Ready(pcb, p) /\ ~pcb[p].started => pcb[p].cpuTime = Quantum

(* Round robin: a process that is READY gets the processor.                *)
EveryReadyRuns ==
  \A p \in Pid \ {NullPid} : Ready(pcb, p) ~> (current = p)

(* ... and it does whenever exits cease: an exit is the only step that     *)
(* sends a process which has not run to the tail of the queue.             *)
ReadyRunsOnceExitsCease == <>[][~Exit]_schedVars => EveryReadyRuns
=============================================================================
