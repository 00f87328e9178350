---------------------------- MODULE SocketProofs ----------------------------
(***************************************************************************)
(* The invariants of Sockets, proved for any number of processes, ports    *)
(* and sockets and every length of the two queues.                         *)
(*                                                                         *)
(* The argument: socket_free and init_sockets leave a socket without       *)
(* packets and not listening (SoundSocket), and only an open socket is     *)
(* used, each by one process (UsersAreAlone).  So what a poll saw is still *)
(* there at the receive after it (PollHolds), and what has come in since   *)
(* the socket was opened is for a port it was bound to.                    *)
(***************************************************************************)
EXTENDS Sockets, TLAPS

(* A free socket is clean; an open one has only what came for it.          *)
SoundSocket(s) ==
  /\ pending[s] <= MaxPendingPackets
  /\ socketTable[s].free => pending[s] = 0 /\ ~socketTable[s].waiting
  /\ socketTable[s].waiting => socketTable[s].srcPort \in boundTo[s]
  /\ \A i \in 0 .. MaxPendingPackets - 1 : i < pending[s] => data[s][i] \in boundTo[s]

UsersAreAlone ==
  /\ \A p \in Process : \A s \in own[p] : ~socketTable[s].free
  /\ \A p, q \in Process : p # q => own[p] \cap own[q] = {}

PollHolds ==
  \A p \in Process : polled[p] # None => polled[p] \in own[p] /\ pending[polled[p]] > 0

(* The inductive invariant.                                                *)
SocketInv ==
  /\ TypeOK
  /\ \A s \in Socket : SoundSocket(s)
  /\ UsersAreAlone
  /\ PollHolds
  /\ FramesAccounted

(* The count of a queue that is not empty does not wrap.                   *)
LEMMA CountStaysAByte == \A x \in 0 .. 255 : (x - 1) % 256 \in 0 .. 255
OBVIOUS

LEMMA CountsDown == \A x \in 1 .. 255 : (x - 1) % 256 = x - 1
OBVIOUS

(* What the calls that change the table make of it.                        *)
LEMMA OpenTable ==
  ASSUME NEW f \in [Socket -> SocketRecord], NEW s \in Socket,
         NEW g, g = [f EXCEPT ![s].free = FALSE]
  PROVE  /\ g \in [Socket -> SocketRecord]
         /\ \A r \in Socket : g[r].free = (f[r].free /\ r # s)
         /\ \A r \in Socket : g[r].waiting = f[r].waiting /\ g[r].srcPort = f[r].srcPort
BY DEF SocketRecord

LEMMA CloseTable ==
  ASSUME NEW f \in [Socket -> SocketRecord], NEW s \in Socket,
         NEW g, g = [f EXCEPT ![s] = FreeSocket]
  PROVE  /\ g \in [Socket -> SocketRecord]
         /\ \A r \in Socket \ {s} : g[r] = f[r]
         /\ ~g[s].waiting
BY DEF SocketRecord, FreeSocket

LEMMA BindTable ==
  ASSUME NEW f \in [Socket -> SocketRecord], NEW s \in Socket, NEW port \in Port,
         NEW g, g = [f EXCEPT ![s].waiting = TRUE, ![s].srcPort = port]
  PROVE  /\ g \in [Socket -> SocketRecord]
         /\ \A r \in Socket : g[r].free = f[r].free
         /\ \A r \in Socket \ {s} : g[r] = f[r]
         /\ g[s].srcPort = port
BY DEF SocketRecord

LEMMA SendTable ==
  ASSUME NEW f \in [Socket -> SocketRecord], NEW s \in Socket,
         NEW port \in Port, NEW d \in Dest,
         NEW g, g = [f EXCEPT ![s].srcPort = port, ![s].dest = d]
  PROVE  /\ g \in [Socket -> SocketRecord]
         /\ \A r \in Socket : g[r].free = f[r].free
         /\ \A r \in Socket \ {s} : g[r] = f[r]
         /\ g[s].srcPort = port
BY DEF SocketRecord

(* A request is queued only while there is room for it.                    *)
LEMMA QueueInBounds ==
  ASSUME NEW q \in Seq(Socket), NEW s \in Socket, NEW n \in Nat, Len(q) < n
  PROVE  Append(q, s) \in Seq(Socket) /\ Len(Append(q, s)) <= n
OBVIOUS

----------------------------------------------------------------------------

LEMMA InitEstablishes == Init => SocketInv
<1> SUFFICES ASSUME Init PROVE SocketInv
  OBVIOUS
<1>1. socketTable \in [Socket -> SocketRecord]
  BY DEF Init, SocketRecord, FreeSocket
<1>2. \A s \in Socket : socketTable[s].free /\ ~socketTable[s].waiting
  BY DEF Init, FreeSocket
<1>3. que \in Seq(Socket) /\ Len(que) = 0
  BY DEF Init
<1>4. /\ pending \in [Socket -> 0 .. 255] /\ \A s \in Socket : pending[s] = 0
      /\ data \in [Socket -> [0 .. MaxPendingPackets - 1 -> Port \cup {None}]]
  BY DEF Init
<1>5. /\ own \in [Process -> SUBSET Socket] /\ \A p \in Process : own[p] = {}
      /\ polled \in [Process -> Socket \cup {None}] /\ \A p \in Process : polled[p] = None
      /\ boundTo \in [Socket -> SUBSET Port]
  BY DEF Init
<1>6. frames = 0 /\ lost = 0
  BY DEF Init
<1>7. TypeOK
  BY <1>1, <1>3, <1>4, <1>5, <1>6, LimitsAssumption DEF TypeOK
<1>8. \A s \in Socket : SoundSocket(s)
  BY <1>2, <1>4, LimitsAssumption DEF SoundSocket
<1>9. UsersAreAlone /\ PollHolds /\ FramesAccounted
  BY <1>3, <1>5, <1>6 DEF UsersAreAlone, PollHolds, FramesAccounted
<1> QED
  BY <1>7, <1>8, <1>9 DEF SocketInv

(* Every step keeps the types.                                             *)
LEMMA StepKeepsTypes ==
  ASSUME TypeOK, FramesAccounted, \A s \in Socket : SoundSocket(s), [Next]_vars
  PROVE  TypeOK'
<1>0. /\ socketTable \in [Socket -> SocketRecord]
      /\ boundTo \in [Socket -> SUBSET Port]
      /\ que \in Seq(Socket) /\ Len(que) <= MaxTransmitRequest
      /\ frames \in Nat /\ lost \in 0 .. MaxLost
  BY DEF TypeOK
<1>1. ASSUME NEW p \in Process, Exit(p) PROVE TypeOK'
  BY <1>1 DEF TypeOK, Exit, kernelVars
<1>2. ASSUME NEW p \in Process, NEW s \in Socket, Open(p, s) PROVE TypeOK'
  <2>1. socketTable' \in [Socket -> SocketRecord]
    BY <1>0, <1>2, OpenTable DEF Open
  <2>2. own' \in [Process -> SUBSET Socket] /\ boundTo' \in [Socket -> SUBSET Port]
    BY <1>2 DEF TypeOK, Open
  <2> QED
    BY <1>2, <2>1, <2>2 DEF TypeOK, Open
<1>3. ASSUME NEW p \in Process, NEW s \in Socket, Close(p, s) PROVE TypeOK'
  <2>1. socketTable' \in [Socket -> SocketRecord]
    BY <1>0, <1>3, CloseTable DEF Close
  <2>2. /\ pending' \in [Socket -> 0 .. 255]
        /\ own' \in [Process -> SUBSET Socket] /\ polled' \in [Process -> Socket \cup {None}]
    BY <1>3 DEF TypeOK, Close
  <2> QED
    BY <1>3, <2>1, <2>2 DEF TypeOK, Close
<1>4. ASSUME NEW p \in Process, NEW s \in Socket, Poll(p, s) PROVE TypeOK'
  BY <1>4 DEF TypeOK, Poll, kernelVars
<1>5. ASSUME NEW p \in Process, NEW s \in Socket, Recv(p, s) PROVE TypeOK'
  <2>1. (pending[s] - 1) % 256 \in 0 .. 255
    BY CountStaysAByte DEF TypeOK
  <2> QED
    BY <1>5, <2>1 DEF TypeOK, Recv
<1>6. ASSUME NEW p \in Process, NEW s \in Socket, NEW port \in Port, Bind(p, s, port) PROVE TypeOK'
  <2>1. socketTable' \in [Socket -> SocketRecord]
    BY <1>0, <1>6, BindTable DEF Bind
  <2>2. boundTo' \in [Socket -> SUBSET Port]
    BY <1>0, <1>6 DEF Bind
  <2> QED
    BY <1>6, <2>1, <2>2 DEF TypeOK, Bind
<1>7. ASSUME NEW p \in Process, NEW s \in Socket, NEW port \in Port, NEW d \in Dest,
             SendTo(p, s, port, d)
      PROVE  TypeOK'
  <2>0. /\ socketTable' = [socketTable EXCEPT ![s].srcPort = port, ![s].dest = d]
        /\ socketTable \in [Socket -> SocketRecord]
    BY <1>0, <1>7 DEF SendTo
  <2>1. socketTable' \in [Socket -> SocketRecord]
    BY <2>0 DEF SocketRecord
  <2>2. boundTo' \in [Socket -> SUBSET Port]
    BY <1>0, <1>7 DEF SendTo
  <2>3. que' \in Seq(Socket) /\ Len(que') <= MaxTransmitRequest
    BY <1>0, <1>7, QueueInBounds, LimitsAssumption DEF SendTo
  <2>4. lost' \in 0 .. MaxLost /\ frames' \in Nat
    BY <1>0, <1>7, LimitsAssumption DEF SendTo
  <2> QED
    BY <1>7, <2>1, <2>2, <2>3, <2>4 DEF TypeOK, SendTo
<1>8. ASSUME Timer PROVE TypeOK'
  <2>1. ASSUME NEW port \in Port, Deliver(port)
        PROVE  /\ pending' \in [Socket -> 0 .. 255]
               /\ data' \in [Socket -> [0 .. MaxPendingPackets - 1 -> Port \cup {None}]]
    <3>0. MaxPendingPackets \in 1 .. 255 /\ \A s \in Socket : pending[s] \in 0 .. 255
      BY LimitsAssumption DEF TypeOK
    <3>1. \A s \in Socket : pending'[s] \in 0 .. 255
      BY <2>1, <3>0 DEF Deliver, HasRoom
    <3>2. \A s \in Socket : data'[s] \in [0 .. MaxPendingPackets - 1 -> Port \cup {None}]
      BY <2>1 DEF TypeOK, Deliver
    <3> QED
      BY <2>1, <3>1, <3>2 DEF Deliver
  <2>2. frames' \in Nat
    BY <1>8 DEF Timer, Transmit, TypeOK, FramesAccounted
  <2>3. que' \in Seq(Socket) /\ Len(que') <= MaxTransmitRequest
    BY <1>8, LimitsAssumption DEF Timer, Transmit
  <2>4. /\ pending' \in [Socket -> 0 .. 255]
        /\ data' \in [Socket -> [0 .. MaxPendingPackets - 1 -> Port \cup {None}]]
    BY <1>8, <2>1 DEF Timer, TypeOK
  <2> QED
    BY <1>8, <2>2, <2>3, <2>4 DEF Timer, Transmit, TypeOK
<1>9. ASSUME UNCHANGED vars PROVE TypeOK'
  BY <1>9 DEF TypeOK, vars, kernelVars
<1> QED
  BY <1>1, <1>2, <1>3, <1>4, <1>5, <1>6, <1>7, <1>8, <1>9 DEF Next

(* What the sockets say of themselves, through the calls ...               *)
LEMMA StepKeepsSockets ==
  ASSUME SocketInv, [Next]_vars
  PROVE  (\A s \in Socket : SoundSocket(s))'
<1> SUFFICES ASSUME NEW r \in Socket PROVE SoundSocket(r)'
  OBVIOUS
<1>0. UsersAreAlone /\ PollHolds /\ SoundSocket(r)
  BY DEF SocketInv
<1>9. /\ socketTable \in [Socket -> SocketRecord] /\ pending \in [Socket -> 0 .. 255]
       /\ data \in [Socket -> [0 .. MaxPendingPackets - 1 -> Port \cup {None}]]
       /\ own \in [Process -> SUBSET Socket] /\ boundTo \in [Socket -> SUBSET Port]
       /\ polled \in [Process -> Socket \cup {None}]
  BY DEF SocketInv, TypeOK
<1>1. ASSUME NEW p \in Process, NEW s \in Socket, Exit(p) \/ Poll(p, s) PROVE SoundSocket(r)'
  BY <1>0, <1>1 DEF SoundSocket, Exit, Poll, kernelVars
<1>2. ASSUME NEW p \in Process, NEW s \in Socket, Open(p, s) PROVE SoundSocket(r)'
  BY <1>0, <1>9, <1>2 DEF SoundSocket, Open
<1>3. ASSUME NEW p \in Process, NEW s \in Socket, Close(p, s) PROVE SoundSocket(r)'
  <2>1. /\ \A q \in Socket \ {s} : socketTable'[q] = socketTable[q]
        /\ ~socketTable'[s].waiting
    BY <1>0, <1>9, <1>3, CloseTable DEF Close
  <2>2. pending' = [pending EXCEPT ![s] = 0] /\ UNCHANGED <<data, boundTo>>
    BY <1>3 DEF Close
  <2>3. CASE r = s
    <3>1. pending'[r] = 0
      BY <1>0, <1>9, <2>2, <2>3
    <3> QED
      BY <2>1, <2>3, <3>1, LimitsAssumption DEF SoundSocket
  <2>4. CASE r # s
    <3>1. pending'[r] = pending[r] /\ socketTable'[r] = socketTable[r]
      BY <2>1, <2>2, <2>4
    <3> QED
      BY <1>0, <2>2, <3>1 DEF SoundSocket
  <2> QED
    BY <2>3, <2>4
<1>4. ASSUME NEW p \in Process, NEW s \in Socket, Recv(p, s) PROVE SoundSocket(r)'
  <2>1. pending[s] \in 1 .. 255 /\ ~socketTable[s].free
    BY <1>0, <1>9, <1>4, NoneAssumption DEF Recv, PollHolds, UsersAreAlone
  <2>2. (pending[s] - 1) % 256 = pending[s] - 1
    BY <2>1, CountsDown
  <2>3. pending' = [pending EXCEPT ![s] = pending[s] - 1]
    BY <1>4, <2>2 DEF Recv
  <2> QED
    <3>1. UNCHANGED <<socketTable, data, boundTo>>
      BY <1>4 DEF Recv
    <3>2. CASE r = s
      <4>0. pending'[r] = pending[r] - 1
        BY <1>9, <2>3, <3>2
      <4>1. pending'[r] \in Nat /\ pending[r] \in Nat /\ pending'[r] < pending[r]
        BY <2>1, <3>2, <4>0
      <4>2. MaxPendingPackets \in Nat
        BY LimitsAssumption
      <4>3. /\ pending'[r] <= MaxPendingPackets
            /\ \A i \in 0 .. MaxPendingPackets - 1 : i < pending'[r] => i < pending[r]
        BY <1>0, <4>1, <4>2 DEF SoundSocket
      <4> QED
        BY <1>0, <2>1, <3>1, <3>2, <4>3 DEF SoundSocket
    <3>3. CASE r # s
      <4>1. pending'[r] = pending[r]
        BY <1>0, <1>9, <2>3, <3>3
      <4> QED
        BY <1>0, <3>1, <4>1 DEF SoundSocket
    <3> QED
      BY <3>2, <3>3
<1>5. ASSUME NEW p \in Process, NEW s \in Socket, NEW port \in Port, Bind(p, s, port)
      PROVE  SoundSocket(r)'
  <2>1. ~socketTable[s].free
    BY <1>0, <1>5 DEF Bind, UsersAreAlone
  <2>2. /\ \A q \in Socket : socketTable'[q].free = socketTable[q].free
        /\ \A q \in Socket \ {s} : socketTable'[q] = socketTable[q]
        /\ socketTable'[s].srcPort = port
    BY <1>0, <1>9, <1>5, BindTable DEF Bind
  <2>3. /\ UNCHANGED <<pending, data>> /\ port \in boundTo'[s]
        /\ boundTo[r] \subseteq boundTo'[r]
        /\ r # s => boundTo'[r] = boundTo[r]
    BY <1>0, <1>9, <1>5 DEF Bind
  <2>4. CASE r = s
    BY <1>0, <2>1, <2>2, <2>3, <2>4 DEF SoundSocket
  <2>5. CASE r # s
    <3>1. socketTable'[r] = socketTable[r] /\ boundTo'[r] = boundTo[r]
      BY <2>2, <2>3, <2>5
    <3> QED
      BY <1>0, <2>3, <3>1 DEF SoundSocket
  <2> QED
    BY <2>4, <2>5
<1>6. ASSUME NEW p \in Process, NEW s \in Socket, NEW port \in Port, NEW d \in Dest,
             SendTo(p, s, port, d)
      PROVE  SoundSocket(r)'
  <2>1. ~socketTable[s].free
    BY <1>0, <1>6 DEF SendTo, UsersAreAlone
  <2>0. /\ socketTable' = [socketTable EXCEPT ![s].srcPort = port, ![s].dest = d]
        /\ socketTable \in [Socket -> SocketRecord]
    BY <1>0, <1>9, <1>6 DEF SendTo
  <2>2. /\ \A q \in Socket : socketTable'[q].free = socketTable[q].free
        /\ \A q \in Socket \ {s} : socketTable'[q] = socketTable[q]
        /\ socketTable'[s].srcPort = port
    BY <2>0, SendTable
  <2>3. /\ UNCHANGED <<pending, data>> /\ port \in boundTo'[s]
        /\ boundTo[r] \subseteq boundTo'[r]
        /\ r # s => boundTo'[r] = boundTo[r]
    BY <1>0, <1>9, <1>6 DEF SendTo
  <2>4. CASE r = s
    BY <1>0, <2>1, <2>2, <2>3, <2>4 DEF SoundSocket
  <2>5. CASE r # s
    <3>1. socketTable'[r] = socketTable[r] /\ boundTo'[r] = boundTo[r]
      BY <2>2, <2>3, <2>5
    <3> QED
      BY <1>0, <2>3, <3>1 DEF SoundSocket
  <2> QED
    BY <2>4, <2>5
<1>7. ASSUME Timer PROVE SoundSocket(r)'
  <2>1. UNCHANGED <<socketTable, boundTo>>
    BY <1>7 DEF Timer, Transmit
  <2>2. ASSUME NEW port \in Port, Deliver(port), ~(Listens(r, port) /\ HasRoom(r))
        PROVE  SoundSocket(r)'
    <3>1. pending'[r] = pending[r] /\ data'[r] = data[r]
      BY <2>2 DEF Deliver
    <3> QED
      BY <1>0, <2>1, <3>1 DEF SoundSocket
  <2>3. ASSUME NEW port \in Port, Deliver(port), Listens(r, port), HasRoom(r)
        PROVE  SoundSocket(r)'
    <3>1. pending'[r] = pending[r] + 1 /\ data'[r] = [data[r] EXCEPT ![pending[r]] = port]
      BY <2>3 DEF Deliver
    <3>2. \A i \in 0 .. MaxPendingPackets - 1 :
            data'[r][i] = IF i = pending[r] THEN port ELSE data[r][i]
      BY <1>0, <1>9, <3>1
    <3>0. pending[r] \in Nat /\ MaxPendingPackets \in Nat /\ pending[r] < MaxPendingPackets
      <4>1. pending[r] \in 0 .. 255 /\ pending[r] < MaxPendingPackets
        BY <1>9, <2>3 DEF HasRoom
      <4> QED
        BY <4>1, LimitsAssumption
    <3>3. pending[r] \in 0 .. MaxPendingPackets - 1 /\ port \in boundTo[r] /\ ~socketTable[r].free
      BY <1>0, <2>3, <3>0 DEF SoundSocket, Listens
    <3>4. /\ pending'[r] \in Nat /\ pending'[r] <= MaxPendingPackets
          /\ \A i \in 0 .. MaxPendingPackets - 1 :
               i < pending'[r] => i < pending[r] \/ i = pending[r]
      BY <3>1, <3>3, LimitsAssumption
    <3>5. \A i \in 0 .. MaxPendingPackets - 1 :
            i < pending'[r] => data'[r][i] \in boundTo[r]
      BY <1>0, <3>2, <3>3, <3>4 DEF SoundSocket
    <3> QED
      BY <1>0, <2>1, <3>3, <3>4, <3>5 DEF SoundSocket
  <2> QED
    BY <1>0, <1>7, <2>1, <2>2, <2>3 DEF Timer, SoundSocket
<1>8. ASSUME UNCHANGED vars PROVE SoundSocket(r)'
  BY <1>0, <1>8 DEF SoundSocket, vars, kernelVars
<1> QED
  BY <1>1, <1>2, <1>3, <1>4, <1>5, <1>6, <1>7, <1>8 DEF Next

(* ... and what the processes know of them.                                *)
LEMMA StepKeepsUsers ==
  ASSUME SocketInv, [Next]_vars
  PROVE  UsersAreAlone' /\ PollHolds'
<1>0. TypeOK /\ UsersAreAlone /\ PollHolds
  BY DEF SocketInv
<1> USE <1>0 DEF UsersAreAlone, PollHolds
<1>1. ASSUME NEW p \in Process, Exit(p) PROVE UsersAreAlone' /\ PollHolds'
  BY <1>1 DEF Exit, kernelVars, TypeOK
<1>2. ASSUME NEW p \in Process, NEW s \in Socket, Open(p, s) PROVE UsersAreAlone' /\ PollHolds'
  BY <1>2 DEF Open, TypeOK
<1>3. ASSUME NEW p \in Process, NEW s \in Socket, Close(p, s) PROVE UsersAreAlone' /\ PollHolds'
  BY <1>3 DEF Close, TypeOK
<1>4. ASSUME NEW p \in Process, NEW s \in Socket, Poll(p, s) PROVE UsersAreAlone' /\ PollHolds'
  <2>1. \A q \in Process :
          polled'[q] = IF q = p THEN IF pending[s] # 0 THEN s ELSE None ELSE polled[q]
    BY <1>4 DEF Poll, TypeOK
  <2>2. UNCHANGED <<socketTable, own, pending>> /\ s \in own[p] /\ pending[s] \in 0 .. 255
    BY <1>4 DEF Poll, kernelVars, TypeOK
  <2> QED
    BY <2>1, <2>2
<1>5. ASSUME NEW p \in Process, NEW s \in Socket, Recv(p, s) PROVE UsersAreAlone' /\ PollHolds'
  BY <1>5, NoneAssumption DEF Recv, TypeOK
<1>6. ASSUME NEW p \in Process, NEW s \in Socket, NEW port \in Port,
             Bind(p, s, port) \/ \E d \in Dest : SendTo(p, s, port, d)
      PROVE  UsersAreAlone' /\ PollHolds'
  <2>0. socketTable \in [Socket -> SocketRecord]
    BY DEF TypeOK
  <2>1. \A r \in Socket : socketTable'[r].free = socketTable[r].free
    <3>1. CASE Bind(p, s, port)
      BY <2>0, <3>1, BindTable DEF Bind
    <3>2. ASSUME NEW d \in Dest, SendTo(p, s, port, d)
          PROVE  \A r \in Socket : socketTable'[r].free = socketTable[r].free
      <4>1. socketTable' = [socketTable EXCEPT ![s].srcPort = port, ![s].dest = d]
        BY <3>2 DEF SendTo
      <4> QED
        BY <2>0, <4>1, SendTable
    <3> QED
      BY <1>6, <3>1, <3>2
  <2>2. UNCHANGED <<pending, own, polled>>
    BY <1>6 DEF Bind, SendTo
  <2> QED
    BY <2>1, <2>2 DEF TypeOK
<1>7. ASSUME Timer PROVE UsersAreAlone' /\ PollHolds'
  <2>1. ASSUME NEW port \in Port, Deliver(port), NEW s \in Socket
        PROVE  pending'[s] \in {pending[s], pending[s] + 1}
    BY <2>1 DEF Deliver
  <2>2. \A s \in Socket : pending[s] \in 0 .. 255
    BY DEF TypeOK
  <2>3. \A s \in Socket : pending[s] > 0 => pending'[s] > 0
    BY <1>7, <2>1, <2>2 DEF Timer
  <2> QED
    BY <1>7, <2>3 DEF Timer, Transmit, TypeOK
<1>8. ASSUME UNCHANGED vars PROVE UsersAreAlone' /\ PollHolds'
  BY <1>8 DEF vars, kernelVars
<1> QED
  BY <1>1, <1>2, <1>3, <1>4, <1>5, <1>6, <1>7, <1>8 DEF Next

(* Frames are allocated when queued and freed when sent.                   *)
LEMMA StepKeepsFrames ==
  ASSUME SocketInv, [Next]_vars
  PROVE  FramesAccounted'
<1> USE DEF SocketInv, FramesAccounted
<1>1. ASSUME NEW p \in Process, NEW s \in Socket, NEW port \in Port, NEW d \in Dest,
             SendTo(p, s, port, d)
      PROVE  FramesAccounted'
  BY <1>1 DEF SendTo, TypeOK
<1>2. ASSUME Timer PROVE FramesAccounted'
  BY <1>2 DEF Timer, Transmit, TypeOK
<1>3. ASSUME UNCHANGED <<frames, que, lost>> PROVE FramesAccounted'
  BY <1>3
<1>4. ASSUME UNCHANGED vars \/ \E p \in Process : Exit(p) PROVE UNCHANGED <<frames, que, lost>>
  BY <1>4 DEF vars, kernelVars, Exit
<1>5. ASSUME NEW p \in Process, NEW s \in Socket,
             \/ Open(p, s) \/ Close(p, s) \/ Poll(p, s) \/ Recv(p, s)
             \/ \E port \in Port : Bind(p, s, port)
      PROVE  UNCHANGED <<frames, que, lost>>
  BY <1>5 DEF kernelVars, Open, Close, Poll, Recv, Bind
<1> QED
  BY <1>1, <1>2, <1>3, <1>4, <1>5 DEF Next

(* The invariant holds for all sizes.                                      *)
THEOREM SocketInvariant == Spec => []SocketInv
<1>1. SocketInv /\ [Next]_vars => SocketInv'
  BY StepKeepsTypes, StepKeepsSockets, StepKeepsUsers, StepKeepsFrames DEF SocketInv
<1> QED
  BY InitEstablishes, <1>1, PTL DEF Spec

(* The table, the queues and the counts keep their types: the transmit     *)
(* queue never passes its array.                                           *)
THEOREM SocketTypeCorrect == Spec => []TypeOK
<1>1. SocketInv => TypeOK
  BY DEF SocketInv
<1> QED
  BY SocketInvariant, <1>1, PTL

(* The receive queues never pass their arrays, and no receive wraps the    *)
(* count, whatever comes between a poll and its receive.                   *)
THEOREM SocketPendingInBounds == Spec => []PendingInBounds
<1>1. SocketInv => PendingInBounds
  BY DEF SocketInv, SoundSocket, PendingInBounds
<1> QED
  BY SocketInvariant, <1>1, PTL

(* No process can receive what came for a former owner of its socket.      *)
THEOREM SocketNoLeftovers == Spec => []NoLeftovers
<1>1. SocketInv => NoLeftovers
  BY DEF SocketInv, NoLeftovers, SoundSocket, TypeOK
<1> QED
  BY SocketInvariant, <1>1, PTL

(* Frames sent are freed once; only those of refused requests are lost.    *)
THEOREM SocketFramesAccounted == Spec => []FramesAccounted
<1>1. SocketInv => FramesAccounted
  BY DEF SocketInv
<1> QED
  BY SocketInvariant, <1>1, PTL
=============================================================================
