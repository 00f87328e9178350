------------------------------- MODULE Sockets -------------------------------
(***************************************************************************)
(* The socket table (net/socket.c), the transmit queue between it and the  *)
(* network driver (drivers/net.c) and their system calls (dispatcher.c).   *)
(*                                                                         *)
(* A system call is one action.  The timer interrupt takes what has come   *)
(* in and sends all that is queued; it runs between any two calls.  A      *)
(* datagram is its destination port, and an address, MAC or payload that   *)
(* no step looks at is left out.  Processes use their own sockets only and *)
(* poll one before they receive from it, as user/schat does.  The model    *)
(* starts when the ping request of init_network_stack has been sent; no    *)
(* other request is queued but by __sendto.                                *)
(***************************************************************************)
EXTENDS Integers, Sequences, FiniteSets

CONSTANTS Process, None,
          Port, Dest,           \* destinations: a port and address to send to
          MaxSockets,           \* MAX_SOCKETS (8)
          MaxPendingPackets,    \* MAX_PENDING_PACKETS (10)
          MaxTransmitRequest,   \* MAX_TRANSMIT_REQUEST (10)
          MaxLost               \* bound: requests refused in a behaviour

Socket == 0 .. MaxSockets - 1

ASSUME NoneAssumption == None \notin Socket
ASSUME LimitsAssumption ==
  /\ MaxPendingPackets \in 1 .. 255    \* packets_pending is a uint8_t
  /\ MaxSockets \in Nat /\ MaxTransmitRequest \in Nat /\ MaxLost \in Nat

VARIABLES
  socketTable,   \* [Socket -> record], socket_table
  pending,       \* [Socket -> 0 .. 255], packets_pending, a uint8_t
  data,          \* [Socket -> [slots of data -> Port or None]]
  que,           \* transmit_que: the requests pending, oldest first
  frames,        \* frames of requests allocated and not freed
  lost,          \* requests refused because the queue was full
  own,           \* [Process -> set of sockets it opened and may use]
  polled,        \* [Process -> the socket its last poll found a packet in]
  boundTo        \* [Socket -> ports it has listened on since it was opened]

kernelVars == <<socketTable, pending, data, que, frames, lost>>
vars == <<kernelVars, own, polled, boundTo>>

SocketRecord == [free : BOOLEAN, srcPort : Port \cup {None},
                 dest : Dest \cup {None}, waiting : BOOLEAN]

FreeSocket == [free |-> TRUE, srcPort |-> None, dest |-> None, waiting |-> FALSE]

TypeOK ==
  /\ socketTable \in [Socket -> SocketRecord]
  /\ pending \in [Socket -> 0 .. 255]
  /\ data \in [Socket -> [0 .. MaxPendingPackets - 1 -> Port \cup {None}]]
  /\ que \in Seq(Socket) /\ Len(que) <= MaxTransmitRequest
  /\ frames \in Nat /\ lost \in 0 .. MaxLost
  /\ own \in [Process -> SUBSET Socket]
  /\ polled \in [Process -> Socket \cup {None}]
  /\ boundTo \in [Socket -> SUBSET Port]

Init ==
  /\ socketTable = [s \in Socket |-> FreeSocket]
  /\ pending = [s \in Socket |-> 0]
  /\ data = [s \in Socket |-> [i \in 0 .. MaxPendingPackets - 1 |-> None]]
  /\ que = <<>>
  /\ frames = 0
  /\ lost = 0
  /\ own = [p \in Process |-> {}]
  /\ polled = [p \in Process |-> None]
  /\ boundTo = [s \in Socket |-> {}]

----------------------------------------------------------------------------
(* The system calls of a process p.                                        *)

(* find_free_socket takes the first free one.  The waiting flag, the ports *)
(* and the pending packets are as socket_free (or init_sockets) left them. *)
Open(p, s) ==
  /\ socketTable[s].free /\ \A r \in Socket : socketTable[r].free => s <= r
  /\ socketTable' = [socketTable EXCEPT ![s].free = FALSE]
  /\ own' = [own EXCEPT ![p] = @ \cup {s}]
  /\ boundTo' = [boundTo EXCEPT ![s] = {}]
  /\ UNCHANGED <<pending, data, que, frames, lost, polled>>

Bind(p, s, port) ==
  /\ s \in own[p]
  /\ socketTable' = [socketTable EXCEPT ![s].waiting = TRUE, ![s].srcPort = port]
  /\ boundTo' = [boundTo EXCEPT ![s] = @ \cup {port}]
  /\ UNCHANGED <<pending, data, que, frames, lost, own, polled>>

BadClose(p, s) ==
  /\ s \in own[p]
  /\ socketTable' = [socketTable EXCEPT ![s] = FreeSocket]
  /\ own' = [own EXCEPT ![p] = @ \ {s}]
  /\ polled' = [polled EXCEPT ![p] = IF @ = s THEN None ELSE @]
  /\ UNCHANGED <<pending, data, que, frames, lost, boundTo>>
Close(p, s) ==
  /\ s \in own[p]
  /\ socketTable' = [socketTable EXCEPT ![s] = FreeSocket]
  /\ pending' = [pending EXCEPT ![s] = 0]
  /\ own' = [own EXCEPT ![p] = @ \ {s}]
  /\ polled' = [polled EXCEPT ![p] = IF @ = s THEN None ELSE @]
  /\ UNCHANGED <<data, que, frames, lost, boundTo>>

(* kexit leaves the sockets of the process open; without one it changes    *)
(* nothing here.                                                           *)
Exit(p) ==
  /\ own[p] # {}
  /\ own' = [own EXCEPT ![p] = {}]
  /\ polled' = [polled EXCEPT ![p] = None]
  /\ UNCHANGED <<kernelVars, boundTo>>

Poll(p, s) ==
  /\ s \in own[p]
  /\ polled' = [polled EXCEPT ![p] = IF pending[s] # 0 THEN s ELSE None]
  /\ UNCHANGED <<kernelVars, own, boundTo>>

(* socket_recv takes the entry stored last and counts down in a uint8_t,   *)
(* whether or not there is an entry.                                       *)
Recv(p, s) ==
  /\ polled[p] = s
  /\ pending' = [pending EXCEPT ![s] = (@ - 1) % 256]
  /\ polled' = [polled EXCEPT ![p] = None]
  /\ UNCHANGED <<socketTable, data, que, frames, lost, own, boundTo>>

(* __sendto stores ports and address in the socket, the port it listens on *)
(* included, and queues a frame.  With the queue full transmit_request     *)
(* returns -1, after the frame was allocated and the socket changed.       *)
BadSendTo(p, s, port, d) ==
  /\ s \in own[p]
  /\ socketTable' = [socketTable EXCEPT ![s].srcPort = port, ![s].dest = d]
  /\ boundTo' = [boundTo EXCEPT ![s] = @ \cup {port}]
  /\ frames' = frames + 1
  /\ que' = Append(que, s)
  /\ UNCHANGED <<pending, data, lost, own, polled>>
SendTo(p, s, port, d) ==
  /\ s \in own[p]
  /\ socketTable' = [socketTable EXCEPT ![s].srcPort = port, ![s].dest = d]
  /\ boundTo' = [boundTo EXCEPT ![s] = @ \cup {port}]
  /\ frames' = frames + 1
  /\ IF Len(que) < MaxTransmitRequest
     THEN que' = Append(que, s) /\ UNCHANGED lost
     ELSE lost < MaxLost /\ lost' = lost + 1 /\ UNCHANGED que
  /\ UNCHANGED <<pending, data, own, polled>>

----------------------------------------------------------------------------
(* The timer interrupt.                                                    *)

Listens(s, port) == socketTable[s].waiting /\ socketTable[s].srcPort = port
BadHasRoom(s) == pending[s] <= MaxPendingPackets
HasRoom(s) == pending[s] < MaxPendingPackets

(* udp_recv offers a datagram to every socket; a full one drops it.        *)
Deliver(port) ==
  LET to == {s \in Socket : Listens(s, port) /\ HasRoom(s)}
  IN /\ pending' = [s \in Socket |-> IF s \in to THEN pending[s] + 1 ELSE pending[s]]
     /\ data' = [s \in Socket |-> IF s \in to THEN [data[s] EXCEPT ![pending[s]] = port]
                                             ELSE data[s]]

(* transmit handles all requests, the newest first, and frees their        *)
(* frames.  A frame goes where its socket points by then, or nowhere if it *)
(* has been closed.                                                        *)
BadTransmit ==
  /\ frames' = frames - Len(que)
  /\ UNCHANGED <<que, socketTable, lost>>
Transmit ==
  /\ frames' = frames - Len(que)
  /\ que' = <<>>
  /\ UNCHANGED <<socketTable, lost>>

(* timer_net_isr: what cpsw_recv finds (bound: one datagram or none), then *)
(* transmit.                                                               *)
Timer ==
  /\ \/ \E port \in Port : Deliver(port)
     \/ UNCHANGED <<pending, data>>
  /\ Transmit
  /\ UNCHANGED <<own, polled, boundTo>>

Next ==
  \/ Timer
  \/ \E p \in Process :
       \/ Exit(p)
       \/ \E s \in Socket :
            \/ Open(p, s) \/ Close(p, s) \/ Poll(p, s) \/ Recv(p, s)
            \/ \E port \in Port : Bind(p, s, port) \/ \E d \in Dest : SendTo(p, s, port, d)

Spec == Init /\ [][Next]_vars

----------------------------------------------------------------------------
(* Properties.                                                             *)

(* packets_pending never passes the data array it indexes: not at the      *)
(* limit of the queue, and not by a receive that finds it empty and wraps  *)
(* the count, though other calls and interrupts come after the poll.       *)
PendingInBounds == \A s \in Socket : pending[s] <= MaxPendingPackets

(* What a process can receive came for a port its socket listened on since *)
(* the process opened it: nothing of a former owner is left in the slot.   *)
NoLeftovers ==
  \A p \in Process : \A s \in own[p] :
    \A i \in 0 .. MaxPendingPackets - 1 : i < pending[s] => data[s][i] \in boundTo[s]

(* A frame is freed once, when it has been sent; the frames of refused     *)
(* requests are never freed.                                               *)
FramesAccounted == frames = Len(que) + lost
=============================================================================
