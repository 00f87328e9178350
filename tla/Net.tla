--------------------------------- MODULE Net ---------------------------------
(***************************************************************************)
(* The network interrupt: cpsw_recv with the protocols it runs (net/*.c),  *)
(* then the transmit queue (drivers/net.c), over the descriptors of Cpsw;  *)
(* before it, the same code at start.                                      *)
(*                                                                         *)
(* The handlers are called one inside the other and run to the end; the    *)
(* controller acts between any two of their steps.  What they do to a      *)
(* datagram for a socket is in Sockets.  A block that nothing points to    *)
(* any more is not part of the state, freed or not.  The shell's ping,     *)
(* which transmits outside the interrupt, is not modelled.                 *)
(***************************************************************************)
EXTENDS Cpsw, Protocols, FiniteSets

CONSTANTS MaxTransmitRequest,     \* MAX_TRANSMIT_REQUEST (10)
          Peer, PeerIp,           \* whom a socket's datagrams are for
          Packet                  \* the buffer that is not a descriptor's

PING_REQ == "ping"
SOCKET_REQ == "socket"

(* What the board can send.                                                *)
OwnFrames ==
  {arp_anounce, arp_garp, icmp_echo_request(GatewayIp, Broadcast), udp_transmit(PeerIp, Peer)}
    \cup {arp_reply(f.payload) : f \in {g \in Frames : g.type = ARP}}
    \cup {icmp_echo_reply(f.source, f.payload.src_ip) : f \in {g \in Frames : g.type = IPV4}}

ASSUME LimitAssumption == MaxTransmitRequest \in Nat \ {0}
ASSUME BuffersAssumption ==
  /\ Packet \notin Descriptors /\ NoBuffer \notin Descriptors /\ Packet # NoBuffer
  /\ NoFrame \notin Frames \cup OwnFrames
(* Hosts put their own address in both the header and an ARP request.      *)
ASSUME HostsAssumption ==
  \A f \in Frames :
    f.type = ARP /\ f.payload.operation = ARP_REQUEST => f.payload.src_mac = f.source

VARIABLES
  pc,             \* where the kernel is in the network code
  start,          \* cpsw_recv's variable of that name
  task,           \* what cpsw_transmit was called for
  packet,         \* what its block holds, NoFrame if there is none
  que,            \* transmit_que
  req_pending,    \* transmit's variable of that name
  net_ready,
  handled         \* the frame process_packet was called with last

ownVars == <<pc, start, task, packet, que, req_pending, net_ready, handled>>
vars == <<rxVars, txVars, ownVars>>

Tasks == {"none", "arp_reply", "echo_reply", "request", "announce", "garp"}
InReceive == {"scan", "giveback", "acknowledge"}

TypeOK ==
  /\ CpswTypeOK
  /\ tx \in Descriptors \cup {Packet, NoBuffer}
  /\ pc \in InReceive \cup {"phy", "off", "ready", "idle", "recv",
                            "received", "handled", "send", "wait"}
  /\ start \in Descriptors
  /\ task \in Tasks /\ packet \in OwnFrames \cup {NoFrame}
  /\ que \in Seq({PING_REQ, SOCKET_REQ}) /\ Len(que) <= MaxTransmitRequest
  /\ req_pending \in 0 .. Len(que)
  /\ net_ready \in BOOLEAN
  /\ handled \in Frames \cup {NoFrame}

Init ==
  /\ CpswInit
  /\ pc = "phy" /\ start = 1 /\ task = "none" /\ packet = NoFrame
  /\ que = <<>> /\ req_pending = 0
  /\ net_ready = FALSE /\ handled = NoFrame

----------------------------------------------------------------------------
(* init_network_stack, after cpsw_init.                                    *)

(* Without a link it returns and net_ready stays 0.                        *)
PhyInit ==
  /\ pc = "phy"
  /\ pc' \in {"recv", "off"}
  /\ UNCHANGED <<rxVars, txVars, start, task, packet, que, req_pending, net_ready, handled>>

(* The ping to the gateway is queued.                                      *)
Ready ==
  /\ pc = "ready"
  /\ net_ready' = TRUE
  /\ que' = Append(que, PING_REQ)
  /\ pc' = "idle"
  /\ UNCHANGED <<rxVars, txVars, start, task, packet, req_pending, handled>>

(* __sendto queues a request; with the queue full it does not.             *)
SocketRequest ==
  /\ pc = "idle" /\ Len(que) < MaxTransmitRequest
  /\ que' = Append(que, SOCKET_REQ)
  /\ UNCHANGED <<rxVars, txVars, pc, start, task, packet, req_pending, net_ready, handled>>

----------------------------------------------------------------------------
(* timer_net_isr.                                                          *)

Timer ==
  /\ pc = "idle" /\ net_ready
  /\ pc' = "recv"
  /\ UNCHANGED <<rxVars, txVars, start, task, packet, que, req_pending, net_ready, handled>>

(* cpsw_recv looks at the status once.                                     *)
Recv ==
  /\ pc = "recv"
  /\ start' = free
  /\ pc' = IF rxStatus THEN "scan" ELSE "received"
  /\ UNCHANGED <<rxVars, txVars, task, packet, que, req_pending, net_ready, handled>>

(* A frame of ours is written into a block of its own,                     *)
Send(what, frame) ==
  task' = what /\ packet' = frame /\ pc' = "send"

Drop == pc' = "giveback" /\ UNCHANGED <<rx, task, packet>>

(* for an ARP request, though, before it is known whose address is asked   *)
(* for: with another one arp_reply returns, and loses the block.           *)
arp_recv(arp) ==
  IF arp.operation = ARP_REQUEST /\ arp.dest_ip = STATIC_IP
    THEN Send("arp_reply", arp_reply(arp)) /\ UNCHANGED rx
    ELSE Drop

(* The answer to an echo request, for whichever address, takes the place   *)
(* of the request.                                                         *)
icmp_recv(source_mac, ip) ==
  IF ip.payload.type = ECHO_REQUEST
    THEN /\ rx' = [rx EXCEPT ![start] = [own |-> rx[start].own,
                                            frame |-> icmp_echo_reply(source_mac, ip.src_ip)]]
         /\ task' = "echo_reply" /\ pc' = "send" /\ UNCHANGED packet
    ELSE Drop

ipv4_recv(source_mac, ip) ==
  IF ip.protocol = ICMP THEN icmp_recv(source_mac, ip) ELSE Drop

eth_recv(frame) ==
  CASE frame.type = ARP -> arp_recv(frame.payload)
    [] frame.type = IPV4 -> ipv4_recv(frame.source, frame.payload)
    [] OTHER -> Drop

ProcessPacket ==
  /\ pc = "scan" /\ ~rx[start].own
  /\ handled' = rx[start].frame
  /\ eth_recv(rx[start].frame)
  /\ UNCHANGED <<hdp, lastDone, rxStatus, free, txVars, start, que, req_pending, net_ready>>

GiveBackOne ==
  /\ pc = "giveback"
  /\ GiveBack(start)
  /\ pc' = "acknowledge"
  /\ UNCHANGED <<start, task, packet, que, req_pending, net_ready, handled>>

(* Mutant: the loop goes on at the head of the chain.                      *)
BadAcknowledgeOne ==
  /\ pc = "acknowledge"
  /\ Acknowledge(start)
  /\ IF start = NumDescriptors
       THEN Restart /\ start' = 1 /\ pc' = "scan"
       ELSE start' = start + 1 /\ pc' = "scan" /\ UNCHANGED <<hdp, free>>
  /\ UNCHANGED <<rx, txVars, task, packet, que, req_pending, net_ready, handled>>

AcknowledgeOne ==
  /\ pc = "acknowledge"
  /\ Acknowledge(start)
  /\ IF start = NumDescriptors
       THEN Restart /\ pc' = "received" /\ UNCHANGED start
       ELSE start' = start + 1 /\ pc' = "scan" /\ UNCHANGED <<hdp, free>>
  /\ UNCHANGED <<rx, txVars, task, packet, que, req_pending, net_ready, handled>>

(* Mutant: the place reached in the chain is not kept.                     *)
BadScanEnds ==
  /\ pc = "scan" /\ rx[start].own
  /\ free' = 1
  /\ pc' = "received"
  /\ UNCHANGED <<rx, hdp, lastDone, rxStatus, txVars,
                 start, task, packet, que, req_pending, net_ready, handled>>

ScanEnds ==
  /\ pc = "scan" /\ rx[start].own
  /\ free' = start
  /\ pc' = "received"
  /\ UNCHANGED <<rx, hdp, lastDone, rxStatus, txVars,
                 start, task, packet, que, req_pending, net_ready, handled>>

(* handle_transmit_request, the request queued last first.  socket_send    *)
(* sends nothing when the socket has been closed since.                    *)
Handle(n) ==
  /\ req_pending' = n
  /\ \/ que[n] = PING_REQ /\ Send("request", icmp_echo_request(GatewayIp, Broadcast))
     \/ que[n] = SOCKET_REQ /\ Send("request", udp_transmit(PeerIp, Peer))
     \/ que[n] = SOCKET_REQ /\ pc' = "handled" /\ task' = "request" /\ packet' = NoFrame

(* After cpsw_recv: at start, arp_anounce; in the interrupt, transmit.     *)
Received ==
  /\ pc = "received"
  /\ \/ ~net_ready /\ Send("announce", arp_anounce) /\ UNCHANGED req_pending
     \/ net_ready /\ que # <<>> /\ Handle(Len(que))
     \/ net_ready /\ que = <<>> /\ pc' = "idle" /\ UNCHANGED <<task, packet, req_pending>>
  /\ UNCHANGED <<rxVars, txVars, start, que, net_ready, handled>>

(* A request is done, its block freed; req_pending is stored at the end.   *)
Handled ==
  /\ pc = "handled"
  /\ IF req_pending > 1
       THEN Handle(req_pending - 1) /\ UNCHANGED que
       ELSE /\ que' = <<>> /\ req_pending' = 0
            /\ pc' = "idle" /\ task' = "none" /\ UNCHANGED packet
  /\ UNCHANGED <<rxVars, txVars, start, net_ready, handled>>

----------------------------------------------------------------------------
(* cpsw_transmit, and its return to the function that called it.           *)

StartSend ==
  /\ pc = "send"
  /\ StartTransmit(IF task = "echo_reply" THEN start ELSE Packet)
  /\ pc' = "wait"
  /\ UNCHANGED <<start, task, packet, que, req_pending, net_ready, handled>>

(* The block is freed.                                                     *)
Sent ==
  /\ pc = "wait"
  /\ Transmitted
  /\ \/ /\ task \in {"arp_reply", "echo_reply"}
        /\ pc' = "giveback" /\ task' = "none" /\ packet' = NoFrame
     \/ task = "announce" /\ Send("garp", arp_garp)
     \/ task = "garp" /\ pc' = "ready" /\ task' = "none" /\ packet' = NoFrame
     \/ task = "request" /\ pc' = "handled" /\ packet' = NoFrame /\ UNCHANGED task
  /\ UNCHANGED <<start, que, req_pending, net_ready, handled>>

DriverStep ==
  \/ Recv \/ ProcessPacket \/ GiveBackOne \/ AcknowledgeOne \/ ScanEnds \/ Received \/ Handled
  \/ StartSend \/ Sent

Controller == (TxDone \/ \E f \in Frames : Arrive(f)) /\ UNCHANGED ownVars

Next == PhyInit \/ Ready \/ SocketRequest \/ Timer \/ DriverStep \/ Controller

(* The processor runs on, the timer ticks again, and a transmission ends.  *)
Fairness ==
  /\ WF_vars(DriverStep) /\ WF_vars(PhyInit \/ Ready) /\ WF_vars(Timer)
  /\ WF_vars(TxDone /\ UNCHANGED ownVars)

Spec == Init /\ [][Next]_vars /\ Fairness

----------------------------------------------------------------------------
(* Properties.                                                             *)

(* What a buffer being transmitted holds.                                  *)
OnTheWire == IF tx \in Descriptors THEN rx[tx].frame ELSE packet

(* The controller reads a buffer only while it is the transmission's: the  *)
(* buffer of an echo request is not up for reception again, and no block   *)
(* is freed, or taken for the next frame, before it has been sent.         *)
InFlightIsHeld ==
  tx # NoBuffer => /\ pc = "wait"
                   /\ OnTheWire # NoFrame /\ OnTheWire.source = Me
                   /\ tx \in Descriptors => ~rx[tx].own

(* An answer goes to the host whose frame is being handled, though it may  *)
(* be written over that frame.                                             *)
AnswersGoBack ==
  (tx # NoBuffer /\ task \in {"arp_reply", "echo_reply"}) =>
    /\ OnTheWire.dest = handled.source
    /\ OnTheWire.type = handled.type /\ OnTheWire.payload.dest_ip = handled.payload.src_ip

(* The controller never runs into a frame not handled yet: all it will     *)
(* still fill is its own, wherever the driver is in the chain.             *)
DmaOwnsTheRest == hdp # 0 => \A d \in hdp .. NumDescriptors : rx[d].own

(* Frames stored and not handled, wherever the driver looks next.          *)
Handling == pc \in InReceive \ {"scan"} \/ task \in {"arp_reply", "echo_reply"}

Unhandled == {d \in Descriptors : ~rx[d].own} \ (IF Handling THEN {start} ELSE {})

Nth(n, S) == CHOOSE d \in S : Cardinality({e \in S : e <= d}) = n

Ring == INSTANCE FrameQueue WITH
  Capacity <- NumDescriptors,
  queue <- [i \in 1 .. Cardinality(Unhandled) |-> rx[Nth(i, Unhandled)].frame]

(* Every frame stored is handled once and in order, through the end of the *)
(* chain and back to its head.                                             *)
ImplementsFrameQueue == Ring!Spec

(* The interrupt ends, however fast frames come in.                        *)
IsrEnds == pc \notin {"idle", "off"} ~> pc \in {"idle", "off"}

(* Reception goes on: a frame stored is handled at last, also one that     *)
(* came while others were, and a full chain is opened again.               *)
ReceptionGoesOn ==
  /\ \A d \in Descriptors : (net_ready /\ ~rx[d].own) ~> rx[d].own
  /\ (net_ready /\ hdp = 0) ~> hdp # 0
=============================================================================
