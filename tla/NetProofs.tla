------------------------------ MODULE NetProofs ------------------------------
(***************************************************************************)
(* The driver and the controller share the receive chain as a queue of     *)
(* frames, for any length of the chain and any frames coming in.           *)
(*                                                                         *)
(* The argument: the frames not handled yet lie in one run of descriptors, *)
(* from the one the driver looks at next (Place) to the one before that    *)
(* the controller fills next (Fill), and apart from the one being handled  *)
(* all others are the controller's (RingInOrder).  At the end of the chain *)
(* the two meet, and so can start again together.                          *)
(***************************************************************************)
EXTENDS Net, FiniteSetTheorems, SequenceTheorems, TLAPS

Place == IF Handling THEN start + 1 ELSE IF pc = "scan" THEN start ELSE free

Fill == IF hdp = 0 THEN NumDescriptors + 1 ELSE hdp

RingInOrder ==
  /\ Place <= Fill
  /\ \A d \in Descriptors :
       rx[d].own <=> ~(Place <= d /\ d < Fill) /\ ~(d = start /\ Handling /\ pc # "acknowledge")
  /\ \A d \in Descriptors : Place <= d /\ d < Fill => rx[d].frame \in Frames

(* What the kernel is at, by its place in the code.                        *)
TaskFits ==
  /\ pc \in {"send", "wait"} => task # "none"
  /\ pc = "handled" => task = "request"
  /\ pc \notin {"send", "wait", "handled"} => task = "none"
  /\ net_ready => pc \notin {"phy", "off", "ready"} /\ task \notin {"announce", "garp"}
  /\ ~net_ready => pc \notin {"idle", "handled"} /\ task # "request" /\ que = <<>>
  /\ task = "request" => req_pending > 0

(* What is sent, and whether it is on its way.                             *)
SendingFits ==
  /\ pc \in {"send", "wait"} /\ task # "echo_reply" => packet \in OwnFrames
  /\ task = "arp_reply" =>
       /\ handled \in Frames /\ handled.type = ARP /\ handled.payload.operation = ARP_REQUEST
       /\ packet = arp_reply(handled.payload)
  /\ task = "echo_reply" =>
       /\ handled \in Frames /\ handled.type = IPV4
       /\ rx[start].frame = icmp_echo_reply(handled.source, handled.payload.src_ip)
  /\ pc = "wait" => IF txStatus THEN tx = NoBuffer
                    ELSE tx = IF task = "echo_reply" THEN start ELSE Packet
  /\ pc # "wait" => tx = NoBuffer /\ ~txStatus

(* The inductive invariant.                                                *)
NetInv == TypeOK /\ RingInOrder /\ TaskFits /\ SendingFits

(* The frames that wait, as a sequence.                                    *)
Waiting == [i \in 1 .. Fill - Place |-> rx[Place + i - 1].frame]

LEMMA OwnFrameIsOurs ==
  ASSUME NEW f \in OwnFrames
  PROVE  f.source = Me /\ f # NoFrame
<1>1. f # NoFrame
  BY BuffersAssumption
<1>2. f.source = Me
  BY DEF OwnFrames, arp_anounce, arp_garp, arp_transmit, icmp_echo_request, icmp_transmit,
         udp_transmit, ipv4_transmit, eth_transmit, arp_reply, icmp_echo_reply
<1> QED
  BY <1>1, <1>2

LEMMA InitEstablishes == Init => NetInv
<1> SUFFICES ASSUME Init PROVE NetInv
  OBVIOUS
<1>1. /\ \A d \in Descriptors : rx[d] = [own |-> TRUE, frame |-> NoFrame]
      /\ DOMAIN rx = Descriptors
  BY DEF Init, CpswInit, Empty
<1>2. 1 \in Descriptors
  BY NumDescriptorsAssumption DEF Descriptors
<1>3. TypeOK
  <2>0. \A d \in Descriptors : /\ rx[d] = [own |-> rx[d].own, frame |-> rx[d].frame]
                             /\ rx[d].own = TRUE /\ rx[d].frame = NoFrame
    BY <1>1
  <2>1. CpswTypeOK
    <3>1. hdp = 1 /\ lastDone = 0 /\ free = 1 /\ rxStatus = FALSE /\ txStatus = FALSE
      BY DEF Init, CpswInit
    <3> QED
      BY <1>1, <1>2, <2>0, <3>1 DEF CpswTypeOK
  <2>2. que \in Seq({PING_REQ, SOCKET_REQ}) /\ Len(que) = 0
    BY DEF Init
  <2>3. Len(que) <= MaxTransmitRequest /\ req_pending \in 0 .. Len(que)
    BY <2>2, LimitAssumption DEF Init
  <2> QED
    BY <1>2, <2>1, <2>2, <2>3 DEF Init, CpswInit, TypeOK, Tasks
<1>4. RingInOrder
  <2>1. Place = 1 /\ Fill = 1 /\ ~Handling
    BY DEF Init, CpswInit, Place, Fill, Handling, InReceive
  <2> QED
    BY <1>1, <2>1 DEF RingInOrder, Descriptors
<1>5. TaskFits /\ SendingFits
  BY DEF Init, CpswInit, TaskFits, SendingFits
<1> QED
  BY <1>3, <1>4, <1>5 DEF NetInv

----------------------------------------------------------------------------
(* Functions over 1 .. n as sequences.                                     *)
LEMMA IsSequence ==
  ASSUME NEW S, NEW n \in Nat, NEW q \in [1 .. n -> S]
  PROVE  q \in Seq(S) /\ Len(q) = n
OBVIOUS

LEMMA IsTail ==
  ASSUME NEW S, NEW n \in Nat \ {0}, NEW q \in [1 .. n -> S], NEW r \in [1 .. n - 1 -> S],
         \A i \in 1 .. n - 1 : r[i] = q[i + 1]
  PROVE  q # <<>> /\ Head(q) = q[1] /\ Tail(q) = r
<1>1. q \in Seq(S) /\ Len(q) = n /\ r \in Seq(S) /\ Len(r) = n - 1
  <2>1. n - 1 \in Nat
    OBVIOUS
  <2> QED
    BY <2>1, IsSequence
<1>2. q # <<>> /\ Head(q) = q[1]
  BY <1>1
<1>3. Tail(q) \in Seq(S) /\ Len(Tail(q)) = n - 1 /\ \A i \in 1 .. n - 1 : Tail(q)[i] = q[i + 1]
  BY <1>1, <1>2, HeadTailProperties
<1>4. Tail(q) = r
  BY <1>1, <1>3, SeqEqual
<1> QED
  BY <1>2, <1>4

LEMMA IsAppended ==
  ASSUME NEW S, NEW n \in Nat, NEW q \in [1 .. n -> S], NEW r \in [1 .. n + 1 -> S],
         \A i \in 1 .. n : r[i] = q[i]
  PROVE  r = Append(q, r[n + 1])
<1>1. q \in Seq(S) /\ Len(q) = n /\ r \in Seq(S) /\ Len(r) = n + 1
  BY IsSequence
<1>2. r[n + 1] \in S
  OBVIOUS
<1>3. /\ Append(q, r[n + 1]) \in Seq(S) /\ Len(Append(q, r[n + 1])) = n + 1
      /\ \A i \in 1 .. n : Append(q, r[n + 1])[i] = q[i]
      /\ Append(q, r[n + 1])[n + 1] = r[n + 1]
  BY <1>1, <1>2, AppendProperties
<1>4. \A i \in 1 .. n + 1 : Append(q, r[n + 1])[i] = r[i]
  BY <1>3
<1> QED
  BY <1>1, <1>3, <1>4, SeqEqual

(* The queue in the ring.                                                  *)

LEMMA PlaceAndFill ==
  ASSUME TypeOK, RingInOrder
  PROVE  /\ NumDescriptors \in Nat \ {0} /\ start \in Descriptors /\ free \in Descriptors
         /\ Fill \in 1 .. NumDescriptors + 1 /\ Place \in 1 .. NumDescriptors + 1
         /\ Place <= Fill
<1>1. /\ NumDescriptors \in Nat \ {0} /\ start \in Descriptors /\ free \in Descriptors
      /\ hdp \in {0} \cup Descriptors
  BY NumDescriptorsAssumption DEF TypeOK, CpswTypeOK
<1>2. Fill \in 1 .. NumDescriptors + 1
  BY <1>1 DEF Fill, Descriptors
<1>3. Place \in 1 .. NumDescriptors + 1
  BY <1>1 DEF Place, Descriptors
<1> QED
  BY <1>1, <1>2, <1>3 DEF RingInOrder

LEMMA UnhandledIsARun ==
  ASSUME TypeOK, RingInOrder
  PROVE  Unhandled = Place .. Fill - 1
<1>1. /\ NumDescriptors \in Nat \ {0} /\ start \in Descriptors
      /\ Fill \in 1 .. NumDescriptors + 1 /\ Place \in 1 .. NumDescriptors + 1
  BY PlaceAndFill
<1>2. Handling => Place = start + 1
  BY DEF Place
<1>3. ASSUME NEW d \in Descriptors PROVE d \in Unhandled <=> Place <= d /\ d < Fill
  <2>1. start \in Int /\ d \in Int
    BY <1>1 DEF Descriptors
  <2> QED
    BY <1>1, <1>2, <2>1 DEF Unhandled, RingInOrder
<1>4. Unhandled \subseteq Descriptors /\ Place .. Fill - 1 \subseteq Descriptors
  BY <1>1 DEF Unhandled, Descriptors
<1>5. \A d \in Descriptors : d \in Place .. Fill - 1 <=> Place <= d /\ d < Fill
  BY <1>1 DEF Descriptors
<1> QED
  BY <1>3, <1>4, <1>5

LEMMA NthOfARun ==
  ASSUME NEW a \in Nat, NEW b \in Nat, NEW i \in 1 .. b - a
  PROVE  Nth(i, a .. b - 1) = a + i - 1
<1>1. \A d \in a .. b - 1 : Cardinality({e \in a .. b - 1 : e <= d}) = d - a + 1
  <2>1. ASSUME NEW d \in a .. b - 1 PROVE Cardinality({e \in a .. b - 1 : e <= d}) = d - a + 1
    <3>1. {e \in a .. b - 1 : e <= d} = a .. d
      OBVIOUS
    <3>2. Cardinality(a .. d) = IF a > d THEN 0 ELSE d - a + 1
      BY FS_Interval
    <3>3. ~(a > d)
      OBVIOUS
    <3>4. Cardinality(a .. d) = d - a + 1
      BY <3>2, <3>3
    <3> QED
      BY <3>1, <3>4
  <2> QED
    BY <2>1
<1>2. a + i - 1 \in a .. b - 1 /\ \A d \in a .. b - 1 : d - a + 1 = i <=> d = a + i - 1
  OBVIOUS
<1> QED
  BY <1>1, <1>2 DEF Nth

(* The queue of the abstract specification is Waiting.                     *)
LEMMA QueueIsWaiting ==
  ASSUME TypeOK, RingInOrder
  PROVE  [i \in 1 .. Cardinality(Unhandled) |-> rx[Nth(i, Unhandled)].frame] = Waiting
<1>1. Fill \in Nat /\ Place \in Nat /\ Place <= Fill
  BY PlaceAndFill
<1>2. Unhandled = Place .. Fill - 1
  BY UnhandledIsARun
<1>3. Cardinality(Place .. Fill - 1) = Fill - Place
  <2>1. Cardinality(Place .. Fill - 1) = IF Place > Fill - 1 THEN 0 ELSE Fill - 1 - Place + 1
    BY <1>1, FS_Interval
  <2> QED
    BY <1>1, <2>1
<1>4. \A i \in 1 .. Fill - Place : Nth(i, Place .. Fill - 1) = Place + i - 1
  BY <1>1, NthOfARun
<1> QED
  BY <1>2, <1>3, <1>4 DEF Waiting

(* Steps away from the ring.                                               *)
LEMMA RingStays ==
  ASSUME TypeOK, RingInOrder, UNCHANGED <<rx, hdp>>, Place' = Place,
         \/ ~Handling /\ ~Handling'
         \/ start' = start /\ pc # "acknowledge" /\ pc' # "acknowledge" /\ (Handling' <=> Handling)
  PROVE  RingInOrder' /\ UNCHANGED Waiting
<1>1. Fill' = Fill
  BY DEF Fill
<1>2. UNCHANGED Waiting
  BY <1>1 DEF Waiting
<1>3. \A d \in Descriptors :
        ~(d = start /\ Handling /\ pc # "acknowledge")
          <=> ~(d = start' /\ Handling' /\ pc' # "acknowledge")
  OBVIOUS
<1>4. RingInOrder'
  BY <1>1, <1>3 DEF RingInOrder
<1> QED
  BY <1>2, <1>4

LEMMA QuietStep ==
  ASSUME TypeOK, RingInOrder, UNCHANGED <<rx, hdp, free, start>>,
         pc \notin InReceive, task \notin {"arp_reply", "echo_reply"},
         pc' \notin InReceive, task' \notin {"arp_reply", "echo_reply"}
  PROVE  RingInOrder' /\ UNCHANGED Waiting
<1>1. ~Handling /\ ~Handling' /\ Place' = Place
  BY DEF Handling, Place, InReceive
<1> QED
  BY <1>1, RingStays

LEMMA StartKeeps ==
  ASSUME NetInv, PhyInit \/ Ready
  PROVE  NetInv' /\ UNCHANGED <<Waiting, handled>>
<1>0. TypeOK /\ RingInOrder /\ TaskFits /\ SendingFits
  BY DEF NetInv
<1>1. /\ pc \in {"phy", "ready"} /\ pc' \in {"recv", "off", "idle"}
      /\ UNCHANGED <<rx, hdp, lastDone, rxStatus, free, tx, txStatus, start, task, packet,
                     req_pending, handled>>
  BY DEF PhyInit, Ready, rxVars, txVars
<1>2. task = "none" /\ ~net_ready /\ que = <<>>
  BY <1>0, <1>1 DEF TaskFits
<1>3. \/ pc' \in {"recv", "off"} /\ UNCHANGED <<que, net_ready>>
      \/ pc' = "idle" /\ net_ready' = TRUE /\ que' = <<PING_REQ>>
  BY <1>2 DEF PhyInit, Ready
<1>4. TypeOK'
  <2>1. CpswTypeOK' /\ tx' \in Descriptors \cup {Packet, NoBuffer} /\ start' \in Descriptors
    BY <1>0, <1>1 DEF TypeOK, CpswTypeOK
  <2>2. que' \in Seq({PING_REQ, SOCKET_REQ}) /\ Len(que') <= MaxTransmitRequest
    <3>1. CASE que' = que
      BY <1>0, <3>1 DEF TypeOK
    <3>2. CASE que' = <<PING_REQ>>
      <4>1. que' \in Seq({PING_REQ, SOCKET_REQ}) /\ Len(que') = 1
        BY <3>2
      <4> QED
        BY <4>1, LimitAssumption
    <3> QED
      BY <1>3, <3>1, <3>2
  <2>3. req_pending' \in 0 .. Len(que')
    <3>1. req_pending = 0
      BY <1>0, <1>2 DEF TypeOK
    <3>2. Len(que') \in Nat
      BY <2>2
    <3> QED
      BY <1>1, <3>1, <3>2
  <2>4. net_ready' \in BOOLEAN
    BY <1>0, <1>3 DEF TypeOK
  <2> QED
    BY <1>0, <1>1, <2>1, <2>2, <2>3, <2>4 DEF TypeOK
<1>5. RingInOrder' /\ UNCHANGED Waiting
  BY <1>0, <1>1, <1>2, QuietStep DEF InReceive
<1>6. TaskFits'
  BY <1>0, <1>1, <1>2, <1>3 DEF TaskFits
<1>7. SendingFits'
  BY <1>0, <1>1, <1>2 DEF SendingFits
<1> QED
  BY <1>1, <1>4, <1>5, <1>6, <1>7 DEF NetInv

LEMMA SocketRequestKeeps ==
  ASSUME NetInv, SocketRequest
  PROVE  NetInv' /\ UNCHANGED <<Waiting, handled>>
<1>0. TypeOK /\ RingInOrder /\ TaskFits /\ SendingFits
  BY DEF NetInv
<1>1. /\ pc = "idle" /\ que' = Append(que, SOCKET_REQ) /\ Len(que) < MaxTransmitRequest
      /\ UNCHANGED <<rx, hdp, lastDone, rxStatus, free, tx, txStatus, pc, start, task, packet,
                     req_pending, net_ready, handled>>
  BY DEF SocketRequest, rxVars, txVars
<1>2. task = "none" /\ net_ready
  BY <1>0, <1>1 DEF TaskFits, TypeOK
<1>3. TypeOK'
  <2>1. CpswTypeOK' /\ tx' \in Descriptors \cup {Packet, NoBuffer} /\ start' \in Descriptors
    BY <1>0, <1>1 DEF TypeOK, CpswTypeOK
  <2>2. /\ que \in Seq({PING_REQ, SOCKET_REQ}) /\ req_pending \in 0 .. Len(que)
        /\ MaxTransmitRequest \in Nat
    BY <1>0, LimitAssumption DEF TypeOK
  <2>3. que' \in Seq({PING_REQ, SOCKET_REQ}) /\ Len(que') = Len(que) + 1
    BY <1>1, <2>2
  <2>4. Len(que') <= MaxTransmitRequest /\ req_pending' \in 0 .. Len(que')
    BY <1>1, <2>2, <2>3
  <2> QED
    BY <1>0, <1>1, <2>1, <2>3, <2>4 DEF TypeOK
<1>4. RingInOrder' /\ UNCHANGED Waiting
  BY <1>0, <1>1, <1>2, QuietStep DEF InReceive
<1>5. TaskFits'
  BY <1>0, <1>1, <1>2 DEF TaskFits
<1>6. SendingFits'
  BY <1>0, <1>1 DEF SendingFits
<1> QED
  BY <1>1, <1>3, <1>4, <1>5, <1>6 DEF NetInv

LEMMA TimerKeeps ==
  ASSUME NetInv, Timer
  PROVE  NetInv' /\ UNCHANGED <<Waiting, handled>>
<1>0. TypeOK /\ RingInOrder /\ TaskFits /\ SendingFits
  BY DEF NetInv
<1>1. /\ pc = "idle" /\ pc' = "recv"
      /\ UNCHANGED <<rx, hdp, lastDone, rxStatus, free, tx, txStatus, start, task, packet,
                     que, req_pending, net_ready, handled>>
  BY DEF Timer, rxVars, txVars
<1>2. task = "none"
  BY <1>0, <1>1 DEF TaskFits
<1>3. TypeOK'
  BY <1>0, <1>1 DEF TypeOK, CpswTypeOK
<1>4. RingInOrder' /\ UNCHANGED Waiting
  BY <1>0, <1>1, <1>2, QuietStep DEF InReceive
<1>5. TaskFits'
  BY <1>0, <1>1, <1>2 DEF TaskFits
<1>6. SendingFits'
  BY <1>0, <1>1, <1>2 DEF SendingFits
<1> QED
  BY <1>1, <1>3, <1>4, <1>5, <1>6 DEF NetInv

(* The search begins where it ended last, and remembers where it ends.     *)
LEMMA RecvKeeps ==
  ASSUME NetInv, Recv \/ ScanEnds
  PROVE  NetInv' /\ UNCHANGED <<Waiting, handled>>
<1>0. TypeOK /\ RingInOrder /\ TaskFits /\ SendingFits
  BY DEF NetInv
<1>1. /\ \/ pc = "recv" /\ pc' \in {"scan", "received"} /\ start' = free /\ free' = free
         \/ pc = "scan" /\ pc' = "received" /\ start' = start /\ free' = start
      /\ UNCHANGED <<rx, hdp, lastDone, rxStatus, tx, txStatus, task, packet,
                     que, req_pending, net_ready, handled>>
  BY DEF Recv, ScanEnds, rxVars, txVars
<1>2. task = "none"
  BY <1>0, <1>1 DEF TaskFits
<1>3. TypeOK'
  <2>1. start' \in Descriptors /\ free' \in Descriptors
    BY <1>0, <1>1 DEF TypeOK, CpswTypeOK
  <2> QED
    BY <1>0, <1>1, <2>1 DEF TypeOK, CpswTypeOK, InReceive
<1>4. RingInOrder' /\ UNCHANGED Waiting
  <2>1. ~Handling /\ ~Handling' /\ Place' = Place
    BY <1>1, <1>2 DEF Handling, Place, InReceive
  <2> QED
    BY <1>0, <1>1, <2>1, RingStays
<1>5. TaskFits'
  BY <1>0, <1>1, <1>2 DEF TaskFits
<1>6. SendingFits'
  BY <1>0, <1>1, <1>2 DEF SendingFits
<1> QED
  BY <1>1, <1>3, <1>4, <1>5, <1>6 DEF NetInv

(* The transmit queue.                                                     *)
LEMMA HandleTakesARequest ==
  ASSUME NEW n, Handle(n)
  PROVE  /\ req_pending' = n /\ task' = "request"
         /\ \/ pc' = "send" /\ packet' \in OwnFrames
            \/ pc' = "handled" /\ packet' = NoFrame
BY DEF Handle, Send, OwnFrames

LEMMA TransmitKeeps ==
  ASSUME NetInv, Received \/ Handled
  PROVE  NetInv' /\ UNCHANGED <<Waiting, handled>>
<1>0. TypeOK /\ RingInOrder /\ TaskFits /\ SendingFits
  BY DEF NetInv
<1>1. /\ pc \in {"received", "handled"}
      /\ UNCHANGED <<rx, hdp, lastDone, rxStatus, free, tx, txStatus, start, net_ready, handled>>
  BY DEF Received, Handled, rxVars, txVars
<1>2. /\ task \in {"none", "request"} /\ tx = NoBuffer /\ ~txStatus
      /\ pc = "handled" => net_ready /\ req_pending > 0
      /\ ~net_ready => que = <<>>
  BY <1>0, <1>1 DEF TaskFits, SendingFits, TypeOK
<1>8. /\ que \in Seq({PING_REQ, SOCKET_REQ}) /\ Len(que) \in Nat /\ Len(que) <= MaxTransmitRequest
      /\ MaxTransmitRequest \in Nat /\ req_pending \in 0 .. Len(que)
  BY <1>0, LimitAssumption DEF TypeOK
<1>3. \/ /\ ~net_ready /\ pc' = "send" /\ task' = "announce" /\ packet' \in OwnFrames
         /\ UNCHANGED <<que, req_pending>>
      \/ /\ net_ready /\ task' = "request" /\ req_pending' \in 1 .. Len(que) /\ UNCHANGED que
         /\ \/ pc' = "send" /\ packet' \in OwnFrames
            \/ pc' = "handled" /\ packet' = NoFrame
      \/ /\ net_ready /\ pc' = "idle" /\ task' = "none" /\ packet' = packet
         /\ que' = <<>> /\ req_pending' = 0
  <2>1. CASE Received
    <3>1. CASE ~net_ready
      BY <2>1, <3>1 DEF Received, Send, OwnFrames
    <3>2. CASE net_ready /\ que # <<>>
      <4>1. Handle(Len(que)) /\ UNCHANGED que
        BY <2>1, <3>2 DEF Received
      <4>2. Len(que) \in 1 .. Len(que)
        BY <1>8, <3>2
      <4> QED
        BY <3>2, <4>1, <4>2, HandleTakesARequest
    <3>3. CASE net_ready /\ que = <<>>
      <4>1. pc' = "idle" /\ UNCHANGED <<task, packet, req_pending, que>> /\ task = "none"
        BY <1>0, <2>1, <3>3 DEF Received, TaskFits
      <4>2. req_pending = 0
        BY <1>8, <3>3
      <4> QED
        BY <3>3, <4>1, <4>2
    <3> QED
      BY <3>1, <3>2, <3>3
  <2>2. CASE Handled
    <3>1. net_ready
      BY <1>2, <2>2 DEF Handled
    <3>2. CASE req_pending > 1
      <4>1. Handle(req_pending - 1) /\ UNCHANGED que
        BY <2>2, <3>2 DEF Handled
      <4>2. req_pending - 1 \in 1 .. Len(que)
        BY <1>8, <3>2
      <4> QED
        BY <3>1, <4>1, <4>2, HandleTakesARequest
    <3>3. CASE ~(req_pending > 1)
      BY <2>2, <3>1, <3>3 DEF Handled
    <3> QED
      BY <3>2, <3>3
  <2> QED
    BY <2>1, <2>2
<1>4. TypeOK'
  <2>1. CpswTypeOK' /\ tx' \in Descriptors \cup {Packet, NoBuffer} /\ start' \in Descriptors
    BY <1>0, <1>1 DEF TypeOK, CpswTypeOK
  <2>2. /\ que' \in Seq({PING_REQ, SOCKET_REQ}) /\ Len(que') <= MaxTransmitRequest
        /\ req_pending' \in 0 .. Len(que')
    <3>1. CASE que' = que
      BY <1>8, <1>3, <3>1
    <3>2. CASE que' = <<>> /\ req_pending' = 0
      <4>1. que' \in Seq({PING_REQ, SOCKET_REQ}) /\ Len(que') = 0
        BY <3>2
      <4> QED
        BY <1>8, <3>2, <4>1
    <3> QED
      BY <1>3, <3>1, <3>2
  <2>3. /\ task' \in Tasks /\ packet' \in OwnFrames \cup {NoFrame}
        /\ pc' \in {"send", "handled", "idle"}
    BY <1>0, <1>3 DEF TypeOK, Tasks
  <2> QED
    BY <1>0, <1>1, <2>1, <2>2, <2>3 DEF TypeOK
<1>5. RingInOrder' /\ UNCHANGED Waiting
  BY <1>0, <1>1, <1>2, <1>3, QuietStep DEF InReceive
<1>6. TaskFits'
  BY <1>1, <1>2, <1>3 DEF TaskFits
<1>7. SendingFits'
  BY <1>1, <1>2, <1>3 DEF SendingFits
<1> QED
  BY <1>1, <1>4, <1>5, <1>6, <1>7 DEF NetInv

(* cpsw_transmit, from the filling of its descriptor                       *)
LEMMA StartSendKeeps ==
  ASSUME NetInv, StartSend
  PROVE  NetInv' /\ UNCHANGED <<Waiting, handled>>
<1>0. TypeOK /\ RingInOrder /\ TaskFits /\ SendingFits
  BY DEF NetInv
<1>1. /\ pc = "send" /\ pc' = "wait"
      /\ tx' = IF task = "echo_reply" THEN start ELSE Packet
      /\ UNCHANGED <<rx, hdp, lastDone, rxStatus, free, txStatus, start, task, packet,
                     que, req_pending, net_ready, handled>>
  BY DEF StartSend, StartTransmit, rxVars
<1>2. TypeOK'
  <2>1. tx' \in Descriptors \cup {Packet, NoBuffer}
    BY <1>0, <1>1 DEF TypeOK
  <2> QED
    BY <1>0, <1>1, <2>1 DEF TypeOK, CpswTypeOK
<1>3. RingInOrder' /\ UNCHANGED Waiting
  <2>1. (Handling' <=> Handling) /\ Place' = Place
    BY <1>1 DEF Handling, Place, InReceive
  <2> QED
    BY <1>0, <1>1, <2>1, RingStays
<1>4. TaskFits'
  BY <1>0, <1>1 DEF TaskFits
<1>5. SendingFits'
  BY <1>0, <1>1 DEF SendingFits
<1> QED
  BY <1>1, <1>2, <1>3, <1>4, <1>5 DEF NetInv

(* to the return to whom called it.                                        *)
LEMMA SentKeeps ==
  ASSUME NetInv, Sent
  PROVE  NetInv' /\ UNCHANGED <<Waiting, handled>>
<1>0. TypeOK /\ RingInOrder /\ TaskFits /\ SendingFits
  BY DEF NetInv
<1>1. /\ pc = "wait" /\ txStatus /\ txStatus' = FALSE
      /\ UNCHANGED <<rx, hdp, lastDone, rxStatus, free, tx, start, que, req_pending,
                     net_ready, handled>>
  BY DEF Sent, Transmitted, rxVars
<1>2. tx = NoBuffer
  BY <1>0, <1>1 DEF SendingFits
<1>3. \/ /\ task \in {"arp_reply", "echo_reply"}
         /\ pc' = "giveback" /\ task' = "none" /\ packet' = NoFrame
      \/ task = "announce" /\ pc' = "send" /\ task' = "garp" /\ packet' \in OwnFrames
      \/ task = "garp" /\ pc' = "ready" /\ task' = "none" /\ packet' = NoFrame
      \/ task = "request" /\ pc' = "handled" /\ task' = "request" /\ packet' = NoFrame
  BY DEF Sent, Send, OwnFrames
<1>4. TypeOK'
  <2>1. /\ task' \in Tasks /\ packet' \in OwnFrames \cup {NoFrame}
        /\ pc' \in {"giveback", "send", "ready", "handled"}
    BY <1>3 DEF Tasks
  <2> QED
    BY <1>0, <1>1, <2>1 DEF TypeOK, CpswTypeOK, InReceive
<1>5. RingInOrder' /\ UNCHANGED Waiting
  <2>1. CASE task \in {"arp_reply", "echo_reply"}
    <3>1. pc' = "giveback" /\ Handling /\ Handling' /\ Place' = Place
      BY <1>1, <1>3, <2>1 DEF Handling, Place, InReceive
    <3> QED
      BY <1>0, <1>1, <3>1, RingStays
  <2>2. CASE task \notin {"arp_reply", "echo_reply"}
    BY <1>0, <1>1, <1>3, <2>2, QuietStep DEF InReceive
  <2> QED
    BY <2>1, <2>2
<1>6. TaskFits'
  BY <1>0, <1>1, <1>3 DEF TaskFits
<1>7. SendingFits'
  BY <1>1, <1>2, <1>3 DEF SendingFits
<1> QED
  BY <1>1, <1>4, <1>5, <1>6, <1>7 DEF NetInv

(* The receive loop.                                                       *)
LEMMA RunIsSequence ==
  ASSUME NumDescriptors \in Nat,
         NEW a \in 1 .. NumDescriptors + 1, NEW b \in 1 .. NumDescriptors + 1,
         NEW r, \A d \in Descriptors : a <= d /\ d < b => r[d].frame \in Frames
  PROVE  [i \in 1 .. b - a |-> r[a + i - 1].frame] \in [1 .. b - a -> Frames]
<1>1. ASSUME NEW i \in 1 .. b - a PROVE r[a + i - 1].frame \in Frames
  <2>1. a + i - 1 \in Descriptors /\ a <= a + i - 1 /\ a + i - 1 < b
    BY DEF Descriptors
  <2> QED
    BY <2>1
<1> QED
  BY <1>1

(* What the handlers do with a frame.                                      *)
LEMMA FrameIsHandled ==
  ASSUME NEW f, eth_recv(f)
  PROVE  \/ pc' = "giveback" /\ UNCHANGED <<rx, task, packet>>
         \/ /\ f.type = ARP /\ f.payload.operation = ARP_REQUEST
            /\ pc' = "send" /\ task' = "arp_reply" /\ packet' = arp_reply(f.payload) /\ UNCHANGED rx
         \/ /\ f.type = IPV4
            /\ pc' = "send" /\ task' = "echo_reply" /\ UNCHANGED packet
            /\ rx' = [rx EXCEPT ![start] = [own |-> rx[start].own,
                                            frame |-> icmp_echo_reply(f.source, f.payload.src_ip)]]
<1>1. CASE f.type = ARP
  <2>1. arp_recv(f.payload)
    BY <1>1 DEF eth_recv, ARP, IPV4
  <2> QED
    BY <1>1, <2>1 DEF arp_recv, Send, Drop
<1>2. CASE f.type = IPV4
  <2>1. ipv4_recv(f.source, f.payload)
    BY <1>2 DEF eth_recv, ARP, IPV4
  <2> QED
    BY <1>2, <2>1 DEF ipv4_recv, icmp_recv, Drop
<1>3. CASE f.type # ARP /\ f.type # IPV4
  <2>1. Drop
    BY <1>3 DEF eth_recv
  <2> QED
    BY <2>1 DEF Drop
<1> QED
  BY <1>1, <1>2, <1>3

LEMMA ProcessPacketKeeps ==
  ASSUME NetInv, ProcessPacket
  PROVE  /\ NetInv'
         /\ Waiting # <<>> /\ handled' = Head(Waiting) /\ Waiting' = Tail(Waiting)
<1> DEFINE f == rx[start].frame
           reply == icmp_echo_reply(f.source, f.payload.src_ip)
<1>0. TypeOK /\ RingInOrder /\ TaskFits /\ SendingFits
  BY DEF NetInv
<1>1. /\ pc = "scan" /\ ~rx[start].own /\ handled' = f /\ eth_recv(f)
      /\ UNCHANGED <<hdp, lastDone, rxStatus, free, tx, txStatus, start, que, req_pending,
                     net_ready>>
  BY DEF ProcessPacket, txVars
<1>2. task = "none" /\ tx = NoBuffer /\ ~txStatus /\ ~Handling /\ Place = start
  BY <1>0, <1>1 DEF TaskFits, SendingFits, Handling, InReceive, Place
<1>3. /\ NumDescriptors \in Nat \ {0} /\ Fill \in 1 .. NumDescriptors + 1
      /\ start \in 1 .. NumDescriptors /\ start \in Descriptors
  BY <1>0, PlaceAndFill DEF Descriptors
<1>4. start < Fill /\ f \in Frames
  <2>1. start <= start
    BY <1>3
  <2> QED
    BY <1>0, <1>1, <1>2, <1>3, <2>1 DEF RingInOrder
<1>5. /\ DOMAIN rx = Descriptors
      /\ \A d \in Descriptors : /\ rx[d] = [own |-> rx[d].own, frame |-> rx[d].frame]
                                /\ rx[d].own \in BOOLEAN /\ (rx[d].own <=> rx[d].frame = NoFrame)
  BY <1>0 DEF TypeOK, CpswTypeOK
<1>6. \/ pc' = "giveback" /\ UNCHANGED <<rx, task, packet>>
      \/ /\ f.type = ARP /\ f.payload.operation = ARP_REQUEST
         /\ pc' = "send" /\ task' = "arp_reply" /\ packet' = arp_reply(f.payload) /\ UNCHANGED rx
      \/ /\ f.type = IPV4
         /\ pc' = "send" /\ task' = "echo_reply" /\ UNCHANGED packet
         /\ rx' = [rx EXCEPT ![start] = [own |-> rx[start].own, frame |-> reply]]
  BY <1>1, FrameIsHandled
<1>7. /\ DOMAIN rx' = Descriptors
      /\ \A d \in Descriptors \ {start} : rx'[d] = rx[d]
      /\ rx'[start] = [own |-> FALSE, frame |-> rx'[start].frame]
      /\ rx'[start].frame # NoFrame
      /\ task' = "echo_reply" => rx'[start].frame = reply
  <2>1. CASE UNCHANGED rx /\ task' # "echo_reply"
    <3>1. rx[start].own = FALSE
      BY <1>1, <1>3, <1>5
    <3> QED
      BY <1>3, <1>5, <2>1, <3>1
  <2>2. CASE f.type = IPV4 /\ rx' = [rx EXCEPT ![start] = [own |-> rx[start].own, frame |-> reply]]
    <3>1. rx[start].own = FALSE
      BY <1>1, <1>3, <1>5
    <3>2. reply \in OwnFrames
      BY <1>4, <2>2 DEF OwnFrames
    <3>3. reply # NoFrame
      BY <3>2, OwnFrameIsOurs
    <3> HIDE DEF reply
    <3>4. /\ DOMAIN rx' = Descriptors /\ \A d \in Descriptors \ {start} : rx'[d] = rx[d]
          /\ rx'[start] = [own |-> FALSE, frame |-> reply]
      BY <1>3, <1>5, <2>2, <3>1
    <3> QED
      BY <3>3, <3>4
  <2> QED
    BY <1>2, <1>6, <2>1, <2>2
<1> HIDE DEF f, reply
<1>8. /\ pc' \in {"giveback", "send"} /\ task' \in {"none", "arp_reply", "echo_reply"}
      /\ packet' \in OwnFrames \cup {NoFrame}
      /\ task' = "arp_reply" => /\ f.type = ARP /\ f.payload.operation = ARP_REQUEST
                                /\ packet' = arp_reply(f.payload) /\ packet' \in OwnFrames
      /\ task' = "echo_reply" => f.type = IPV4
      /\ pc' = "send" <=> task' # "none"
  <2>1. f.type = ARP => arp_reply(f.payload) \in OwnFrames
    BY <1>4 DEF OwnFrames
  <2>2. packet \in OwnFrames \cup {NoFrame}
    BY <1>0 DEF TypeOK
  <2> QED
    BY <1>2, <1>6, <2>1, <2>2
<1>9. TypeOK'
  <2>1. \A d \in Descriptors : /\ rx'[d] = [own |-> rx'[d].own, frame |-> rx'[d].frame]
                               /\ rx'[d].own \in BOOLEAN /\ (rx'[d].own <=> rx'[d].frame = NoFrame)
    <3>1. rx'[start].own = FALSE
      BY <1>7
    <3> QED
      BY <1>5, <1>7, <3>1
  <2>2. CpswTypeOK'
    BY <1>0, <1>1, <1>7, <2>1 DEF TypeOK, CpswTypeOK
  <2>3. pc' \in InReceive \cup {"send"} /\ task' \in Tasks /\ handled' \in Frames
    BY <1>1, <1>4, <1>8 DEF InReceive, Tasks
  <2> QED
    BY <1>0, <1>1, <1>8, <2>2, <2>3 DEF TypeOK
<1>10. Handling' /\ pc' # "acknowledge" /\ Place' = start + 1 /\ Fill' = Fill
  BY <1>1, <1>8 DEF Handling, InReceive, Place, Fill
<1>11. RingInOrder'
  <2>1. Place' <= Fill'
    BY <1>3, <1>4, <1>10
  <2>2. ASSUME NEW d \in Descriptors
        PROVE  /\ rx'[d].own <=> ~(Place' <= d /\ d < Fill') /\ ~(d = start')
               /\ Place' <= d /\ d < Fill' => rx'[d].frame \in Frames
    <3>1. d \in Int /\ start' = start
      BY <1>1, <1>3 DEF Descriptors
    <3>2. CASE d = start
      BY <1>3, <1>7, <1>10, <3>1, <3>2
    <3>3. CASE d # start
      <4>1. rx'[d] = rx[d]
        BY <1>7, <3>3
      <4>2. (Place' <= d /\ d < Fill') <=> (Place <= d /\ d < Fill)
        BY <1>2, <1>3, <1>10, <3>1, <3>3
      <4> QED
        BY <1>0, <1>2, <3>1, <3>3, <4>1, <4>2 DEF RingInOrder
    <3> QED
      BY <3>2, <3>3
  <2> QED
    BY <1>10, <2>1, <2>2 DEF RingInOrder
<1>12. TaskFits'
  BY <1>0, <1>1, <1>8 DEF TaskFits
<1>13. SendingFits'
  BY <1>1, <1>2, <1>4, <1>7, <1>8 DEF SendingFits, f, reply
<1>14. Waiting # <<>> /\ handled' = Head(Waiting) /\ Waiting' = Tail(Waiting)
  <2> DEFINE n == Fill - Place
  <2>1. n \in Nat \ {0} /\ Fill' - Place' = n - 1
    BY <1>2, <1>3, <1>4, <1>10
  <2>2. Waiting \in [1 .. n -> Frames]
    <3>1. /\ Fill \in 1 .. NumDescriptors + 1 /\ Place \in 1 .. NumDescriptors + 1
          /\ \A d \in Descriptors : Place <= d /\ d < Fill => rx[d].frame \in Frames
      BY <1>0, <1>2, <1>3 DEF RingInOrder
    <3>2. [i \in 1 .. Fill - Place |-> rx[Place + i - 1].frame] \in [1 .. Fill - Place -> Frames]
      BY <1>3, <3>1, RunIsSequence
    <3> QED
      BY <3>2 DEF Waiting
  <2>3. Waiting' \in [1 .. n - 1 -> Frames]
    <3>1. /\ Fill' \in 1 .. NumDescriptors + 1 /\ Place' \in 1 .. NumDescriptors + 1
          /\ \A d \in Descriptors : Place' <= d /\ d < Fill' => rx'[d].frame \in Frames
      BY <1>3, <1>10, <1>11 DEF RingInOrder
    <3>2. [i \in 1 .. Fill' - Place' |-> rx'[Place' + i - 1].frame]
            \in [1 .. Fill' - Place' -> Frames]
      BY <1>3, <3>1, RunIsSequence
    <3> QED
      BY <2>1, <3>2 DEF Waiting
  <2>4. \A i \in 1 .. n : Waiting[i] = rx[start + i - 1].frame
    BY <1>2 DEF Waiting
  <2>5. \A i \in 1 .. n - 1 : Waiting'[i] = rx'[start + i].frame
    <3>1. Waiting' = [i \in 1 .. n - 1 |-> rx'[Place' + i - 1].frame]
      BY <2>1 DEF Waiting
    <3>2. \A i \in 1 .. n - 1 : Place' + i - 1 = start + i
      BY <1>3, <1>10, <2>1
    <3> QED
      BY <3>1, <3>2
  <2>6. \A i \in 1 .. n - 1 : rx'[start + i] = rx[start + i]
    <3>1. \A i \in 1 .. n - 1 : start + i \in Descriptors \ {start}
      BY <1>2, <1>3, <1>4, <2>1 DEF Descriptors
    <3> QED
      BY <1>7, <3>1
  <2>7. \A i \in 1 .. n - 1 : Waiting'[i] = Waiting[i + 1]
    <3>1. \A i \in 1 .. n - 1 : i + 1 \in 1 .. n /\ start + (i + 1) - 1 = start + i
      BY <1>3, <2>1
    <3> QED
      BY <2>4, <2>5, <2>6, <3>1
  <2>8. Waiting[1] = f
    <3>1. 1 \in 1 .. n /\ start + 1 - 1 = start
      BY <1>3, <2>1
    <3> QED
      BY <2>4, <3>1 DEF f
  <2> HIDE DEF n
  <2> QED
    BY <1>1, <2>1, <2>2, <2>3, <2>7, <2>8, IsTail
<1> QED
  BY <1>9, <1>11, <1>12, <1>13, <1>14 DEF NetInv

LEMMA GiveBackKeeps ==
  ASSUME NetInv, GiveBackOne
  PROVE  NetInv' /\ UNCHANGED <<Waiting, handled>>
<1>0. TypeOK /\ RingInOrder /\ TaskFits /\ SendingFits
  BY DEF NetInv
<1>1. /\ pc = "giveback" /\ pc' = "acknowledge"
      /\ rx' = [rx EXCEPT ![start] = [own |-> TRUE, frame |-> NoFrame]]
      /\ UNCHANGED <<hdp, lastDone, rxStatus, free, tx, txStatus, start, task, packet,
                     que, req_pending, net_ready, handled>>
  BY DEF GiveBackOne, GiveBack, Empty, txVars
<1>2. task = "none" /\ tx = NoBuffer /\ ~txStatus
  BY <1>0, <1>1 DEF TaskFits, SendingFits
<1>3. /\ NumDescriptors \in Nat \ {0} /\ Fill \in 1 .. NumDescriptors + 1
      /\ start \in 1 .. NumDescriptors /\ start \in Descriptors /\ DOMAIN rx = Descriptors
  BY <1>0, PlaceAndFill DEF Descriptors, TypeOK, CpswTypeOK
<1>4. /\ Handling /\ Handling' /\ Place = start + 1 /\ Place' = start + 1 /\ Fill' = Fill
  BY <1>1 DEF Handling, InReceive, Place, Fill
<1>5. /\ DOMAIN rx' = Descriptors /\ rx'[start] = [own |-> TRUE, frame |-> NoFrame]
      /\ \A d \in Descriptors \ {start} : rx'[d] = rx[d]
  BY <1>1, <1>3
<1>6. TypeOK'
  <2>1. \A d \in Descriptors : /\ rx'[d] = [own |-> rx'[d].own, frame |-> rx'[d].frame]
                               /\ rx'[d].own \in BOOLEAN /\ (rx'[d].own <=> rx'[d].frame = NoFrame)
    <3>1. rx'[start].own = TRUE /\ rx'[start].frame = NoFrame
      BY <1>5
    <3> QED
      BY <1>0, <1>5, <3>1 DEF TypeOK, CpswTypeOK
  <2>2. CpswTypeOK'
    BY <1>0, <1>1, <1>5, <2>1 DEF TypeOK, CpswTypeOK
  <2> QED
    BY <1>0, <1>1, <2>2 DEF TypeOK, InReceive
<1>7. RingInOrder'
  <2>1. ASSUME NEW d \in Descriptors
        PROVE  /\ rx'[d].own <=> ~(Place' <= d /\ d < Fill')
               /\ Place' <= d /\ d < Fill' => rx'[d].frame \in Frames
    <3>1. CASE d = start
      BY <1>3, <1>4, <1>5, <3>1
    <3>2. CASE d # start
      <4>1. rx'[d] = rx[d]
        BY <1>5, <3>2
      <4> QED
        BY <1>0, <1>4, <3>2, <4>1 DEF RingInOrder
    <3> QED
      BY <3>1, <3>2
  <2>2. Place' <= Fill'
    BY <1>0, <1>4 DEF RingInOrder
  <2> QED
    BY <1>1, <2>1, <2>2 DEF RingInOrder
<1>8. UNCHANGED Waiting
  <2>1. \A i \in 1 .. Fill - Place : Place + i - 1 \in Descriptors \ {start}
    BY <1>3, <1>4 DEF Descriptors
  <2>2. \A i \in 1 .. Fill - Place : rx'[Place + i - 1].frame = rx[Place + i - 1].frame
    BY <1>5, <2>1
  <2> QED
    BY <1>4, <2>2 DEF Waiting
<1>9. TaskFits'
  BY <1>0, <1>1, <1>2 DEF TaskFits
<1>10. SendingFits'
  BY <1>1, <1>2 DEF SendingFits
<1> QED
  BY <1>1, <1>6, <1>7, <1>8, <1>9, <1>10 DEF NetInv

(* At the end of the chain nothing waits: the driver and the controller    *)
(* start together from its head.                                           *)
LEMMA AcknowledgeKeeps ==
  ASSUME NetInv, AcknowledgeOne
  PROVE  NetInv' /\ UNCHANGED <<Waiting, handled>>
<1>0. TypeOK /\ RingInOrder /\ TaskFits /\ SendingFits
  BY DEF NetInv
<1>1. /\ pc = "acknowledge"
      /\ \/ /\ start = NumDescriptors /\ pc' = "received" /\ hdp' = 1 /\ free' = 1 /\ start' = start
         \/ /\ start # NumDescriptors /\ pc' = "scan" /\ start' = start + 1
            /\ UNCHANGED <<hdp, free>>
      /\ rxStatus' = (lastDone # start) /\ UNCHANGED lastDone
      /\ UNCHANGED <<rx, tx, txStatus, task, packet, que, req_pending, net_ready, handled>>
  BY DEF AcknowledgeOne, Acknowledge, Restart, txVars
<1>2. task = "none" /\ tx = NoBuffer /\ ~txStatus
  BY <1>0, <1>1 DEF TaskFits, SendingFits
<1>3. /\ NumDescriptors \in Nat \ {0} /\ Fill \in 1 .. NumDescriptors + 1
      /\ start \in 1 .. NumDescriptors /\ Place <= Fill
  BY <1>0, PlaceAndFill DEF Descriptors
<1>4. Handling /\ ~Handling' /\ Place = start + 1
  BY <1>1, <1>2 DEF Handling, InReceive, Place
<1>5. TypeOK'
  <2>1. /\ start' \in Descriptors /\ hdp' \in {0} \cup Descriptors /\ free' \in Descriptors
    BY <1>0, <1>1, <1>3 DEF TypeOK, CpswTypeOK, Descriptors
  <2>2. rxStatus' \in BOOLEAN
    BY <1>1
  <2>3. CpswTypeOK'
    BY <1>0, <1>1, <2>1, <2>2 DEF TypeOK, CpswTypeOK
  <2> QED
    BY <1>0, <1>1, <2>1, <2>3 DEF TypeOK, InReceive
<1>6. RingInOrder' /\ UNCHANGED Waiting
  <2>1. CASE start = NumDescriptors
    <3>1. Fill = NumDescriptors + 1 /\ Place = Fill
      BY <1>3, <1>4, <2>1
    <3>2. Place' = 1 /\ Fill' = 1
      BY <1>1, <1>4, <2>1 DEF Place, Fill
    <3>3. \A d \in Descriptors : rx'[d].own /\ ~(Place' <= d /\ d < Fill')
      BY <1>0, <1>1, <1>3, <3>1, <3>2 DEF RingInOrder, Descriptors
    <3>4. RingInOrder'
      BY <1>4, <3>2, <3>3 DEF RingInOrder
    <3>5. UNCHANGED Waiting
      <4>1. Fill' - Place' = 0 /\ Fill - Place = 0
        BY <1>3, <3>1, <3>2
      <4>2. \A i \in 1 .. 0 : rx'[Place' + i - 1].frame = rx[Place + i - 1].frame
        OBVIOUS
      <4> QED
        BY <4>1, <4>2 DEF Waiting
    <3> QED
      BY <3>4, <3>5
  <2>2. CASE start # NumDescriptors
    <3>1. Place' = Place /\ Fill' = Fill
      BY <1>1, <1>4, <2>2 DEF Place, Fill
    <3>2. RingInOrder'
      BY <1>0, <1>1, <1>4, <3>1 DEF RingInOrder
    <3>3. UNCHANGED Waiting
      BY <1>1, <3>1 DEF Waiting
    <3> QED
      BY <3>2, <3>3
  <2> QED
    BY <2>1, <2>2
<1>7. TaskFits'
  BY <1>0, <1>1, <1>2 DEF TaskFits
<1>8. SendingFits'
  BY <1>1, <1>2 DEF SendingFits
<1> QED
  BY <1>1, <1>5, <1>6, <1>7, <1>8 DEF NetInv

----------------------------------------------------------------------------
(* The controller.                                                         *)

LEMMA TxDoneKeeps ==
  ASSUME NetInv, TxDone, UNCHANGED ownVars
  PROVE  NetInv' /\ UNCHANGED <<Waiting, handled>>
<1>0. TypeOK /\ RingInOrder /\ TaskFits /\ SendingFits
  BY DEF NetInv
<1>1. /\ tx # NoBuffer /\ tx' = NoBuffer /\ txStatus' = TRUE
      /\ UNCHANGED <<rx, hdp, lastDone, rxStatus, free, pc, start, task, packet,
                     que, req_pending, net_ready, handled>>
  BY DEF TxDone, ownVars, rxVars
<1>2. pc = "wait"
  BY <1>0, <1>1 DEF SendingFits
<1>3. TypeOK'
  BY <1>0, <1>1 DEF TypeOK, CpswTypeOK
<1>4. RingInOrder' /\ UNCHANGED Waiting
  <2>1. (Handling' <=> Handling) /\ Place' = Place
    BY <1>1 DEF Handling, Place
  <2> QED
    BY <1>0, <1>1, <1>2, <2>1, RingStays
<1>5. TaskFits'
  BY <1>0, <1>1 DEF TaskFits
<1>6. SendingFits'
  BY <1>0, <1>1, <1>2 DEF SendingFits
<1> QED
  BY <1>1, <1>3, <1>4, <1>5, <1>6 DEF NetInv

LEMMA FrameStored ==
  ASSUME NetInv, NEW f \in Frames, Arrive(f), UNCHANGED ownVars, hdp # 0
  PROVE  /\ NetInv'
         /\ Len(Waiting) < NumDescriptors /\ Waiting' = Append(Waiting, f) /\ UNCHANGED handled
<1>0. TypeOK /\ RingInOrder /\ TaskFits /\ SendingFits
  BY DEF NetInv
<1>1. /\ rx' = [rx EXCEPT ![hdp] = [own |-> FALSE, frame |-> f]]
      /\ hdp' = IF hdp = NumDescriptors THEN 0 ELSE hdp + 1
      /\ lastDone' = hdp /\ rxStatus' = TRUE
      /\ UNCHANGED <<free, tx, txStatus, pc, start, task, packet, que, req_pending,
                     net_ready, handled>>
  BY DEF Arrive, ownVars, txVars
<1>2. /\ NumDescriptors \in Nat \ {0} /\ hdp \in 1 .. NumDescriptors /\ hdp \in Descriptors
      /\ start \in 1 .. NumDescriptors /\ Place \in 1 .. NumDescriptors + 1
      /\ Fill = hdp /\ Place <= Fill /\ DOMAIN rx = Descriptors
  BY <1>0, PlaceAndFill DEF Descriptors, TypeOK, CpswTypeOK, Fill
<1>3. (Handling' <=> Handling) /\ Place' = Place /\ Fill' = hdp + 1
  BY <1>1, <1>2 DEF Handling, Place, Fill
<1>4. Handling => hdp # start
  <2>1. Handling => Place = start + 1
    BY DEF Place
  <2> QED
    BY <1>2, <2>1
<1>5. /\ DOMAIN rx' = Descriptors /\ rx'[hdp] = [own |-> FALSE, frame |-> f]
      /\ \A d \in Descriptors \ {hdp} : rx'[d] = rx[d]
  BY <1>1, <1>2
<1>6. TypeOK'
  <2>1. \A d \in Descriptors : /\ rx'[d] = [own |-> rx'[d].own, frame |-> rx'[d].frame]
                               /\ rx'[d].own \in BOOLEAN /\ (rx'[d].own <=> rx'[d].frame = NoFrame)
    <3>1. rx'[hdp].own = FALSE /\ rx'[hdp].frame = f /\ f # NoFrame
      BY <1>5, BuffersAssumption
    <3> QED
      BY <1>0, <1>5, <3>1 DEF TypeOK, CpswTypeOK
  <2>2. hdp' \in {0} \cup Descriptors /\ lastDone' \in {0} \cup Descriptors
    BY <1>1, <1>2 DEF Descriptors
  <2>3. CpswTypeOK'
    BY <1>0, <1>1, <1>5, <2>1, <2>2 DEF TypeOK, CpswTypeOK
  <2> QED
    BY <1>0, <1>1, <2>3 DEF TypeOK
<1>7. RingInOrder'
  <2>1. ASSUME NEW d \in Descriptors
        PROVE  /\ rx'[d].own <=> ~(Place' <= d /\ d < Fill')
                                  /\ ~(d = start' /\ Handling' /\ pc' # "acknowledge")
               /\ Place' <= d /\ d < Fill' => rx'[d].frame \in Frames
    <3>1. CASE d = hdp
      BY <1>1, <1>2, <1>3, <1>4, <1>5, <3>1
    <3>2. CASE d # hdp
      <4>1. rx'[d] = rx[d]
        BY <1>5, <3>2
      <4>2. (Place' <= d /\ d < Fill') <=> (Place <= d /\ d < Fill)
        BY <1>2, <1>3, <3>2 DEF Descriptors
      <4> QED
        BY <1>0, <1>1, <1>3, <4>1, <4>2 DEF RingInOrder
    <3> QED
      BY <3>1, <3>2
  <2>2. Place' <= Fill'
    BY <1>2, <1>3
  <2> QED
    BY <2>1, <2>2 DEF RingInOrder
<1>8. Len(Waiting) < NumDescriptors /\ Waiting' = Append(Waiting, f)
  <2> DEFINE n == Fill - Place
  <2>1. n \in Nat /\ n < NumDescriptors /\ Fill' - Place' = n + 1
    BY <1>2, <1>3
  <2>2. Waiting \in [1 .. n -> Frames]
    <3>1. /\ Fill \in 1 .. NumDescriptors + 1 /\ Place \in 1 .. NumDescriptors + 1
          /\ \A d \in Descriptors : Place <= d /\ d < Fill => rx[d].frame \in Frames
      BY <1>0, <1>2 DEF RingInOrder
    <3>2. [i \in 1 .. Fill - Place |-> rx[Place + i - 1].frame] \in [1 .. Fill - Place -> Frames]
      BY <1>2, <3>1, RunIsSequence
    <3> QED
      BY <3>2 DEF Waiting
  <2>3. Waiting' \in [1 .. n + 1 -> Frames]
    <3>1. /\ Fill' \in 1 .. NumDescriptors + 1 /\ Place' \in 1 .. NumDescriptors + 1
          /\ \A d \in Descriptors : Place' <= d /\ d < Fill' => rx'[d].frame \in Frames
      BY <1>2, <1>3, <1>7 DEF RingInOrder
    <3>2. [i \in 1 .. Fill' - Place' |-> rx'[Place' + i - 1].frame]
            \in [1 .. Fill' - Place' -> Frames]
      BY <1>2, <3>1, RunIsSequence
    <3> QED
      BY <2>1, <3>2 DEF Waiting
  <2>4. \A i \in 1 .. n : Waiting[i] = rx[Place + i - 1].frame
    BY DEF Waiting
  <2>5. \A i \in 1 .. n + 1 : Waiting'[i] = rx'[Place + i - 1].frame
    BY <1>3, <2>1 DEF Waiting
  <2>6. \A i \in 1 .. n : rx'[Place + i - 1] = rx[Place + i - 1]
    <3>1. \A i \in 1 .. n : Place + i - 1 \in Descriptors \ {hdp}
      BY <1>2 DEF Descriptors
    <3> QED
      BY <1>5, <3>1
  <2>7. \A i \in 1 .. n : Waiting'[i] = Waiting[i]
    <3>1. \A i \in 1 .. n : i \in 1 .. n + 1
      BY <2>1
    <3> QED
      BY <2>4, <2>5, <2>6, <3>1
  <2>8. Waiting'[n + 1] = f
    <3>1. n + 1 \in 1 .. n + 1 /\ Place + (n + 1) - 1 = hdp
      BY <1>2, <2>1
    <3>2. rx'[hdp].frame = f
      BY <1>5
    <3> QED
      BY <2>5, <3>1, <3>2
  <2>9. Len(Waiting) = n
    BY <2>1, <2>2, IsSequence
  <2> HIDE DEF n
  <2> QED
    BY <2>1, <2>2, <2>3, <2>7, <2>8, <2>9, IsAppended
<1>9. TaskFits'
  BY <1>0, <1>1 DEF TaskFits
<1>10. SendingFits'
  <2>1. task = "echo_reply" => rx'[start] = rx[start]
    BY <1>2, <1>4, <1>5 DEF Handling, Descriptors
  <2> QED
    BY <1>0, <1>1, <2>1 DEF SendingFits
<1> QED
  BY <1>1, <1>6, <1>7, <1>8, <1>9, <1>10 DEF NetInv

LEMMA NothingHappensKeeps ==
  ASSUME NetInv, UNCHANGED vars
  PROVE  NetInv' /\ UNCHANGED <<Waiting, handled>>
<1>0. TypeOK /\ RingInOrder /\ TaskFits /\ SendingFits
  BY DEF NetInv
<1>1. UNCHANGED <<rx, hdp, lastDone, rxStatus, free, tx, txStatus, pc, start, task, packet,
                  que, req_pending, net_ready, handled>>
  BY DEF vars, rxVars, txVars, ownVars
<1>2. (Handling' <=> Handling) /\ Place' = Place /\ Fill' = Fill
  BY <1>1 DEF Handling, Place, Fill
<1>3. UNCHANGED Waiting
  BY <1>1, <1>2 DEF Waiting
<1>4. RingInOrder'
  BY <1>0, <1>1, <1>2 DEF RingInOrder
<1>5. TypeOK'
  BY <1>0, <1>1 DEF TypeOK, CpswTypeOK
<1>6. TaskFits' /\ SendingFits'
  BY <1>0, <1>1 DEF TaskFits, SendingFits
<1> QED
  BY <1>1, <1>3, <1>4, <1>5, <1>6 DEF NetInv

(* What a step does to the queue.                                          *)
StepOfQueue ==
  \/ UNCHANGED <<Waiting, handled>>
  \/ Waiting # <<>> /\ handled' = Head(Waiting) /\ Waiting' = Tail(Waiting)
  \/ \E f \in Frames :
       Len(Waiting) < NumDescriptors /\ Waiting' = Append(Waiting, f) /\ UNCHANGED handled

LEMMA DriverKeeps ==
  ASSUME NetInv, DriverStep
  PROVE  NetInv' /\ StepOfQueue
<1>1. CASE Recv \/ ScanEnds
  BY <1>1, RecvKeeps DEF StepOfQueue
<1>2. CASE ProcessPacket
  BY <1>2, ProcessPacketKeeps DEF StepOfQueue
<1>3. CASE GiveBackOne
  BY <1>3, GiveBackKeeps DEF StepOfQueue
<1>4. CASE AcknowledgeOne
  BY <1>4, AcknowledgeKeeps DEF StepOfQueue
<1>5. CASE Received \/ Handled
  BY <1>5, TransmitKeeps DEF StepOfQueue
<1>6. CASE StartSend
  BY <1>6, StartSendKeeps DEF StepOfQueue
<1>7. CASE Sent
  BY <1>7, SentKeeps DEF StepOfQueue
<1> QED
  BY <1>1, <1>2, <1>3, <1>4, <1>5, <1>6, <1>7 DEF DriverStep

LEMMA ControllerKeeps ==
  ASSUME NetInv, Controller
  PROVE  NetInv' /\ StepOfQueue
<1>1. CASE TxDone /\ UNCHANGED ownVars
  BY <1>1, TxDoneKeeps DEF StepOfQueue
<1>2. ASSUME NEW f \in Frames, Arrive(f), UNCHANGED ownVars
      PROVE  NetInv' /\ StepOfQueue
  <2>1. CASE hdp = 0
    <3>1. UNCHANGED vars
      BY <1>2, <2>1 DEF Arrive, vars
    <3> QED
      BY <3>1, NothingHappensKeeps DEF StepOfQueue
  <2>2. CASE hdp # 0
    BY <1>2, <2>2, FrameStored DEF StepOfQueue
  <2> QED
    BY <2>1, <2>2
<1> QED
  BY <1>1, <1>2 DEF Controller

LEMMA StepKeeps == NetInv /\ [Next]_vars => NetInv' /\ StepOfQueue
<1> SUFFICES ASSUME NetInv, [Next]_vars PROVE NetInv' /\ StepOfQueue
  OBVIOUS
<1>1. CASE PhyInit \/ Ready
  BY <1>1, StartKeeps DEF StepOfQueue
<1>2. CASE SocketRequest
  BY <1>2, SocketRequestKeeps DEF StepOfQueue
<1>3. CASE Timer
  BY <1>3, TimerKeeps DEF StepOfQueue
<1>4. CASE DriverStep
  BY <1>4, DriverKeeps
<1>5. CASE Controller
  BY <1>5, ControllerKeeps
<1>6. CASE UNCHANGED vars
  BY <1>6, NothingHappensKeeps DEF StepOfQueue
<1> QED
  BY <1>1, <1>2, <1>3, <1>4, <1>5, <1>6 DEF Next

----------------------------------------------------------------------------
(* The strengthened invariant holds of the driver with its controller.     *)
THEOREM NetInvariant == Spec => []NetInv
<1>1. NetInv /\ [Next]_vars => NetInv'
  BY StepKeeps
<1> QED
  BY InitEstablishes, <1>1, PTL DEF Spec

(* Registers, descriptors and the kernel's variables keep to their states. *)
THEOREM NetTypeCorrect == Spec => []TypeOK
<1>1. NetInv => TypeOK
  BY DEF NetInv
<1> QED
  BY NetInvariant, <1>1, PTL

(* cpsw_transmit does not return, and nothing else writes the buffer,      *)
(* while the controller reads it.                                          *)
THEOREM NetInFlightIsHeld == Spec => []InFlightIsHeld
<1>1. NetInv => InFlightIsHeld
  <2> SUFFICES ASSUME NetInv, tx # NoBuffer PROVE InFlightIsHeld
    BY DEF InFlightIsHeld
  <2>0. TypeOK /\ RingInOrder /\ TaskFits /\ SendingFits
    BY DEF NetInv
  <2>1. pc = "wait" /\ tx = IF task = "echo_reply" THEN start ELSE Packet
    BY <2>0 DEF SendingFits
  <2>2. CASE task = "echo_reply"
    <3>1. tx = start /\ tx \in Descriptors /\ OnTheWire = rx[start].frame
      BY <2>0, <2>1, <2>2 DEF OnTheWire, TypeOK
    <3>2. handled \in Frames /\ handled.type = IPV4
          /\ OnTheWire = icmp_echo_reply(handled.source, handled.payload.src_ip)
      BY <2>0, <2>2, <3>1 DEF SendingFits
    <3>3. OnTheWire \in OwnFrames
      BY <3>2 DEF OwnFrames
    <3>4. ~rx[tx].own
      BY <2>0, <2>1, <2>2, <3>1 DEF RingInOrder, Handling
    <3> QED
      BY <2>1, <3>3, <3>4, OwnFrameIsOurs DEF InFlightIsHeld
  <2>3. CASE task # "echo_reply"
    <3>1. tx \notin Descriptors /\ OnTheWire = packet
      BY <2>1, <2>3, BuffersAssumption DEF OnTheWire
    <3>2. packet \in OwnFrames
      BY <2>0, <2>1, <2>3 DEF SendingFits
    <3> QED
      BY <2>1, <3>1, <3>2, OwnFrameIsOurs DEF InFlightIsHeld
  <2> QED
    BY <2>2, <2>3
<1> QED
  BY NetInvariant, <1>1, PTL

(* arp_reply and icmp_echo_reply answer whom the frame came from, the      *)
(* second out of the buffer it overwrites.                                 *)
THEOREM NetAnswersGoBack == Spec => []AnswersGoBack
<1>1. NetInv => AnswersGoBack
  <2> SUFFICES ASSUME NetInv, tx # NoBuffer, task \in {"arp_reply", "echo_reply"}
               PROVE  /\ OnTheWire.dest = handled.source
                      /\ OnTheWire.type = handled.type
                      /\ OnTheWire.payload.dest_ip = handled.payload.src_ip
    BY DEF AnswersGoBack
  <2>0. TypeOK /\ SendingFits
    BY DEF NetInv
  <2>1. tx = IF task = "echo_reply" THEN start ELSE Packet
    BY <2>0 DEF SendingFits
  <2>2. CASE task = "echo_reply"
    <3>1. OnTheWire = rx[start].frame
      BY <2>0, <2>1, <2>2 DEF OnTheWire, TypeOK
    <3>2. handled.type = IPV4
          /\ OnTheWire = icmp_echo_reply(handled.source, handled.payload.src_ip)
      BY <2>0, <2>2, <3>1 DEF SendingFits
    <3> QED
      BY <3>2 DEF icmp_echo_reply, icmp_transmit, ipv4_transmit, eth_transmit
  <2>3. CASE task = "arp_reply"
    <3>1. OnTheWire = packet
      BY <2>1, <2>3, BuffersAssumption DEF OnTheWire
    <3>2. /\ handled.type = ARP /\ handled.payload.src_mac = handled.source
          /\ packet = arp_reply(handled.payload)
      BY <2>0, <2>3, HostsAssumption DEF SendingFits
    <3> QED
      BY <3>1, <3>2 DEF arp_reply, arp_transmit, eth_transmit
  <2> QED
    BY <2>2, <2>3
<1> QED
  BY NetInvariant, <1>1, PTL

(* The controller stops at the end of the chain and starts again from its  *)
(* head only when all of it has been handled.                              *)
THEOREM NetDmaOwnsTheRest == Spec => []DmaOwnsTheRest
<1>1. NetInv => DmaOwnsTheRest
  <2> SUFFICES ASSUME NetInv, hdp # 0, NEW d \in hdp .. NumDescriptors PROVE rx[d].own
    BY DEF DmaOwnsTheRest
  <2>0. TypeOK /\ RingInOrder
    BY DEF NetInv
  <2>1. /\ NumDescriptors \in Nat /\ start \in Nat /\ hdp \in 1 .. NumDescriptors
        /\ Fill = hdp /\ Place <= Fill
    BY <2>0, PlaceAndFill DEF TypeOK, CpswTypeOK, Descriptors, Fill
  <2>2. d \in Descriptors /\ ~(d < Fill)
    BY <2>1 DEF Descriptors
  <2>3. Handling => d # start
    <3>1. Handling => Place = start + 1
      BY DEF Place
    <3> QED
      BY <2>1, <3>1
  <2> QED
    BY <2>0, <2>2, <2>3 DEF RingInOrder
<1> QED
  BY NetInvariant, <1>1, PTL

(* No frame stored is lost, handled twice or out of its turn.              *)
QueueMatches == [i \in 1 .. Cardinality(Unhandled) |-> rx[Nth(i, Unhandled)].frame] = Waiting

THEOREM NetImplementsFrameQueue == Spec => ImplementsFrameQueue
<1>1. NetInv => QueueMatches
  BY QueueIsWaiting DEF NetInv, QueueMatches
<1>2. Init /\ QueueMatches => Ring!Init
  <2> SUFFICES ASSUME Init, QueueMatches PROVE Ring!Init
    OBVIOUS
  <2>1. Place = 1 /\ Fill = 1
    BY DEF Init, CpswInit, Place, Fill, Handling, InReceive
  <2>2. Waiting = <<>>
    BY <2>1 DEF Waiting
  <2>3. handled \notin Frames
    BY BuffersAssumption DEF Init
  <2> QED
    BY <2>2, <2>3 DEF Ring!Init, QueueMatches
<1>3. NetInv /\ QueueMatches /\ QueueMatches' /\ [Next]_vars => [Ring!Next]_(Ring!vars)
  <2> SUFFICES ASSUME NetInv, QueueMatches, QueueMatches', [Next]_vars
               PROVE  [Ring!Next]_(Ring!vars)
    OBVIOUS
  <2>1. StepOfQueue
    BY StepKeeps
  <2> QED
    BY <2>1 DEF StepOfQueue, QueueMatches, Ring!Next, Ring!Handle, Ring!Store, Ring!vars
<1> QED
  BY NetInvariant, <1>1, <1>2, <1>3, PTL DEF Spec, ImplementsFrameQueue, Ring!Spec
=============================================================================
