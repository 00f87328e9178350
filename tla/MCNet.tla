-------------------------------- MODULE MCNet --------------------------------
(* Net for TLC: the frames that two hosts send.                            *)
EXTENDS Net

CONSTANTS Host, HostIp, OtherIp

From(host, type, payload) ==
  [dest |-> Broadcast, source |-> host, type |-> type, payload |-> payload]

ArpRequest(dest_ip) ==
  From(Host, ARP, [operation |-> ARP_REQUEST, src_mac |-> Host, src_ip |-> HostIp,
                   dest_mac |-> NoAddress, dest_ip |-> dest_ip])

Ip(protocol, payload) ==
  From(Peer, IPV4, [src_ip |-> PeerIp, dest_ip |-> STATIC_IP,
                    protocol |-> protocol, payload |-> payload])

MCFrames == {ArpRequest(STATIC_IP), ArpRequest(OtherIp),
             Ip(ICMP, [type |-> ECHO_REQUEST]), Ip(UDP, [type |-> "datagram"])}
=============================================================================
