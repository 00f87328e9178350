------------------------------ MODULE Protocols ------------------------------
(***************************************************************************)
(* The frames of net/ethernet.c, arp.c, ipv4.c, icmp.c and udp.c: a header *)
(* around a payload, of each the fields that a handler looks at or takes   *)
(* over into its answer.                                                   *)
(***************************************************************************)
CONSTANTS Me, STATIC_IP,         \* the board's MAC and IP addresses
          Broadcast, NoAddress,  \* MAC addresses ff:ff:.. and 00:00:..
          GatewayIp              \* whom the ping at start is for

ARP == "arp"
ARP_REQUEST == "arp request"
ARP_REPLY == "arp reply"
IPV4 == "ipv4"
ICMP == "icmp"
UDP == "udp"
ECHO_REQUEST == "echo request"
ECHO_REPLY == "echo reply"

eth_transmit(payload, dest, type) ==
  [dest |-> dest, source |-> Me, type |-> type, payload |-> payload]

arp_transmit(dest_mac, dether_mac, dest_ip, opcode) ==
  eth_transmit([operation |-> opcode, src_mac |-> Me, src_ip |-> STATIC_IP,
                dest_mac |-> dest_mac, dest_ip |-> dest_ip], dether_mac, ARP)

ipv4_transmit(payload, protocol, dest_ip, dest_mac) ==
  eth_transmit([src_ip |-> STATIC_IP, dest_ip |-> dest_ip,
                protocol |-> protocol, payload |-> payload], dest_mac, IPV4)

icmp_transmit(type, dest_ip, dest_mac) ==
  ipv4_transmit([type |-> type], ICMP, dest_ip, dest_mac)

udp_transmit(dest_ip, dest_mac) ==
  ipv4_transmit([type |-> "datagram"], UDP, dest_ip, dest_mac)

(* What the stack sends by itself,                                         *)
arp_anounce == arp_transmit(NoAddress, Broadcast, STATIC_IP, ARP_REQUEST)
arp_garp == arp_transmit(Broadcast, Broadcast, STATIC_IP, ARP_REQUEST)
icmp_echo_request(ip, mac) == icmp_transmit(ECHO_REQUEST, ip, mac)

(* Mutant: the answer keeps the address the request was for.               *)
BadEchoReply(source_mac, src_ip) == icmp_transmit(ECHO_REPLY, STATIC_IP, source_mac)

(* and its answers: to the sender an ARP request names, and to the source  *)
(* of the frame around an echo request.                                    *)
arp_reply(arp) == arp_transmit(arp.src_mac, arp.src_mac, arp.src_ip, ARP_REPLY)
icmp_echo_reply(source_mac, src_ip) == icmp_transmit(ECHO_REPLY, src_ip, source_mac)
=============================================================================
