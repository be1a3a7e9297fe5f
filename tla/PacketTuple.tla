---------------------------- MODULE PacketTuple ----------------------------
(***************************************************************************)
(* What --filter-pkt and --output-pkt read of a packet:                    *)
(* bpfsnoop_pkt.h (tunnels), bpfsnoop_pkt_filter.h, bpfsnoop_pkt_output.h  *)
(* and the line bpfsnoop_pkt.go prints.                                    *)
(*                                                                         *)
(* A packet is the sequence of its layers, the outer one first; a second   *)
(* one is inside VXLAN.  A layer is                                        *)
(*   link:  "eth", "vlan" (Ethernet with one tag) or "none",               *)
(*   ver:   4 or 6,                                                        *)
(*   ihl:   words of the IPv4 header,                                      *)
(*   proto: "tcp", "udp", "icmp", "other", or "vxlan" (UDP to 4789).       *)
(* Headers are found by their offsets from the start of the frame, as in   *)
(* the code.  Bytes where no header begins, and addresses that cannot be   *)
(* read, are given by the sets of what the code may make of them.          *)
(***************************************************************************)
EXTENDS Integers, Sequences

VXLAN_HDR_LEN == 50

\* A second layer is what VXLAN carries: an Ethernet frame.  UDP to the port of
\* VXLAN has one, over IPv4; over IPv6, where the code does not look for VXLAN,
\* it is UDP like any other.
Layer == [link : {"eth", "vlan", "none"}, ver : {4, 6}, ihl : 5..15,
          proto : {"tcp", "udp", "icmp", "other", "vxlan"}]
IsPacket(p) ==
  /\ p \in Seq(Layer) /\ Len(p) <= 2
  /\ Len(p) = 1 => p[1].proto # "vxlan"
  /\ Len(p) = 2 => p[1].ver = 4 /\ p[1].proto = "vxlan" /\ p[2].link # "none"

LinkLen(link) == CASE link = "none" -> 0 [] link = "eth" -> 14 [] link = "vlan" -> 18

\* The second frame begins after the first one's IP, UDP and VXLAN headers.
FrameAt(p, i) == IF i = 1 THEN 0 ELSE LinkLen(p[1].link) + 4 * p[1].ihl + 8 + 8
IpAt(p, i) == FrameAt(p, i) + LinkLen(p[i].link)

EthLayers(p, at) == {i \in DOMAIN p : p[i].link # "none" /\ FrameAt(p, i) = at}
IpLayers(p, at) == {i \in DOMAIN p : IpAt(p, i) = at}

\* Reads the byte of the protocol without a look at the version.
is_ip_vxlan_pkt(p, at) ==
  LET ip == {i \in IpLayers(p, at) : p[i].ver = 4}
  IN IF p = <<>> THEN {FALSE} ELSE IF ip = {} THEN BOOLEAN ELSE {p[i].proto = "vxlan" : i \in ip}

is_vxlan_pkt(p, at) ==
  LET eth == EthLayers(p, at)
  IN IF p = <<>> THEN {FALSE} ELSE IF eth = {} THEN BOOLEAN
     ELSE {p[i].link = "eth" /\ p[i].ver = 4 /\ p[i].proto = "vxlan" : i \in eth}

skip_to(isVxlan, at, skip) ==
  {IF skip /\ vxlan THEN at + VXLAN_HDR_LEN ELSE at : vxlan \in isVxlan}
skip_tunnel(p, at, skip) == skip_to(is_vxlan_pkt(p, at), at, skip)

skip_tunnel_iph_fault(p, at, skip) == skip_tunnel(p, at, skip)
skip_tunnel_iph(p, at, skip) == skip_to(is_ip_vxlan_pkt(p, at), at, skip)

-----------------------------------------------------------------------------
(* struct bpfsnoop_pkt_data.  A field names the layer its bytes are of.    *)

Zero == <<>>
Other == <<"other bytes">>
NoPkt == [addrs |-> Zero, ports |-> Zero, protocol |-> "none", tcp_flags |-> Zero]
OtherPkt == [addrs |-> Other, ports |-> Other, protocol |-> "other", tcp_flags |-> Other]

\* The length of the IP header is taken from three bits of four.
Transport(p, i, own) == IF p[i].ihl < 8 THEN <<own, i>> ELSE Other

\* The results output_tuple may leave in pkt; own names the packet.
output_tuple(p, at, pkt, own) ==
  IF p = <<>> THEN {pkt}
  ELSE IF IpLayers(p, at) = {} THEN {pkt, OtherPkt}
  ELSE
    {IF p[i].ver # 4 THEN pkt
     ELSE CASE p[i].proto = "tcp" ->
                 [addrs |-> <<own, i>>, ports |-> Transport(p, i, own), protocol |-> "tcp",
                  tcp_flags |-> Transport(p, i, own)]
            [] p[i].proto \in {"udp", "vxlan"} ->
                 [pkt EXCEPT !.addrs = <<own, i>>, !.ports = Transport(p, i, own), !.protocol = "udp"]
            [] p[i].proto = "icmp" -> [pkt EXCEPT !.addrs = <<own, i>>, !.protocol = "icmp"]
            [] OTHER -> pkt :
     i \in IpLayers(p, at)}

\* output_pskb is output_skb of the pointer it reads.
output_skb(p, skip, pkt, own) ==
  UNION {output_tuple(p, at, pkt, own) :
           at \in skip_tunnel_iph(p, IF p = <<>> THEN 0 ELSE IpAt(p, 1), skip)}

output_xdp_data(p, at, pkt, own) ==
  IF p = <<>> THEN {pkt}
  ELSE IF EthLayers(p, at) = {} THEN {pkt, OtherPkt}
  ELSE UNION {IF p[i].ver = 4 THEN output_tuple(p, IpAt(p, i), pkt, own) ELSE {pkt} :
                i \in EthLayers(p, at)}

\* output_xdp_frame reads data from another struct, and goes on in the same way.
output_xdp_buff(p, skip, pkt, own) ==
  UNION {output_xdp_data(p, at, pkt, own) : at \in skip_tunnel(p, 0, skip)}

output_pkt(ptr, p, skip, pkt, own) ==
  IF ptr = "skb" THEN output_skb(p, skip, pkt, own) ELSE output_xdp_buff(p, skip, pkt, own)

\* The layer whose headers the filter's expression is evaluated on; 0: bytes
\* that are not the begin of a header.  An skb without a MAC header is
\* filtered from its network header.
FilterLayers(p, ptr, skip) ==
  LET l2 == ptr = "xdp" \/ p[1].link # "none"
      at == IF l2 THEN skip_tunnel(p, 0, skip) ELSE skip_tunnel_iph(p, IpAt(p, 1), skip)
      layers(a) == IF l2 THEN EthLayers(p, a) ELSE IpLayers(p, a)
  IN UNION {IF layers(a) = {} THEN {0} ELSE layers(a) : a \in at}

\* The line printed.
repr(pkt) ==
  CASE pkt.addrs = Zero -> <<>>
    [] pkt.addrs # Zero /\ pkt.protocol = "tcp" -> <<"tcp", pkt.addrs, pkt.ports, pkt.tcp_flags>>
    [] pkt.addrs # Zero /\ pkt.protocol = "udp" -> <<"udp", pkt.addrs, pkt.ports>>
    [] pkt.addrs # Zero /\ pkt.protocol = "icmp" -> <<"icmp", pkt.addrs>>
    [] OTHER -> <<"..UNK..">>

-----------------------------------------------------------------------------
(* What the line should be.                                                *)

\* The layer a user means: the inner one of a tunnel that is to be skipped.
Meant(p, skip) == IF skip THEN Len(p) ELSE 1

\* Packets whose headers are all where the code looks for them.
Regular(p, ptr, skip) ==
  /\ p # <<>>
  /\ LET i == Meant(p, skip)
     IN p[i].ver = 4 /\ p[i].ihl < 8 /\ p[i].proto # "other"
  /\ Meant(p, skip) = 2 =>
       /\ p[1].ihl = 5
       /\ IF ptr = "xdp" \/ p[1].link # "none" THEN p[1].link = "eth" ELSE TRUE
       /\ ptr = "skb" => p[2].link = "eth"
  /\ ptr = "xdp" => p[1].link # "none"

TupleLine(p, skip, own) ==
  LET i == Meant(p, skip)
  IN CASE p[i].proto = "tcp" -> <<"tcp", <<own, i>>, <<own, i>>, <<own, i>>>>
       [] p[i].proto \in {"udp", "vxlan"} -> <<"udp", <<own, i>>, <<own, i>>>>
       [] p[i].proto = "icmp" -> <<"icmp", <<own, i>>>>
=============================================================================
