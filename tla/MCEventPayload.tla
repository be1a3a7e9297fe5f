--------------------------- MODULE MCEventPayload ---------------------------
(* Instances of EventPayload for TLC. *)
EXTENDS EventPayload, TLC

CONSTANTS c1, c2, c3, u1, u2, f, g, s1, s2, s3

MCBucket == s1 :> 0 @@ s2 :> 0 @@ s3 :> 1

Base ==
  [calls |-> {c1, c2, c3}, prog |-> c1 :> f @@ c2 :> f @@ c3 :> f,
   cpu |-> c1 :> u1 @@ c2 :> u1 @@ c3 :> u1,
   role |-> [c \in Calls |-> "single"], stack |-> [c \in Calls |-> s1],
   kprobe |-> FALSE, lbr |-> FALSE, stacks |-> FALSE, atExit |-> FALSE,
   ptr |-> "skb", skip |-> FALSE, packet |-> [c \in Calls |-> <<>>],
   params |-> <<>>, ret |-> "num", attrs |-> <<>>]

\* Two functions traced on one CPU or two, with branches and stacks; two
\* stacks of one bucket.
Concurrent ==
  {[Base EXCEPT !.lbr = TRUE, !.stacks = TRUE, !.kprobe = k, !.atExit = x,
                !.prog = c1 :> f @@ c2 :> g @@ c3 :> f,
                !.cpu[c3] = u,
                !.role = c1 :> r @@ c2 :> (IF r = "exit" THEN "entry" ELSE r) @@ c3 :> "single",
                !.stack = c1 :> s1 @@ c2 :> s @@ c3 :> s2] :
     k \in BOOLEAN, x \in BOOLEAN, u \in CPUs, r \in {"exit", "single"}, s \in Stacks}

Layers(links, ihls, protos, vers) ==
  [link: links, ver: vers, ihl: ihls, proto: protos]
Plain == {<<l>> : l \in Layers({"none", "eth", "vlan"}, {5, 6, 8}, {"tcp", "udp", "icmp", "other"}, {4, 6})}
Tunnels ==
  {<<o, i>> : o \in Layers({"none", "eth", "vlan"}, {5, 6, 8}, {"vxlan"}, {4}),
              i \in Layers({"eth", "vlan"}, {5, 8}, {"tcp", "icmp"}, {4}) \cup Layers({"eth"}, {5}, {"tcp"}, {6})}
Tcp == [link |-> "eth", ver |-> 4, ihl |-> 5, proto |-> "tcp"]

\* Packets, in memory that held the tuple of another one.
Packets ==
  {c \in {[Base EXCEPT !.ptr = ptr, !.skip = skip, !.calls = {c1, c2, c3},
                       !.packet = c1 :> <<Tcp>> @@ c2 :> <<>> @@ c3 :> p] :
            ptr \in {"skb", "xdp"}, skip \in BOOLEAN, p \in Plain \cup Tunnels \cup {<<>>}} :
     c.packet[c3] # <<>> /\ c.ptr = "xdp" => c.packet[c3][1].link # "none"}

Signatures ==
  {[Base EXCEPT !.calls = {c1}, !.atExit = TRUE, !.params = p, !.ret = r] :
     p \in SeqOf(ParamKinds, 3), r \in {"num", "numptr", "str"}}

Attributes ==
  {[Base EXCEPT !.calls = {c1}, !.attrs = a] : a \in SeqOf([kind: AttrKinds, null: BOOLEAN], 3)}

MCConfs == Concurrent \cup Packets \cup Signatures \cup Attributes
=============================================================================
