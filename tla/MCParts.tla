------------------------------ MODULE MCParts -------------------------------
(***************************************************************************)
(* The parts of the library that have nothing to do with each other, each  *)
(* on its own; the initial state chooses the part: Setup, Conns, Sums, and *)
(* what uIP brings with it for sketches, Psock, and for links other than   *)
(* the radio, Arp, Neighbor, Slip and Forward.                             *)
(***************************************************************************)
EXTENDS Arp, Setup, Conns, Sums, Neighbor, Psock

CONSTANTS BufSize, MaxPackets, MaxLost,
          Routers, Links, CacheSize, FwTime, Ttl, MaxForwarded

ASSUME PartsAssumption ==
  /\ CacheSize \in Nat \ {0} /\ FwTime \in Nat \ {0} /\ Ttl \in Nat /\ MaxForwarded \in Nat
  /\ NullIp \notin {p[1] : p \in Pairs} /\ \A p \in Pairs : p = <<p[1], p[2]>>

VARIABLES part,
          toGateway, line, slip_buf, lastc, sentPackets, lost, got, written,
          conf, fwcache, air, sentCount, heard, again, forgotten, mistaken

slip == <<toGateway, line, slip_buf, lastc, sentPackets, lost, got, written>>
forward == <<conf, fwcache, air, sentCount, heard, again, forgotten, mistaken>>

\* a, and c of Halves, change their link address.
MCSenders == {<<"a", "m1">>, <<"a", "m2">>, <<"b", "m1">>, <<"c", "m1">>, <<"c", "m2">>, <<"zero", "m2">>}

\* c's link address begins like a's IP address.
MCPairs == {<<"a", "m1">>, <<"a", "m2">>, <<"b", "m3">>, <<"c", "mA">>}
MCReadAs == [addr \in {"none", "m1", "m2", "m3", "mA"} |->
               CASE addr = "none" -> "zero" [] addr = "mA" -> "a" [] OTHER -> "else"]

\* Lines that fit the buffer or not, several in a segment; segments that end in a line
MCSegments == {<<"x", "nl">>, <<"x", "y", "z", "nl">>, <<"nl", "z", "nl">>, <<"x", "nl", "y">>, <<"z", "x">>}

\* Two octets of addresses; bodies of up to three octets, of odd and even length
MCAddresses == SeqOf(0 .. Base - 1, 2) \ SeqOf(0 .. Base - 1, 1)
MCBodies == SeqOf(0 .. Base - 1, 3)

\* Short packets with every byte that is special, the longest that fit, one too long; destinations
\* of the first levels and one whose address does not fit into a byte
SlipPart == INSTANCE Slip
  WITH Packets <- {<<"END", "ESC">>, <<"ESC", "ESC_END">>, <<"ESC", "ESC">>, <<"ESC_ESC", "other">>,
                   <<"other">>, <<"ESC_END", "END">>, <<"other", "ESC", "other">>,
                   <<"other", "other", "other", "other">>},
       Addresses <- {0, 5, 9}, NotFound <- 99, Octets <- 8, MaxSent <- MaxPackets

\* Both links registered with both routers; with one; each with one of its own; crossed
Conf(first, on1, default1, on2, default2, little) ==
  [first |-> first, little |-> little,
   registered |-> [r \in Routers |-> IF r = "r1" THEN on1 ELSE on2],
   default |-> [r \in Routers |-> IF r = "r1" THEN default1 ELSE default2]]
ForwardPart == INSTANCE Forward
  WITH HostOn <- [l \in Links |-> IF l = "l1" THEN "h1" ELSE "h2"], Elsewhere <- "far",
       Broadcast <- "all", NoLink <- "none", HasBroadcast <- TRUE, MaxSent <- MaxForwarded,
       Confs <- {Conf(65533, Links, "l1", Links, "l1", TRUE), Conf(65534, {}, "l1", {"l1"}, "l2", TRUE),
                 Conf(65279, {"l1"}, "l2", {"l2"}, "none", FALSE), Conf(65278, {"l2"}, "l1", {"l1"}, "l2", FALSE)}

\* The parts that are not chosen have one initial state.
PartsInit ==
  /\ part \in {"setup", "conns", "sums", "arp", "neighbor", "psock", "slip", "forward"}
  /\ ArpInit /\ router \in (IF part = "arp" THEN {"zero", "a"} ELSE {"zero"})
  /\ SetupInit /\ (part # "setup" => stack = "uip" /\ multicastRelay)
  /\ SumsInit /\ (part # "sums" => packet = NoPacket)
  /\ PsockInit /\ (part # "psock" => byLine)
  /\ SlipPart!SlipInit /\ (part # "slip" => toGateway)
  /\ ForwardPart!ForwardInit /\ (part # "forward" => conf.first = 65533)
  /\ ConnsInit /\ NeighborInit

\* What the steps of a part leave alone: the other parts
uip == <<setupVars, connVars, sumVars>>
links == <<arpVars, neighborVars, psockVars>>

SetupStep == part = "setup" /\ SetupNext /\ UNCHANGED <<part, connVars, sumVars, links, slip, forward>>
ConnsStep == part = "conns" /\ ConnsNext /\ UNCHANGED <<part, setupVars, sumVars, links, slip, forward>>
SumsStep == part = "sums" /\ SumsNext /\ UNCHANGED <<part, setupVars, connVars, links, slip, forward>>
ArpStep == part = "arp" /\ ArpNext /\ UNCHANGED <<part, uip, neighborVars, psockVars, slip, forward>>
NeighborStep ==
  part = "neighbor" /\ NeighborNext /\ UNCHANGED <<part, uip, arpVars, psockVars, slip, forward>>
PsockStep ==
  part = "psock" /\ PsockNext /\ UNCHANGED <<part, uip, arpVars, neighborVars, slip, forward>>
SlipStep == part = "slip" /\ SlipPart!SlipNext /\ UNCHANGED <<part, uip, links, forward>>
ForwardStep == part = "forward" /\ ForwardPart!ForwardNext /\ UNCHANGED <<part, uip, links, slip>>
Receives == part = "forward" /\ ForwardPart!Receive /\ UNCHANGED <<part, uip, links, slip>>

PartsNext == \/ SetupStep \/ ConnsStep \/ SumsStep \/ ArpStep \/ NeighborStep \/ PsockStep
             \/ SlipStep \/ ForwardStep
PartsSpec ==
  /\ PartsInit
  /\ [][PartsNext]_<<part, uip, links, slip, forward>>
  /\ WF_forward(Receives)

\* With several connections a segment is for one of them, and user data serve one that goes on:
\* Conns!OneMatches and DataServeOne
ConnsApart == OneMatches /\ DataServeOne

\* Entries of the two tables stay as long as they should: Arp!Ages and Neighbor!NeighborsFound
EntriesAge == [][Ages /\ NeighborsFound']_<<arpVars, neighborVars>>

\* A packet that lost no byte arrives, whatever was lost or too long before it, and goes on to the
\* node that has its address: Slip!DamageIsLocal and RoutesPacket
DamageIsLocal == SlipPart!DamageIsLocal /\ SlipPart!RoutesPacket

\* A broadcast a router has passed on does not come to its stack again: Forward!HeardOnce
HeardOnce == ForwardPart!HeardOnce

\* The IP header's checksum is right on every hop, and checksums tell a changed packet; numbers of
\* four octets carry: Forward!SumIsRight, Sums!SumTells and NumbersAdd
SumIsRight == ForwardPart!SumIsRight /\ SumTells /\ NumbersAdd

\* What goes round in loops comes to an end: Forward!StormEnds
StormEnds == ForwardPart!StormEnds
=============================================================================
