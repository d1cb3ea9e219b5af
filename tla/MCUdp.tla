------------------------------- MODULE MCUdp -------------------------------
(***************************************************************************)
(* RF24UDP in its three builds, each on its own: the initial state chooses *)
(* the build, and the others stay as they are.                             *)
(***************************************************************************)
EXTENDS Naturals, TLC

CONSTANTS Objects, Peers, Ports, UdpConns, BufSize, UipSizes, LwipSizes, ZephyrSizes,
          ArpPayload, NFds, QueueCap, MaxIn, MaxOut, MaxAll, MaxAllZephyr

\* An address and a port other than 0: those mark what is not bound, and an unused entry.
ASSUME UdpAssumption ==
  /\ {UdpConns, BufSize, ArpPayload, NFds, QueueCap, MaxIn, MaxOut, MaxAll, MaxAllZephyr} \subseteq Nat
  /\ UipSizes \cup LwipSizes \cup ZephyrSizes \subseteq Nat
  /\ Ports \subseteq Nat \ {0} /\ 0 \notin Peers

VARIABLES build, udp,
          udpPcb, inb, outb, lcur, lout, unsent, lins, louts,
          fds, sock, zcur, zout, slipped, zins, zouts

lwip == <<udpPcb, inb, outb, lcur, lout, unsent, lins, louts>>
zephyr == <<fds, sock, zcur, zout, slipped, zins, zouts>>

Uip == INSTANCE UipUdp WITH Sizes <- UipSizes
Lwip == INSTANCE LwipUdp
          WITH Sizes <- LwipSizes, cur <- lcur, out <- lout, ins <- lins, outs <- louts
Zephyr == INSTANCE ZephyrUdp
            WITH Sizes <- ZephyrSizes, MaxAll <- MaxAllZephyr,
                 cur <- zcur, out <- zout, ins <- zins, outs <- zouts

Init == /\ build \in {"uIP", "lwIP", "Zephyr"}
        /\ Uip!Init /\ Lwip!Init /\ Zephyr!Init
Next == \/ build = "uIP" /\ Uip!Next /\ UNCHANGED <<build, lwip, zephyr>>
        \/ build = "lwIP" /\ Lwip!Next /\ UNCHANGED <<build, udp, zephyr>>
        \/ build = "Zephyr" /\ Zephyr!Next /\ UNCHANGED <<build, udp, lwip>>
Spec == Init /\ [][Next]_<<build, udp, lwip, zephyr>>

Symmetric == Permutations(Objects) \cup Permutations(Peers)

\* read() gives the sketch the packet it is reading: UipUdp!ReadsFirst and, for the other
\* builds, ReadsCurrent.  In the uIP build remoteIP() is who sent it (UipUdp!RemoteIsSender).
ReadsCurrent == Uip!ReadsFirst /\ Uip!RemoteIsSender /\ Lwip!ReadsCurrent /\ Zephyr!ReadsCurrent

\* What is sent is the packet the sketch has written, and it goes where the sketch said; in the
\* uIP build once, unless it is as long as an ARP frame (UipUdp!SentOnce).
SendsWritten == Uip!SendsWritten /\ Uip!SentOnce /\ Lwip!SendsWritten /\ Zephyr!SendsWritten

\* Every socket is in the hands of the object that can release it, and in the Zephyr build no object
\* loses its socket to another one (ZephyrUdp!KeepsSocket).
KeepsSocket == Uip!TypeOK /\ Lwip!TypeOK /\ Zephyr!TypeOK /\ Zephyr!KeepsSocket

\* What RF24Udp.cpp:481 says of read() in the uIP build; not so.
ReadsPacket == Uip!ReadsCurrent
=============================================================================
