-------------------------------- MODULE Slip --------------------------------
(***************************************************************************)
(* SLIP between a host and the gateway of examples/Outdated/SLIP_Gateway:  *)
(* slipdev_send() and slipdev_poll() of utility/slipdev.c (the host's end) *)
(* and of the sketch's slipdev.ino, and the sketch's loop(), which writes  *)
(* a packet from the line to a node of the mesh.  A byte is END, ESC, one  *)
(* of the two that stand for them after ESC, or another one.  The line     *)
(* keeps the order and may lose a byte.  The initial state chooses the     *)
(* direction; the two directions share nothing.                            *)
(***************************************************************************)
EXTENDS Naturals, SequencesExt

CONSTANTS
  Packets,   \* the packets sent, as sequences of bytes
  Addresses, \* of their destinations on the mesh; NotFound is getAddress()'s -1
  NotFound,
  BufSize,   \* UIP_BUFSIZE, UIP_BUFFER_SIZE
  Octets,    \* the values of a byte
  MaxSent, MaxLost

VARIABLES
  toGateway,     \* the direction
  line,          \* the bytes on the line, each with the number of its packet
  slip_buf, lastc,
  sentPackets,   \* history: the packets sent, where to, and whether a byte was lost
  lost,
  got,           \* what slipdev_poll() has given, with the numbers of the packets it is from
  written        \* what loop() has written to the mesh, and where

slipVars == <<toGateway, line, slip_buf, lastc, sentPackets, lost, got, written>>

END == "END"
ESC == "ESC"
ESC_END == "ESC_END"
ESC_ESC == "ESC_ESC"

\* slipdev_init()
SlipInit ==
  /\ toGateway \in BOOLEAN /\ line = <<>> /\ slip_buf = <<>> /\ lastc = "other"
  /\ sentPackets = <<>> /\ lost = 0 /\ got = <<>> /\ written = <<>>

\* A mutant of Escaped: forgets about the escape byte itself.
Escaped_EndOnly(c) == IF c = END THEN <<ESC, ESC_END>> ELSE <<c>>
\* The bytes sent for a byte
Escaped(c) ==
  CASE c = END -> <<ESC, ESC_END>>
    [] c = ESC -> <<ESC, ESC_ESC>>
    [] OTHER -> <<c>>

\* slipdev_send(): an END on either side
Framed(p) == <<END>> \o FlattenSeq([i \in 1 .. Len(p) |-> Escaped(p[i])]) \o <<END>>

SlipSend ==
  /\ Len(sentPackets) < MaxSent
  /\ \E p \in Packets, to \in IF toGateway THEN Addresses ELSE {NotFound} :
       /\ sentPackets' = Append(sentPackets, [packet |-> p, to |-> to, hit |-> FALSE])
       /\ line' = line \o [i \in 1 .. Len(Framed(p)) |-> [c |-> Framed(p)[i], of |-> Len(sentPackets')]]
  /\ UNCHANGED <<toGateway, slip_buf, lastc, lost, got, written>>

LoseByte ==
  /\ lost < MaxLost /\ lost' = lost + 1
  /\ \E i \in 1 .. Len(line) : /\ line' = RemoveAt(line, i)
                               /\ sentPackets' = [sentPackets EXCEPT ![line[i].of].hit = TRUE]
  /\ UNCHANGED <<toGateway, slip_buf, lastc, got, written>>

\* What a byte stands for
Unescaped(c) ==
  IF lastc = ESC /\ c = ESC_END THEN END ELSE IF lastc = ESC /\ c = ESC_ESC THEN ESC ELSE c

\* loop(): to_node is the result of getAddress() in a uint8_t; 0 means not found.
Route(p) ==
  \E to \in IF Cardinality(p.of) = 1 /\ ~sentPackets[CHOOSE k \in p.of : TRUE].hit
            THEN {sentPackets[k].to : k \in p.of} ELSE Addresses :
    LET to_node == IF to = NotFound THEN Octets - 1 ELSE to % Octets IN
    written' = IF to_node = 0 THEN written ELSE Append(written, [of |-> p.of, to_node |-> to_node])

\* An iteration of slipdev_poll().  The byte behind slip_buf may be written before len starts again.
Poll ==
  /\ line # <<>> /\ line' = Tail(line)
  /\ LET byte == Head(line) IN
     CASE byte.c = ESC -> lastc' = ESC /\ UNCHANGED <<slip_buf, got, written>>
       [] byte.c = END ->
            LET p == [packet |-> [i \in 1 .. Len(slip_buf) |-> slip_buf[i].c],
                      of |-> {slip_buf[i].of : i \in 1 .. Len(slip_buf)}]
            IN  /\ lastc' = END /\ slip_buf' = <<>>
                /\ IF slip_buf = <<>> THEN UNCHANGED <<got, written>>
                   ELSE got' = Append(got, p) /\ IF toGateway THEN Route(p) ELSE UNCHANGED written
       [] OTHER ->
            LET longer == Append(slip_buf, [byte EXCEPT !.c = Unescaped(@)]) IN
            /\ lastc' = byte.c
            /\ slip_buf' = IF Len(longer) > BufSize THEN <<>> ELSE longer
            /\ UNCHANGED <<got, written>>
  /\ UNCHANGED <<toGateway, sentPackets, lost>>

SlipNext == SlipSend \/ LoseByte \/ Poll
SlipSpec == SlipInit /\ [][SlipNext]_slipVars

-----------------------------------------------------------------------------
\* Of the packets that fit, those that lost no byte have arrived, as they were, once the line has
\* brought their END; a lost byte or a packet that is too long harms no other one.
DamageIsLocal ==
  \A k \in 1 .. Len(sentPackets) :
    LET s == sentPackets[k]
        mine == SelectSeq(got, LAMBDA g : k \in g.of)
    IN  ~s.hit /\ Len(s.packet) \in 1 .. BufSize /\ (\A i \in 1 .. Len(line) : line[i].of # k) =>
          mine = <<[packet |-> s.packet, of |-> {k}]>>

\* The gateway writes a packet to the node that has its destination's address, if that is less
\* than 256, that is for nodes up to the second level and some of the third.
RoutesPacket ==
  \A i \in 1 .. Len(written) : \A k \in 1 .. Len(sentPackets) :
    written[i].of = {k} /\ ~sentPackets[k].hit =>
      \/ written[i].to_node = sentPackets[k].to
      \/ sentPackets[k].to = NotFound \/ sentPackets[k].to >= Octets
=============================================================================
