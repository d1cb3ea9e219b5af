-------------------------------- MODULE Sums --------------------------------
(***************************************************************************)
(* The arithmetic of uip.c on octets and 16-bit words: the checksums of    *)
(* the IP and TCP headers, and sequence numbers kept as four octets.  One  *)
(* stack sends a packet, the link may change one octet of it, another      *)
(* stack receives it.                                                      *)
(***************************************************************************)
EXTENDS Integers, SequencesExt

CONSTANTS
  Base,       \* how many values an octet has
  Protocols,  \* protocol numbers of the layers above IP
  Addresses,  \* the octets of source and destination: sequences of even length
  Bodies      \* what follows the checksum: sequences of octets

ASSUME SumsAssumption ==
  /\ Base \in Nat \ {0, 1}
  /\ Addresses \subseteq Seq(0 .. Base - 1) /\ \A a \in Addresses : Len(a) % 2 = 0
  /\ Bodies \subseteq Seq(0 .. Base - 1)
  /\ \A q \in Protocols, b \in Bodies : q \in Nat /\ q + Len(b) + 2 < Base * Base \* "cannot carry"

VARIABLES
  packet,   \* what is summed, the checksum first among its octets
  changed,  \* history: the link has changed it
  rcv_nxt,  \* a sequence number
  added     \* history: what has been added to it

sumVars == <<packet, changed, rcv_nxt, added>>

Octets == 0 .. Base - 1
Word == Base * Base
HeaderOnly == 0

\* A mutant of Plus: drops the carry.
Plus_NoCarry(sum, t) == (sum + t) % Word
\* sum += t; if(sum < t) sum++;
Plus(sum, t) ==
  LET s == (sum + t) % Word IN IF s < t THEN (s + 1) % Word ELSE s

\* An odd octet at the end is the high one of a word
Words(data) ==
  [i \in 1 .. (Len(data) + 1) \div 2 |->
     Base * data[2 * i - 1] + IF 2 * i <= Len(data) THEN data[2 * i] ELSE 0]

chksum(sum, data) == FoldLeft(Plus, sum, Words(data))

AllOnes == Word - 1
Returned(sum) == IF sum = 0 THEN AllOnes ELSE sum

uip_ipchksum(octets) == Returned(chksum(0, octets))
upper_layer_chksum(proto, addresses, octets) ==
  Returned(chksum(chksum(Len(octets) + proto, addresses), octets))

Sum(p) == IF p.proto = HeaderOnly THEN uip_ipchksum(p.octets)
          ELSE upper_layer_chksum(p.proto, p.addresses, p.octets)

\* Its checksum 0, its checksum in place
Blank(proto, addresses, body) ==
  [proto |-> proto, addresses |-> addresses, octets |-> <<0, 0>> \o body]
Summed(p) ==
  LET field == AllOnes - Sum(p)
  IN  [p EXCEPT !.octets[1] = field \div Base, !.octets[2] = field % Base]

\* One more in octet i of a number, and its carry
Carried(octets, i) ==
  [j \in 1 .. 4 |-> IF j <= i /\ \A k \in j + 1 .. i : octets[k] = Base - 1
                    THEN (octets[j] + 1) % Base ELSE octets[j]]

uip_add32(op32, op16) ==
  LET high == op16 \div Base
      low  == op16 % Base
      sum  == <<op32[1], op32[2], (op32[3] + high) % Base, (op32[4] + low) % Base>>
      both == IF sum[3] < high THEN Carried(sum, 2) ELSE sum
  IN  IF both[4] < low THEN Carried(both, 3) ELSE both

NoPacket == [proto |-> HeaderOnly, addresses |-> << >>, octets |-> << >>]

\* Either a packet or a number
SumsInit ==
  /\ packet \in {NoPacket} \cup {Summed(Blank(HeaderOnly, << >>, b)) : b \in Bodies}
                \cup {Summed(Blank(q, a, b)) : q \in Protocols, a \in Addresses, b \in Bodies}
  /\ changed = FALSE /\ rcv_nxt = <<0, 0, 0, 0>> /\ added = 0

\* The link changes one octet.
ChangeOctet ==
  /\ ~changed /\ changed' = TRUE
  /\ \E o \in Octets :
       \/ \E i \in 1 .. Len(packet.octets) :
            packet.octets[i] # o /\ packet' = [packet EXCEPT !.octets[i] = o]
       \/ \E i \in 1 .. Len(packet.addresses) :
            packet.addresses[i] # o /\ packet' = [packet EXCEPT !.addresses[i] = o]
  /\ UNCHANGED <<rcv_nxt, added>>

uip_add_rcv_nxt(n) ==
  /\ packet = NoPacket
  /\ rcv_nxt' = uip_add32(rcv_nxt, n) /\ added' = (added + n) % (Word * Word)
  /\ UNCHANGED <<packet, changed>>

SumsNext == ChangeOctet \/ \E n \in 0 .. Word - 1 : uip_add_rcv_nxt(n)
SumsSpec == SumsInit /\ [][SumsNext]_sumVars

-----------------------------------------------------------------------------
(* A receiver's test accepts every packet as it was sent, and none of      *)
(* which an octet has changed, whatever its length and wherever the sum    *)
(* carries (uip.c: uip_ipchksum() != 0xffff, uip_tcpchksum() != 0xffff).   *)
SumTells == packet # NoPacket => (Sum(packet) = AllOnes <=> ~changed)

(* A sequence number in four octets is the 32-bit sum of all that was      *)
(* added to it.                                                            *)
Value(octets) == FoldLeft(LAMBDA v, o : Base * v + o, 0, octets)
NumbersAdd == Value(rcv_nxt) = added
=============================================================================
