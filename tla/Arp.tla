-------------------------------- MODULE Arp ---------------------------------
(***************************************************************************)
(* uip_arp.c, used as uip_arp.h says: a driver calls uip_arp_ipin() and    *)
(* uip_arp_arpin() with what it receives, uip_arp_out() before it sends,   *)
(* and uip_arp_timer() every ten seconds.  An IP address is a name; Zero   *)
(* is 0.0.0.0, which marks a free entry; Halves are the addresses of which *)
(* one 16-bit half is zero, such as 10.1.0.0 in a net of mask 255.0.0.0.   *)
(***************************************************************************)
EXTENDS Integers, FiniteSetsExt

CONSTANTS
  Hosts,       \* the IP addresses in our net, without our own
  Outside,     \* one that is not
  Zero, Broadcast,
  Halves,
  Senders,     \* the pairs of IP and link address frames come from; Zero from who has no address yet
  NoMac,       \* all zeros
  TableSize, MaxAge, ClockRange

ASSUME ArpAssumption ==
  /\ TableSize \in Nat \ {0} /\ ClockRange \in Nat /\ MaxAge \in 1 .. ClockRange - 1
  /\ Zero \notin Hosts /\ \A s \in Senders : s = <<s[1], s[2]>>

VARIABLES arp_table, arptime,
          router, \* uip_draddr
          last,   \* history: see AddressCache
          sent    \* the frame the last call left in uip_buf

arpVars == <<arp_table, arptime, router, last, sent>>

Macs == {s[2] : s \in Senders}
Ips == (Hosts \cup {s[1] : s \in Senders}) \ {Zero}
Cached == Ips \ Halves
Entries == 1 .. TableSize
NoFrame == [kind |-> "none", to |-> NoMac]
Free == [ip |-> Zero, mac |-> NoMac, time |-> 0, age |-> 0]

\* uip_arp_init(); the times stay, and are 0 at power up.  age is a history of the timer calls, up to MaxAge.
ArpInit ==
  /\ arp_table = [i \in Entries |-> Free] /\ arptime = 0 /\ router \in Hosts \cup {Zero}
  /\ last = [ip |-> NoMac, mac |-> NoMac] /\ sent = NoFrame

\* A mutant of Expired: ages are taken modulo the clock's range.
Expired_Wraps(e) == e.ip # Zero /\ (arptime' - e.time + ClockRange) % ClockRange >= MaxAge
\* The difference of the two bytes is an int: negative once arptime has wrapped.
Expired(e) == e.ip # Zero /\ arptime' - e.time >= MaxAge

\* uip_arp_timer()
Timer ==
  /\ arptime' = (arptime + 1) % ClockRange
  /\ arp_table' = [i \in Entries |-> LET e == arp_table[i] IN
                     IF Expired(e) THEN [e EXCEPT !.ip = Zero, !.age = 0]
                     ELSE IF e.ip = Zero THEN e ELSE [e EXCEPT !.age = Min({@ + 1, MaxAge})]]
  /\ UNCHANGED <<router, last, sent>>

\* The first of the entries with the largest difference, if that is positive, else the first
Oldest ==
  LET largest == Max({0} \cup {arptime - arp_table[i].time : i \in Entries})
      those == {i \in Entries : arptime - arp_table[i].time = largest}
  IN  IF largest = 0 THEN 1 ELSE Min(those)

\* A mutant of Slot: does not look for the address in the table.
Slot_Appends(ip) ==
  LET free == {i \in Entries : arp_table[i].ip = Zero}
  IN  IF free # {} THEN Min(free) ELSE Oldest
\* Where uip_arp_update() puts an address.  It takes an entry as in use when both halves of its
\* address are not zero (line 166): an address of Halves it never finds, and enters it again.
Slot(ip) ==
  LET same == {i \in Entries : arp_table[i].ip = ip /\ ip \in Cached}
      free == {i \in Entries : arp_table[i].ip = Zero}
  IN  IF same # {} THEN Min(same) ELSE IF free # {} THEN Min(free) ELSE Oldest

\* uip_arp_update()
Update(ip, mac) ==
  /\ arp_table' = [arp_table EXCEPT ![Slot(ip)] = [ip |-> ip, mac |-> mac, time |-> arptime, age |-> 0]]
  /\ last' = IF ip \in Cached THEN [ip |-> ip, mac |-> mac] ELSE last

\* uip_arp_ipin(): only of a source in our net
IpIn == \E s \in Senders :
  /\ IF s[1] \in Hosts THEN Update(s[1], s[2]) ELSE UNCHANGED <<arp_table, last>>
  /\ UNCHANGED <<arptime, router, sent>>

\* uip_arp_arpin(): a request or a reply counts when it is for us, and a request is answered.  A
\* sender that has no address yet says 0.0.0.0.
ArpIn ==
  /\ \/ \E s \in Senders :
          /\ Update(s[1], s[2])
          /\ sent' \in {NoFrame, [kind |-> "reply", to |-> s[2]]}
     \/ sent' = NoFrame /\ UNCHANGED <<arp_table, last>>
  /\ UNCHANGED <<arptime, router>>

Hop(ip) == IF ip \in Hosts THEN ip ELSE router
Matches(ip) == {i \in Entries : arp_table[i].ip = ip}

\* The link address the table gives
Found(ip) == IF Matches(ip) = {} THEN NoMac ELSE arp_table[Min(Matches(ip))].mac

\* uip_arp_out(): a packet whose next hop is not in the table becomes a request for it.
Out == \E ip \in Hosts \cup {Outside, Broadcast} :
  /\ sent' = IF ip = Broadcast THEN [kind |-> "packet", to |-> Broadcast]
             ELSE IF Matches(Hop(ip)) = {} THEN [kind |-> "request", to |-> Broadcast]
             ELSE [kind |-> "packet", to |-> Found(Hop(ip))]
  /\ UNCHANGED <<arp_table, arptime, router, last>>

ArpNext == Timer \/ IpIn \/ ArpIn \/ Out
ArpSpec == ArpInit /\ [][ArpNext]_arpVars

-----------------------------------------------------------------------------
ArpEntries == [ip : Ips \cup {Zero}, mac : Macs \cup {NoMac},
               time : 0 .. ClockRange - 1, age : 0 .. MaxAge]

\* The table keeps its type, has what was said in one frame in each entry, and has no address
\* twice but those of Halves.
ArpTypeOK ==
  /\ arp_table \in [Entries -> ArpEntries]
  /\ arptime \in 0 .. ClockRange - 1
  /\ router \in Hosts \cup {Zero}
  /\ \A i \in Entries : LET e == arp_table[i] IN
       /\ e.ip # Zero => <<e.ip, e.mac>> \in Senders
       /\ e.ip \in Cached => Matches(e.ip) = {i}

\* The table is an AddressCache of the addresses outside Halves: what is found for one is what was
\* heard of it last.  (Of an address of Halves the first of several entries is found, which may be
\* the oldest.)
Cache == INSTANCE AddressCache WITH Ips <- Cached, known <- [ip \in Cached |-> Found(ip)]
IsCache == Cache!Spec

\* An address stays for UIP_ARP_MAXAGE calls of the timer after it was heard (uipopt.h:372), no
\* less and no more - unless it was heard so late in the clock's range that the clock wraps
\* before (uip_arp.c:149): then it stays, however old.
Ages ==
  Timer => \A i \in Entries : LET e == arp_table[i] IN
    e.ip # Zero => (arp_table'[i].ip = Zero) = (e.age + 1 >= MaxAge /\ e.time + MaxAge < ClockRange)
AgesOut == [][Ages]_arpVars
=============================================================================
