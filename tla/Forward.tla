------------------------------ MODULE Forward -------------------------------
(***************************************************************************)
(* uip-fw.c and uip-split.c: routers that are all on the same links, and   *)
(* so form loops.  Each router has some of the links registered, with the  *)
(* net that is on it, and perhaps one as the default.  A link delivers to  *)
(* every other router, in any order; one that never does has lost it.      *)
(***************************************************************************)
EXTENDS Naturals, Sequences, FiniteSetsExt

CONSTANTS
  Routers, Links,
  HostOn,       \* for each link, a host on its net
  Elsewhere,    \* one on no link's net
  Broadcast, NoLink,
  HasBroadcast, \* UIP_BROADCAST
  CacheSize, FwTime, Ttl,
  Confs,        \* how the routers are set up: see conf
  MaxSent

VARIABLES
  conf,      \* links registered and default, the machines' byte order, a header's first checksum
  fwcache, air, sentCount,
  heard,     \* history: the broadcasts a router has sent or passed on
  again,     \* history: those it then handed to its own stack though its cache had not forgotten them
  forgotten, \* history: what a router's cache has forgotten and not been told again
  mistaken   \* history: packets dropped as duplicates that were none

fwVars == <<conf, fwcache, air, sentCount, heard, again, forgotten, mistaken>>

\* What tells a packet from others: not its length or offset, as UIP_REASSEMBLY is 0
Key(p) == [id |-> p.id, src |-> p.src, dst |-> p.dst, proto |-> p.proto]
Empty == [timer |-> 0, packet |-> [id |-> 0]]

\* uip_fw_init(), then uip_fw_register() and uip_fw_default()
ForwardInit ==
  /\ conf \in Confs
  /\ fwcache = [r \in Routers |-> [i \in 1 .. CacheSize |-> Empty]]
  /\ air = {} /\ sentCount = 0 /\ heard = {} /\ again = {} /\ forgotten = {} /\ mistaken = {}

\* The entry fwcache_register() takes: the first that is free, else the last of the oldest
Slot(cache) ==
  LET free == {i \in 1 .. CacheSize : cache[i].timer = 0}
      oldest == {i \in 1 .. CacheSize : \A j \in 1 .. CacheSize : cache[i].timer <= cache[j].timer}
  IN  IF free # {} THEN Min(free) ELSE Max(oldest)

\* fwcache_register()
Registered(cache, p) == [cache EXCEPT ![Slot(cache)] = [timer |-> FwTime, packet |-> p]]

Keys(cache) == {Key(cache[i].packet) : i \in {j \in 1 .. CacheSize : cache[j].timer # 0}}
NewCache(r, cache) ==
  /\ fwcache' = [fwcache EXCEPT ![r] = cache]
  /\ forgotten' = (forgotten \cup {<<r, k>> : k \in Keys(fwcache[r])}) \ {<<r, k>> : k \in Keys(cache)}

\* find_netif()
Netif(r, dst) ==
  LET on == {l \in conf.registered[r] : HostOn[l] = dst}
  IN  IF on # {} THEN CHOOSE l \in on : TRUE ELSE conf.default[r]

\* The interfaces: a broadcast goes out on the default one and on every registered one, twice
\* if it is both.
Copies(r, p) ==
  IF HasBroadcast /\ p.dst = Broadcast
  THEN {<<conf.default[r], 1>>} \cup {<<l, 2>> : l \in conf.registered[r]}
  ELSE {<<Netif(r, p.dst), 1>>}

Frames(r, p) ==
  {[to |-> q, link |-> c[1], copy |-> c[2], packet |-> p] :
     q \in Routers \ {r}, c \in {x \in Copies(r, p) : x[1] # NoLink}}

\* uip_fw_output()
Output(r, p, rest) == NewCache(r, Registered(fwcache[r], p)) /\ air' = rest \cup Frames(r, p)

\* A mutant of Known: the cache is not looked at.
Known_Never(r, p) == FALSE
Known(r, p) == Key(p) \in Keys(fwcache[r])

\* The header's checksum when ttl goes down, as a number of the machine's byte order
Unit == IF conf.little THEN 1 ELSE 256
NextSum(sum) == (IF sum >= 65535 - Unit THEN sum + Unit + 1 ELSE sum + Unit) % 65536
\* A mutant of Older: ttl stays.
Older_NoTtl(p) == p
Older(p) == [p EXCEPT !.ttl = @ - 1, !.sum = NextSum(@)]

\* time_exceeded(): the packet becomes a message to its source.  It keeps its id.
TimeExceeded(r, p) == [p EXCEPT !.src = r, !.dst = p.src, !.proto = "icmp", !.ttl = Ttl, !.sum = conf.first]

\* UIP_FW_LOCAL for a broadcast: when it has been forwarded, or its time is over
Local(r, p) == again' = IF <<r, Key(p)>> \in heard \ forgotten THEN again \cup {<<r, Key(p)>>} ELSE again

\* uip_fw_forward() for a frame from a link: it is for this node's stack, or known, or its time is
\* over (no message about a broadcast, which the stack gets, or an ICMP message), or it goes on.
Receive ==
  /\ \E f \in air :
       LET r == f.to  p == f.packet  rest == air \ {f} IN
       \/ /\ p.dst = r \/ (p.dst # Broadcast /\ ~Known(r, p) /\ p.ttl <= 1 /\ p.proto = "icmp")
          /\ air' = rest /\ UNCHANGED <<fwcache, forgotten, heard, again, mistaken>>
       \/ /\ p.dst = Broadcast /\ ~Known(r, p) /\ p.ttl <= 1
          /\ Local(r, p)
          /\ air' = rest /\ UNCHANGED <<fwcache, forgotten, heard, mistaken>>
       \/ /\ p.dst # r /\ Known(r, p)
          /\ mistaken' = IF \E i \in 1 .. CacheSize : fwcache[r][i].packet.id = p.id /\ fwcache[r][i].packet.half = p.half
                         THEN mistaken ELSE mistaken \cup {p}
          /\ air' = rest /\ UNCHANGED <<fwcache, forgotten, heard, again>>
       \/ /\ p.dst \notin {r, Broadcast} /\ ~Known(r, p) /\ p.ttl <= 1 /\ p.proto # "icmp"
          /\ Output(r, Older(TimeExceeded(r, p)), rest)
          /\ UNCHANGED <<heard, again, mistaken>>
       \/ /\ p.dst # r /\ ~Known(r, p) /\ p.ttl > 1
          /\ Output(r, Older(p), rest)
          /\ IF HasBroadcast /\ p.dst = Broadcast
             THEN Local(r, p) /\ heard' = heard \cup {<<r, Key(p)>>} ELSE UNCHANGED <<heard, again>>
          /\ UNCHANGED mistaken
  /\ UNCHANGED <<conf, sentCount>>

Destinations == Routers \cup {HostOn[l] : l \in Links} \cup {Elsewhere, Broadcast}

\* A router's own packet: uip_split_output() makes two of a full TCP segment, with the same id, and
\* sends everything else as it is.
SendPacket ==
  /\ sentCount < MaxSent /\ sentCount' = sentCount + 1
  /\ \E r \in Routers, dst \in Destinations, proto \in {"tcp", "icmp", "udp"}, full \in BOOLEAN :
       LET p == [id |-> sentCount', src |-> r, dst |-> dst, proto |-> proto, ttl |-> Ttl, sum |-> conf.first, half |-> 0]
           first == [p EXCEPT !.half = 1]
           second == [p EXCEPT !.half = 2]
       IN  /\ r # dst /\ (dst = Broadcast <=> proto = "udp") /\ (full => proto = "tcp")
           /\ IF full
              THEN /\ NewCache(r, Registered(Registered(fwcache[r], first), second))
                   /\ air' = air \cup Frames(r, first) \cup Frames(r, second)
              ELSE Output(r, p, air)
           /\ heard' = IF dst = Broadcast THEN heard \cup {<<r, Key(p)>>} ELSE heard
  /\ UNCHANGED <<conf, again, mistaken>>

\* uip_fw_periodic()
FwPeriodic ==
  /\ \E r \in Routers :
       LET less(e) == IF e.timer <= 1 THEN Empty ELSE [e EXCEPT !.timer = @ - 1] IN
       NewCache(r, [i \in 1 .. CacheSize |-> less(fwcache[r][i])])
  /\ UNCHANGED <<conf, air, sentCount, heard, again, mistaken>>

ForwardNext == Receive \/ SendPacket \/ FwPeriodic
ForwardSpec == ForwardInit /\ [][ForwardNext]_fwVars /\ WF_fwVars(Receive)

-----------------------------------------------------------------------------
\* A broadcast that a router has sent or passed on does not get to its own stack (again), whatever
\* way it comes, as long as the cache has not forgotten it (uip-fw.c:427).  One that comes when its
\* time is over is not put into the cache, and gets there with every copy (line 456).
HeardOnce == again = {}

\* The header's checksum is right after any number of hops, on either kind of machine
\* (uip-fw.c:467).
SumIsRight ==
  \A f \in air : LET p == f.packet IN p.sum % 65535 = (conf.first + (Ttl - p.ttl) * Unit) % 65535

\* Whatever goes round in loops comes to an end (uip-fw.c:464), for there is no message about the
\* end of a message, even if the caches forget all the time.
StormEnds == []<>(air = {})

\* "Check if the packet is in the forwarding cache already, and if so we drop it" (uip-fw.c:424);
\* not so of the second half of a segment (uip-split.c).
DropsDuplicates == mistaken = {}
=============================================================================
