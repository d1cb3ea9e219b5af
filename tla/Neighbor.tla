------------------------------ MODULE Neighbor ------------------------------
(***************************************************************************)
(* uip-neighbor.c: a table of the link addresses of neighbours, which a    *)
(* driver adds to and looks up, and calls uip_neighbor_periodic() for.     *)
(***************************************************************************)
EXTENDS Integers, FiniteSetsExt

CONSTANTS
  Pairs,      \* the neighbours: pairs of IP and link address
  ReadAs,     \* the IP address a link address begins with, read as one
  NullIp, NullAddr, \* all zeros
  NEntries,   \* ENTRIES
  MaxTime     \* MAX_TIME

ASSUME NeighborAssumption == NEntries \in Nat \ {0} /\ MaxTime \in Nat \ {0}

VARIABLES
  entries,
  touched,    \* history: who was added or updated since the last periodic call
  calls       \* history: how many calls did so, up to one more than there are entries

neighborVars == <<entries, touched, calls>>

Known == {p[1] : p \in Pairs}
Places == 1 .. NEntries

NeighborInit ==
  /\ entries = [i \in Places |-> [ip |-> NullIp, addr |-> NullAddr, time |-> MaxTime]]
  /\ touched = {} /\ calls = 0

NeighborPeriodic ==
  /\ entries' = [i \in Places |-> [entries[i] EXCEPT !.time = Min({@ + 1, MaxTime})]]
  /\ touched' = {} /\ calls' = 0

\* The first entry that is not used or matches - the entry's IP address is compared with the
\* link address -, else the first of the oldest.
Place(addr) ==
  LET these == {i \in Places : entries[i].time = MaxTime \/ entries[i].ip = ReadAs[addr]}
      oldest == Max({entries[i].time : i \in Places})
  IN  Min(IF these # {} THEN these ELSE {i \in Places : entries[i].time = oldest})

Touch(ip) == touched' = touched \cup {ip} /\ calls' = Min({calls + 1, NEntries + 1})

NeighborAdd(ip, addr) ==
  /\ entries' = [entries EXCEPT ![Place(addr)] = [ip |-> ip, addr |-> addr, time |-> 0]]
  /\ Touch(ip)

\* The time does not matter: an entry is found until another one takes its place.
find_entry(ip) == {i \in Places : entries[i].ip = ip /\ \A j \in 1 .. i - 1 : entries[j].ip # ip}

NeighborUpdate(ip) ==
  \E i \in find_entry(ip) : entries' = [entries EXCEPT ![i].time = 0] /\ Touch(ip)

NeighborLookup(ip) == {entries[i].addr : i \in find_entry(ip)}

NeighborNext == \/ NeighborPeriodic
                \/ \E p \in Pairs : NeighborAdd(p[1], p[2])
                \/ \E ip \in Known : NeighborUpdate(ip)

-----------------------------------------------------------------------------
\* A lookup gives an address the neighbour has had; and one who was heard of in this period is
\* found, if no more were than the table has entries (uip_neighbor_add, uip-neighbor.c:79) - unless
\* a link address begins like its IP address, and takes its place (line 98).
NeighborsFound ==
  /\ \A ip \in Known : \A addr \in NeighborLookup(ip) : <<ip, addr>> \in Pairs
  /\ calls <= NEntries =>
       \A ip \in touched \ {ReadAs[p[2]] : p \in Pairs} : NeighborLookup(ip) # {}
=============================================================================
