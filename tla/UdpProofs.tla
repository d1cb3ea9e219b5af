----------------------------- MODULE UdpProofs ------------------------------
(***************************************************************************)
(* UDP of the three builds, for any number of objects, remote ends and     *)
(* sockets, and any sizes of buffers and datagrams: a sketch reads the     *)
(* packet it was given, what is sent is what it wrote, and sockets are     *)
(* where they can be released.                                             *)
(***************************************************************************)
EXTENDS MCUdp, Integers, SequenceTheorems, WellFoundedInduction, TLAPS

UnitSet == {"in", "out", "junk"} \X Nat \X Nat
Ends == Peers \cup {0}

LEMMA Numbers ==
  /\ UdpConns \in Nat /\ BufSize \in Nat /\ ArpPayload \in Nat /\ NFds \in Nat /\ QueueCap \in Nat
  /\ MaxIn \in Nat /\ MaxOut \in Nat /\ MaxAll \in Nat /\ MaxAllZephyr \in Nat
  /\ UipSizes \subseteq Nat /\ LwipSizes \subseteq Nat /\ ZephyrSizes \subseteq Nat
  /\ Ports \subseteq Nat \ {0} /\ 0 \notin Peers
BY UdpAssumption

-----------------------------------------------------------------------------
(* Rows of units, and the least of some numbers                            *)

\* What is read of a row of units, and what is left of it
LEMMA Part ==
  ASSUME NEW s \in Seq(UnitSet), NEW m \in Nat \ {0}, NEW n \in Nat, n <= Len(s)
  PROVE  /\ SubSeq(s, m, n) \in Seq(UnitSet)
         /\ Len(SubSeq(s, m, n)) = (IF m <= n THEN n - m + 1 ELSE 0)
         /\ \A i \in 1 .. n - m + 1 : SubSeq(s, m, n)[i] = s[m + i - 1]
<1>1. \A i \in m .. n : s[i] \in UnitSet
  BY ElementOfSeq
<1> QED BY <1>1, SubSeqProperties, SMTT(30)

LEMMA Behind ==
  ASSUME NEW s \in Seq(UnitSet), NEW j \in Nat
  PROVE  LET r == SubSeq(s, j + 1, Len(s)) IN
         /\ r \in Seq(UnitSet) /\ Len(r) = (IF j + 1 <= Len(s) THEN Len(s) - j ELSE 0)
         /\ \A i \in 1 .. Len(s) - j : r[i] = s[j + i]
<1> DEFINE k == j + 1
           l == Len(s)
<1>1. k \in Nat \ {0} /\ l \in Nat /\ l <= Len(s) /\ k = j + 1
  BY LenProperties
<1> HIDE DEF k
<1>2. /\ SubSeq(s, k, l) \in Seq(UnitSet) /\ Len(SubSeq(s, k, l)) = (IF k <= l THEN l - k + 1 ELSE 0)
      /\ \A i \in 1 .. l - k + 1 : SubSeq(s, k, l)[i] = s[k + i - 1]
  BY <1>1, Part
<1> HIDE DEF l
<1> DEFINE r == SubSeq(s, k, l)
<1> HIDE DEF r
<1>3. r \in Seq(UnitSet) /\ Len(r) = (IF j + 1 <= l THEN l - j ELSE 0)
  BY <1>1, <1>2 DEF r
<1>4. ASSUME NEW i \in 1 .. l - j PROVE r[i] = s[j + i]
  <2>1. i \in 1 .. l - k + 1 /\ k + i - 1 = j + i
    BY <1>1
  <2>2. r[i] = s[k + i - 1]
    BY <1>2, <2>1, SMTT(30) DEF r
  <2> QED BY <2>1, <2>2
<1> QED BY <1>3, <1>4 DEF r, k, l

\* What an array begins with
LEMMA Begins ==
  ASSUME NEW s \in Seq(UnitSet), NEW a, \A i \in 1 .. Len(s) : a[i] = s[i]
  PROVE  SubSeq(a, 1, Len(s)) = s
<1> DEFINE t == SubSeq(a, 1, Len(s))
<1>1. Len(s) \in Nat /\ \A i \in 1 .. Len(s) : s[i] \in UnitSet
  BY LenProperties, ElementOfSeq
<1>2. /\ t \in Seq(UnitSet) /\ Len(t) = Len(s)
      /\ \A i \in 1 .. Len(s) : t[i] = a[1 + i - 1]
  BY <1>1, SubSeqProperties
<1> HIDE DEF t
<1>3. \A i \in 1 .. Len(s) : t[i] = s[i]
  BY <1>1, <1>2
<1> QED BY <1>2, <1>3, SeqEqual DEF t

LEMMA Joined ==
  ASSUME NEW s \in Seq(UnitSet), NEW t \in Seq(UnitSet), NEW n \in Nat, n = Len(s) + Len(t)
  PROVE  /\ s \o t \in Seq(UnitSet) /\ Len(s \o t) = n
         /\ \A i \in 1 .. n : (s \o t)[i] = IF i <= Len(s) THEN s[i] ELSE t[i - Len(s)]
BY ConcatProperties

\* A datagram's units, as many as there is room for
Cut(d) == SubSeq(d, 1, IF Len(d) < BufSize THEN Len(d) ELSE BufSize)

LEMMA CutFits ==
  ASSUME NEW d \in Seq(UnitSet)
  PROVE  Cut(d) \in Seq(UnitSet) /\ Len(Cut(d)) \in Nat /\ Len(Cut(d)) <= BufSize
<1> DEFINE m == IF Len(d) < BufSize THEN Len(d) ELSE BufSize
<1>1. Len(d) \in Nat /\ BufSize \in Nat
  BY LenProperties, Numbers
<1>2. SubSeq(d, 1, m) \in Seq(UnitSet) /\ Len(SubSeq(d, 1, m)) \in Nat /\ Len(SubSeq(d, 1, m)) <= BufSize
  BY <1>1, Part
<1> QED BY <1>2 DEF Cut

LEMMA Least ==
  ASSUME NEW S, S \subseteq Nat, S # {}
  PROVE  \E x \in S : \A y \in S : x <= y
<1> DEFINE R == OpToRel(<, Nat)
<1>1. \A x, y \in Nat : <<y, x>> \in R <=> y < x
  BY Zenon DEF OpToRel
<1>2. PICK x \in S : \A y \in S : ~(<<y, x>> \in R)
  <2>1. IsWellFoundedOn(R, Nat)
    BY NatLessThanWellFounded, Zenon
  <2> HIDE DEF R
  <2> QED BY <2>1, WFMin, Zenon
<1>3. ASSUME NEW y \in S PROVE x <= y
  <2> HIDE DEF R
  <2>1. x \in Nat /\ y \in Nat
    OBVIOUS
  <2>2. ~(<<y, x>> \in R)
    BY <1>2
  <2>3. ~(y < x)
    BY <1>1, <2>1, <2>2, ZenonT(40)
  <2> QED BY <2>1, <2>3
<1> QED BY <1>3

-----------------------------------------------------------------------------
(* The uIP build.  The table and the objects agree on who has which entry; *)
(* a packet being written keeps its entry turned to the remote end it is   *)
(* for, so no datagram of another end comes in over it; and while the      *)
(* array is the reader's or the writer's alone, it begins with what was    *)
(* given or written.                                                       *)

UipConns == [lport : Int, rip : Ends, app : Objects \cup {0}]
UipApps == [packet_in : BOOLEAN, packet_out : BOOLEAN, in_size : Nat, in_pos : Nat,
            out_pos : 0 .. BufSize, send : BOOLEAN]
UipHeard == [from : Ends, data : Seq(UnitSet), read : Seq(UnitSet), clean : BOOLEAN, alone : BOOLEAN]
UipPackets == [to : Ends, data : Seq(UnitSet), clean : BOOLEAN, times : 0 .. 2, arp : BOOLEAN]
Holders == {"in", "out"} \X (Objects \cup {0})
Arrays == {a \in Seq(UnitSet) : Len(a) = BufSize}

UipStates ==
  [conns : [Uip!Slots -> UipConns], slot : [Objects -> 0 .. UdpConns], app : [Objects -> UipApps],
   myData : Arrays, holder : Holders, cur : [Objects -> UipHeard], out : [Objects -> UipPackets],
   ins : Nat, outs : Nat]

\* An entry in use is its object's, and an object's entry is in use.
Table(u) ==
  /\ \A o \in Objects : u.slot[o] # 0 => u.conns[u.slot[o]].app = o /\ u.conns[u.slot[o]].lport # 0
  /\ \A s \in Uip!Slots : u.conns[s].lport # 0 => u.conns[s].app \in Objects /\ u.slot[u.conns[s].app] = s

\* An object without an entry does nothing.
Quiet(u, o) ==
  u.slot[o] = 0 => /\ ~u.app[o].packet_in /\ ~u.app[o].packet_out
                   /\ ~u.app[o].send /\ u.app[o].in_size = 0

\* What the array holds of the datagram the object is reading, and who sent it
Reading(u, o) ==
  LET a == u.app[o]
      c == u.cur[o]
  IN  /\ c.clean /\ u.holder = <<"in", o>> =>
           /\ Len(c.data) <= BufSize /\ Len(c.read) <= Len(c.data)
           /\ \A i \in 1 .. Len(c.data) : u.myData[i] = c.data[i]
           /\ \A i \in 1 .. Len(c.read) : c.read[i] = c.data[i]
           /\ a.packet_in => /\ a.in_pos = Len(c.read) /\ a.in_pos + a.in_size = Len(c.data)
                             /\ Len(c.data) # 0 => a.in_size # 0
      /\ a.in_size # 0 /\ c.from # 0 => u.conns[u.slot[o]].rip = c.from

\* What the array holds of the packet the object is writing, and where it goes
Writing(u, o) ==
  LET a == u.app[o]
      p == u.out[o]
  IN  /\ a.send => a.packet_out
      /\ p.times > 1 => p.arp
      /\ a.packet_out =>
           /\ p.times > 0 => p.arp
           /\ p.to # 0 /\ u.conns[u.slot[o]].rip = p.to
           /\ Len(p.data) = a.out_pos
           /\ p.clean /\ Uip!Undisturbed(u, o) => \A i \in 1 .. a.out_pos : u.myData[i] = p.data[i]

Sound(u, o) == Quiet(u, o) /\ Reading(u, o) /\ Writing(u, o)
Fine(u) == u \in UipStates /\ Table(u) /\ \A o \in Objects : Sound(u, o)

\* What was received has come.
Got(u, o) == u.app[o].in_pos + u.app[o].in_size
Counts(u) == u.ins <= MaxIn /\ \A o \in Objects : Got(u, o) <= u.ins * BufSize

UipInv == Fine(udp) /\ Counts(udp)

LEMMA Stores ==
  ASSUME NEW u \in UipStates, NEW pos \in Nat, NEW data \in Seq(UnitSet), NEW h \in Holders,
         pos + Len(data) <= BufSize
  PROVE  /\ Uip!Store(u, pos, data, h) \in UipStates
         /\ LET v == Uip!Store(u, pos, data, h) IN
            /\ v.conns = u.conns /\ v.slot = u.slot /\ v.app = u.app /\ v.cur = u.cur /\ v.out = u.out
            /\ v.ins = u.ins /\ v.outs = u.outs /\ v.holder = h
            /\ \A i \in 1 .. BufSize :
                 v.myData[i] = IF i <= pos \/ i > pos + Len(data) THEN u.myData[i] ELSE data[i - pos]
<1> DEFINE a == u.myData
           l == SubSeq(a, 1, pos)
           r == SubSeq(a, pos + Len(data) + 1, BufSize)
           b == l \o data \o r
<1>1. a \in Seq(UnitSet) /\ Len(a) = BufSize /\ BufSize \in Nat /\ Len(data) \in Nat
  BY Numbers, LenProperties DEF UipStates, Arrays
<1>2. l \in Seq(UnitSet) /\ Len(l) = pos /\ \A i \in 1 .. pos : l[i] = a[i]
  <2>1. pos <= Len(a) /\ pos - 1 + 1 = pos
    BY <1>1
  <2> QED BY <1>1, <2>1, Part
<1>3. /\ r \in Seq(UnitSet) /\ Len(r) = BufSize - pos - Len(data)
      /\ \A i \in 1 .. BufSize - pos - Len(data) : r[i] = a[pos + Len(data) + i]
  <2>1. pos + Len(data) + 1 \in Nat \ {0} /\ BufSize <= Len(a)
    BY <1>1
  <2> DEFINE k == pos + Len(data) + 1
  <2>2. k \in Nat \ {0}
    BY <2>1
  <2> HIDE DEF k
  <2>3. /\ SubSeq(a, k, BufSize) \in Seq(UnitSet)
        /\ Len(SubSeq(a, k, BufSize)) = (IF k <= BufSize THEN BufSize - k + 1 ELSE 0)
        /\ \A i \in 1 .. BufSize - k + 1 : SubSeq(a, k, BufSize)[i] = a[k + i - 1]
    BY <1>1, <2>1, <2>2, Part
  <2>4. r = SubSeq(a, k, BufSize)
    BY DEF k
  <2> HIDE DEF r
  <2>5. r \in Seq(UnitSet) /\ Len(r) = BufSize - pos - Len(data)
    <3>1. (IF k <= BufSize THEN BufSize - k + 1 ELSE 0) = BufSize - pos - Len(data)
      BY <1>1 DEF k
    <3> QED BY <2>3, <2>4, <3>1
  <2>6. ASSUME NEW i \in 1 .. BufSize - pos - Len(data) PROVE r[i] = a[pos + Len(data) + i]
    <3>1. i \in 1 .. BufSize - k + 1 /\ k + i - 1 = pos + Len(data) + i
      BY <1>1 DEF k
    <3>2. r[i] = a[k + i - 1]
      BY <2>3, <2>4, <3>1, Zenon
    <3> QED BY <3>1, <3>2
  <2> QED BY <2>5, <2>6
<1> HIDE DEF l, r
<1>4. /\ b \in Seq(UnitSet) /\ Len(b) = BufSize
      /\ \A i \in 1 .. BufSize : b[i] = IF i <= pos \/ i > pos + Len(data) THEN a[i] ELSE data[i - pos]
  <2>1. /\ l \o data \in Seq(UnitSet) /\ Len(l \o data) = pos + Len(data)
        /\ \A i \in 1 .. pos + Len(data) : (l \o data)[i] = IF i <= pos THEN l[i] ELSE data[i - pos]
    <3>1. pos + Len(data) \in Nat /\ pos + Len(data) = Len(l) + Len(data)
      BY <1>1, <1>2
    <3>2. /\ l \o data \in Seq(UnitSet) /\ Len(l \o data) = pos + Len(data)
          /\ \A i \in 1 .. pos + Len(data) : (l \o data)[i] = IF i <= Len(l) THEN l[i] ELSE data[i - Len(l)]
      BY <1>2, <3>1, Joined
    <3> QED BY <1>2, <3>2
  <2> DEFINE m == l \o data
  <2> HIDE DEF m
  <2>2. /\ b \in Seq(UnitSet) /\ Len(b) = BufSize
        /\ \A i \in 1 .. BufSize : b[i] = IF i <= pos + Len(data) THEN m[i] ELSE r[i - (pos + Len(data))]
    <3>1. m \in Seq(UnitSet) /\ Len(m) = pos + Len(data) /\ BufSize = Len(m) + Len(r)
      BY <1>1, <1>3, <2>1 DEF m
    <3>2. /\ m \o r \in Seq(UnitSet) /\ Len(m \o r) = BufSize
          /\ \A i \in 1 .. BufSize : (m \o r)[i] = IF i <= Len(m) THEN m[i] ELSE r[i - Len(m)]
      <4>1. r \in Seq(UnitSet) /\ BufSize \in Nat
        BY <1>1, <1>3
      <4> QED BY <3>1, <4>1, Joined, ZenonT(40)
    <3>3. b = m \o r
      BY DEF m
    <3> HIDE DEF b
    <3> QED BY <3>1, <3>2, <3>3, SMTT(30)
  <2> HIDE DEF b
  <2>3. ASSUME NEW i \in 1 .. BufSize
        PROVE  b[i] = IF i <= pos \/ i > pos + Len(data) THEN a[i] ELSE data[i - pos]
    <3>1. CASE i <= pos
      BY <1>1, <1>2, <2>1, <2>2, <3>1 DEF m
    <3>2. CASE i > pos + Len(data)
      <4>1. i - (pos + Len(data)) \in 1 .. BufSize - pos - Len(data) /\ pos + Len(data) + (i - (pos + Len(data))) = i
        BY <1>1, <3>2
      <4>2. b[i] = r[i - (pos + Len(data))]
        BY <1>1, <2>2, <3>2
      <4>3. r[i - (pos + Len(data))] = a[i]
        BY <1>3, <4>1
      <4> QED BY <3>2, <4>2, <4>3
    <3>3. CASE i > pos /\ i <= pos + Len(data)
      <4>1. i \in 1 .. pos + Len(data) /\ ~(i <= pos) /\ ~(i > pos + Len(data))
        BY <1>1, <3>3
      <4>2. b[i] = m[i] /\ m[i] = data[i - pos]
        BY <2>1, <2>2, <3>3, <4>1 DEF m
      <4> QED BY <4>1, <4>2
    <3> QED BY <1>1, <3>1, <3>2, <3>3
  <2> QED BY <2>2, <2>3
<1> HIDE DEF b
<1>5. Uip!Store(u, pos, data, h) = [u EXCEPT !.myData = b, !.holder = h]
  BY DEF Uip!Store, b, l, r
<1>6. b \in Arrays
  BY <1>4 DEF Arrays
<1> HIDE DEF a
<1> QED BY <1>4, <1>5, <1>6, ZenonT(40) DEF UipStates, a

\* What is in the array
LEMMA FromIs ==
  ASSUME NEW u \in UipStates, NEW pos \in Nat, NEW n \in Nat
  PROVE  /\ Uip!From(u, pos, n) \in Seq(UnitSet) /\ Len(Uip!From(u, pos, n)) = n
         /\ pos + n <= BufSize => \A i \in 1 .. n : Uip!From(u, pos, n)[i] = u.myData[pos + i]
<1> DEFINE a == u.myData
           m == IF pos + n < BufSize THEN pos + n ELSE BufSize
           l == SubSeq(a, pos + 1, m)
           r == [i \in 1 .. n - Len(l) |-> Uip!Junk]
<1>1. a \in Seq(UnitSet) /\ Len(a) = BufSize /\ BufSize \in Nat /\ m \in Nat /\ m <= Len(a)
  BY Numbers DEF UipStates, Arrays
<1>2. /\ l \in Seq(UnitSet) /\ Len(l) = (IF pos + 1 <= m THEN m - pos ELSE 0)
      /\ \A i \in 1 .. m - pos : l[i] = a[pos + i]
  <2> HIDE DEF m
  <2> DEFINE k == pos + 1
  <2>1. k \in Nat \ {0}
    OBVIOUS
  <2> HIDE DEF k
  <2>2. /\ SubSeq(a, k, m) \in Seq(UnitSet) /\ Len(SubSeq(a, k, m)) = (IF k <= m THEN m - k + 1 ELSE 0)
        /\ \A i \in 1 .. m - k + 1 : SubSeq(a, k, m)[i] = a[k + i - 1]
    <3>1. \A s \in Seq(UnitSet), x \in Nat \ {0}, y \in Nat : y <= Len(s) =>
            /\ SubSeq(s, x, y) \in Seq(UnitSet)
            /\ Len(SubSeq(s, x, y)) = (IF x <= y THEN y - x + 1 ELSE 0)
            /\ \A i \in 1 .. y - x + 1 : SubSeq(s, x, y)[i] = s[x + i - 1]
      BY Part, Zenon
    <3> HIDE DEF a
    <3> QED BY <1>1, <2>1, <3>1, ZenonT(40)
  <2>3. l = SubSeq(a, k, m)
    BY DEF k
  <2> HIDE DEF l
  <2> QED BY <1>1, <2>2, <2>3, SMTT(30) DEF k
<1> HIDE DEF l
<1>3. Len(l) \in Nat /\ Len(l) <= n /\ (pos + n <= BufSize => Len(l) = n)
  BY <1>1, <1>2
<1>4. r \in Seq(UnitSet) /\ Len(r) = n - Len(l)
  <2>1. Uip!Junk \in UnitSet
    BY SMTT(30) DEF Uip!Junk, UnitSet
  <2>2. n - Len(l) \in Nat
    BY <1>3, SMTT(30)
  <2> QED BY <2>1, <2>2, IsASeq, LenProperties
<1> HIDE DEF r
<1>5. /\ l \o r \in Seq(UnitSet) /\ Len(l \o r) = n
      /\ \A i \in 1 .. n : (l \o r)[i] = IF i <= Len(l) THEN l[i] ELSE r[i - Len(l)]
  <2>1. n = Len(l) + Len(r)
    BY <1>3, <1>4
  <2> QED BY <1>2, <1>4, <2>1, Joined, ZenonT(40)
<1>6. Uip!From(u, pos, n) = l \o r
  BY DEF Uip!From, Uip!Smaller, l, r
<1>7. pos + n <= BufSize => \A i \in 1 .. n : (l \o r)[i] = a[pos + i]
  <2> SUFFICES ASSUME pos + n <= BufSize, NEW i \in 1 .. n PROVE (l \o r)[i] = a[pos + i]
    BY Zenon
  <2>1. i <= Len(l) /\ i \in 1 .. m - pos
    BY <1>1, <1>3
  <2>2. (l \o r)[i] = l[i] /\ l[i] = a[pos + i]
    BY <1>2, <1>5, <2>1, ZenonT(40)
  <2> QED BY <2>2
<1> QED BY <1>5, <1>6, <1>7, SMTT(30)

LEMMA Typed ==
  ASSUME NEW u \in UipStates
  PROVE  /\ u.conns \in [Uip!Slots -> UipConns] /\ u.slot \in [Objects -> 0 .. UdpConns]
         /\ u.app \in [Objects -> UipApps] /\ u.myData \in Arrays /\ u.holder \in Holders
         /\ u.cur \in [Objects -> UipHeard] /\ u.out \in [Objects -> UipPackets]
         /\ u.ins \in Nat /\ u.outs \in Nat
BY DEF UipStates

\* What others do does not disturb an object.
LEMMA Others ==
  ASSUME NEW u, NEW v, NEW x \in Objects, Sound(u, x),
         v.slot[x] = u.slot[x], v.app[x] = u.app[x], v.cur[x] = u.cur[x], v.out[x] = u.out[x],
         u.app[x].in_size # 0 \/ u.app[x].packet_out => v.conns[v.slot[x]].rip = u.conns[u.slot[x]].rip,
         \/ v.holder = u.holder /\ v.myData = u.myData
         \/ v.holder # <<"in", x>> /\ v.holder # <<"out", x>>
  PROVE  Sound(v, x)
<1>1. Quiet(v, x)
  BY SMTT(30) DEF Sound, Quiet
<1>2. Reading(v, x)
  BY DEF Sound, Reading
<1>3. Writing(v, x)
  <2>1. Len(<< >>) = 0
    BY EmptySeq
  <2> QED BY <2>1 DEF Sound, Writing, Uip!Undisturbed
<1> QED BY <1>1, <1>2, <1>3 DEF Sound

\* A step that changes what is one object's, and nobody's entry
LEMMA OnlyOwn ==
  ASSUME NEW u, Fine(u), NEW v \in UipStates, NEW o \in Objects, Sound(v, o), v.slot = u.slot,
         \A x \in Objects : x # o => v.app[x] = u.app[x] /\ v.cur[x] = u.cur[x] /\ v.out[x] = u.out[x],
         \A s \in Uip!Slots : /\ v.conns[s].app = u.conns[s].app
                              /\ v.conns[s].lport # 0 <=> u.conns[s].lport # 0
                              /\ s # u.slot[o] => v.conns[s].rip = u.conns[s].rip,
         \/ v.holder = u.holder /\ v.myData = u.myData
         \/ v.holder \in {<<"in", o>>, <<"out", o>>}
  PROVE  Fine(v)
<1>1. u.slot \in [Objects -> 0 .. UdpConns] /\ UdpConns \in Nat /\ u \in UipStates
  BY Typed, Numbers DEF Fine
<1>2. \A x \in Objects : u.slot[x] # 0 => u.slot[x] \in Uip!Slots
  BY <1>1, SMTT(30) DEF Uip!Slots
<1>3. Table(v)
  BY <1>1, <1>2 DEF Fine, Table
<1>4. ASSUME NEW x \in Objects, x # o PROVE Sound(v, x)
  <2>1. CASE u.slot[x] = 0
    <3>1. ~(u.app[x].in_size # 0 \/ u.app[x].packet_out)
      BY <2>1, SMTT(30) DEF Fine, Sound, Quiet
    <3> QED BY <1>4, <3>1, Others DEF Fine
  <2>2. CASE u.slot[x] # 0
    <3>1. u.slot[x] # u.slot[o]
      BY <1>4, <2>2 DEF Fine, Table
    <3>2. v.conns[v.slot[x]].rip = u.conns[u.slot[x]].rip
      BY <1>2, <2>2, <3>1
    <3> QED BY <1>4, <3>2, Others, SMTT(30) DEF Fine
  <2> QED BY <2>1, <2>2
<1> QED BY <1>3, <1>4 DEF Fine

Changed(u, conns, slot, app, cur, out) ==
  [u EXCEPT !.conns = conns, !.slot = slot, !.app = app, !.cur = cur, !.out = out]

LEMMA Fields ==
  ASSUME NEW u \in UipStates, NEW conns \in [Uip!Slots -> UipConns], NEW slot \in [Objects -> 0 .. UdpConns],
         NEW app \in [Objects -> UipApps], NEW cur \in [Objects -> UipHeard], NEW out \in [Objects -> UipPackets]
  PROVE  LET v == Changed(u, conns, slot, app, cur, out) IN
         /\ v \in UipStates
         /\ v.conns = conns /\ v.slot = slot /\ v.app = app /\ v.cur = cur /\ v.out = out
         /\ v.myData = u.myData /\ v.holder = u.holder /\ v.ins = u.ins /\ v.outs = u.outs
BY Zenon DEF Changed, UipStates

\* An object's own part of the state
LEMMA Part1 ==
  ASSUME NEW S, NEW f \in [Objects -> S], NEW o \in Objects, NEW e \in S
  PROVE  /\ [f EXCEPT ![o] = e] \in [Objects -> S] /\ [f EXCEPT ![o] = e][o] = e
         /\ \A x \in Objects : x # o => [f EXCEPT ![o] = e][x] = f[x]
OBVIOUS

\* A packet that was sent
LEMMA Repeats ==
  ASSUME NEW r \in UipPackets, NEW b \in BOOLEAN
  PROVE  LET p == [r EXCEPT !.times = Uip!Smaller(@ + 1, 2), !.arp = b] IN
         /\ p \in UipPackets /\ p.to = r.to /\ p.data = r.data /\ p.clean = r.clean
         /\ p.times = (IF r.times + 1 < 2 THEN r.times + 1 ELSE 2)
         /\ p.arp = b
<1> DEFINE t == Uip!Smaller(r.times + 1, 2)
           p == [r EXCEPT !.times = t, !.arp = b]
<1>1. r.times \in 0 .. 2
  BY DEF UipPackets
<1>2. t \in 0 .. 2 /\ t = (IF r.times + 1 < 2 THEN r.times + 1 ELSE 2)
  BY <1>1 DEF Uip!Smaller
<1> HIDE DEF t
<1>3. p \in UipPackets /\ p.to = r.to /\ p.data = r.data /\ p.clean = r.clean /\ p.times = t /\ p.arp = b
  BY <1>2, Zenon DEF UipPackets
<1> QED BY <1>2, <1>3 DEF t

\* A poll of one connection
LEMMA Polls ==
  ASSUME NEW u, Fine(u), NEW o \in Objects
  PROVE  LET v == Uip!Poll(u, o) IN
         /\ Fine(v) /\ v.ins = u.ins /\ v.conns = u.conns /\ v.slot = u.slot /\ v.cur = u.cur
         /\ v.myData = u.myData /\ v.holder = u.holder /\ v.outs = u.outs
         /\ \A x \in Objects : x # o => v.app[x] = u.app[x] /\ v.out[x] = u.out[x]
         /\ \A x \in Objects : Got(v, x) = Got(u, x)
<1> DEFINE v == Uip!Poll(u, o)
           done == u.app[o].out_pos # ArpPayload
           a == [u.app[o] EXCEPT !.send = ~done, !.packet_out = ~done]
           p == [u.out[o] EXCEPT !.times = Uip!Smaller(@ + 1, 2), !.arp = u.out[o].arp \/ ~done]
<1>1. /\ u \in UipStates /\ u.conns \in [Uip!Slots -> UipConns] /\ u.slot \in [Objects -> 0 .. UdpConns]
      /\ u.app \in [Objects -> UipApps] /\ u.out \in [Objects -> UipPackets] /\ u.cur \in [Objects -> UipHeard]
      /\ u.app[o] \in UipApps /\ u.out[o] \in UipPackets
  BY Typed DEF Fine
<1>2. CASE ~Uip!HasPacket(u, o)
  BY <1>2 DEF Uip!Poll
<1>3. CASE Uip!HasPacket(u, o)
  <2>1. v = [u EXCEPT !.app = [u.app EXCEPT ![o] = a], !.out = [u.out EXCEPT ![o] = p]]
    <3>1. v = Uip!Transmit(u, o)
      BY <1>3 DEF Uip!Poll
    <3>2. Uip!Transmit(u, o) = [u EXCEPT !.app = [u.app EXCEPT ![o] = a], !.out = [u.out EXCEPT ![o] = p]]
      BY Zenon DEF Uip!Transmit
    <3> HIDE DEF v, a, p
    <3> QED BY <3>1, <3>2
  <2>0. done \in BOOLEAN
    OBVIOUS
  <2> HIDE DEF done
  <2>2. /\ a \in UipApps /\ a.send = ~done /\ a.packet_out = ~done /\ a.packet_in = u.app[o].packet_in
        /\ a.in_size = u.app[o].in_size /\ a.in_pos = u.app[o].in_pos /\ a.out_pos = u.app[o].out_pos
    BY <1>1, <2>0, Zenon DEF UipApps
  <2>3. /\ p \in UipPackets /\ p.to = u.out[o].to /\ p.data = u.out[o].data /\ p.clean = u.out[o].clean
        /\ p.times = (IF u.out[o].times + 1 < 2 THEN u.out[o].times + 1 ELSE 2)
        /\ p.arp = (u.out[o].arp \/ ~done)
    <3>1. (u.out[o].arp \/ ~done) \in BOOLEAN
      OBVIOUS
    <3> QED BY <1>1, <3>1, Repeats, ZenonT(40)
  <2> HIDE DEF a, p
  <2> DEFINE fa == [u.app EXCEPT ![o] = a]
             fp == [u.out EXCEPT ![o] = p]
  <2>4. /\ fa \in [Objects -> UipApps] /\ fa[o] = a /\ \A x \in Objects : x # o => fa[x] = u.app[x]
        /\ fp \in [Objects -> UipPackets] /\ fp[o] = p /\ \A x \in Objects : x # o => fp[x] = u.out[x]
    BY <1>1, <2>2, <2>3, Part1
  <2> HIDE DEF fa, fp
  <2>5. /\ v \in UipStates /\ v.ins = u.ins /\ v.conns = u.conns /\ v.slot = u.slot /\ v.cur = u.cur
        /\ v.myData = u.myData /\ v.holder = u.holder /\ v.outs = u.outs /\ v.app = fa /\ v.out = fp
    <3>1. v = [u EXCEPT !.app = fa, !.out = fp]
      BY <2>1 DEF fa, fp
    <3> HIDE DEF v
    <3>2. v = Changed(u, u.conns, u.slot, fa, u.cur, fp)
      BY <1>1, <3>1, Zenon DEF Changed, UipStates
    <3> QED BY <1>1, <2>4, <3>2, Fields, SMTT(30)
  <2> HIDE DEF v
  <2>6. u.out[o].times \in 0 .. 2 /\ u.app[o].send
    BY <1>1, <1>3 DEF UipPackets, Uip!HasPacket
  <2>7. Quiet(u, o) /\ Reading(u, o) /\ Writing(u, o)
    BY SMTT(30) DEF Fine, Sound
  <2>8. Quiet(v, o)
    BY <1>3, <2>5, SMTT(30) DEF Uip!HasPacket, Quiet
  <2>9. Reading(v, o)
    BY <2>2, <2>4, <2>5, <2>7, SMTT(30) DEF Reading
  <2>10. Writing(v, o)
    <3>1. u.app[o].packet_out /\ (u.out[o].times > 0 => u.out[o].arp)
      BY <2>6, <2>7 DEF Writing
    <3>2. u.out[o].arp \/ ~done => p.arp
      BY Zenon, <2>3
    <3>3. p.times > 1 => p.arp
      BY <2>3, <2>6, <3>1, <3>2
    <3>4. a.packet_out => p.arp
      BY <2>2, <3>2, Zenon
    <3> QED BY <2>2, <2>3, <2>4, <2>5, <2>7, <3>1, <3>3, <3>4 DEF Writing, Uip!Undisturbed
  <2>11. Fine(v)
    <3>1. /\ \A x \in Objects : x # o => v.app[x] = u.app[x] /\ v.cur[x] = u.cur[x] /\ v.out[x] = u.out[x]
          /\ v.slot = u.slot /\ v.conns = u.conns /\ v.holder = u.holder /\ v.myData = u.myData
      BY <2>4, <2>5
    <3>2. Sound(v, o)
      BY <2>8, <2>9, <2>10 DEF Sound
    <3> QED BY <2>5, <3>1, <3>2, OnlyOwn
  <2>12. \A x \in Objects : Got(v, x) = Got(u, x)
    <3>1. \A x \in Objects : v.app[x].in_pos = u.app[x].in_pos /\ v.app[x].in_size = u.app[x].in_size
      BY <2>2, <2>4, <2>5, ZenonT(40)
    <3> QED BY <3>1, ZenonT(40) DEF Got
  <2> QED BY <2>4, <2>5, <2>11, <2>12 DEF v
<1> QED BY <1>2, <1>3

LEMMA PollsAll ==
  ASSUME NEW u, Fine(u)
  PROVE  LET v == Uip!PollAll(u) IN
         /\ Fine(v) /\ v.ins = u.ins /\ v.outs = u.outs
         /\ \A x \in Objects : Got(v, x) = Got(u, x)
<1> DEFINE v == Uip!PollAll(u)
           fa == [o \in Objects |-> Uip!Poll(u, o).app[o]]
           fp == [o \in Objects |-> Uip!Poll(u, o).out[o]]
<1>1. /\ u \in UipStates /\ u.conns \in [Uip!Slots -> UipConns] /\ u.slot \in [Objects -> 0 .. UdpConns]
      /\ u.cur \in [Objects -> UipHeard]
  BY Typed DEF Fine
<1>2. ASSUME NEW x \in Objects
      PROVE  /\ fa[x] \in UipApps /\ fp[x] \in UipPackets
             /\ fa[x].in_pos + fa[x].in_size = Got(u, x)
             /\ LET w == Uip!Poll(u, x) IN
                /\ Sound(w, x) /\ w.app[x] = fa[x] /\ w.out[x] = fp[x] /\ w.cur = u.cur /\ w.slot = u.slot
                /\ w.conns = u.conns /\ w.myData = u.myData /\ w.holder = u.holder
  <2> DEFINE w == Uip!Poll(u, x)
  <2>1. /\ Fine(w) /\ w.cur = u.cur /\ w.slot = u.slot
        /\ w.conns = u.conns /\ w.myData = u.myData /\ w.holder = u.holder
        /\ Got(w, x) = Got(u, x)
    BY Polls
  <2>2. w.app[x] = fa[x] /\ w.out[x] = fp[x]
    OBVIOUS
  <2> HIDE DEF w
  <2>3. w.app \in [Objects -> UipApps] /\ w.out \in [Objects -> UipPackets] /\ Sound(w, x)
    BY <2>1, Typed DEF Fine
  <2> HIDE DEF fa, fp
  <2>4. fa[x] \in UipApps /\ fp[x] \in UipPackets
    BY <2>2, <2>3
  <2>5. fa[x].in_pos + fa[x].in_size = Got(u, x)
    BY <2>1, <2>2 DEF Got
  <2> QED BY <2>1, <2>2, <2>3, <2>4, <2>5 DEF w
<1>3. fa \in [Objects -> UipApps] /\ fp \in [Objects -> UipPackets]
  BY <1>2
<1>4. v = [u EXCEPT !.app = fa, !.out = fp]
  BY Zenon DEF Uip!PollAll
<1> HIDE DEF v, fa, fp
<1>5. /\ v \in UipStates /\ v.ins = u.ins /\ v.conns = u.conns /\ v.slot = u.slot /\ v.cur = u.cur
      /\ v.myData = u.myData /\ v.holder = u.holder /\ v.outs = u.outs /\ v.app = fa /\ v.out = fp
  <2>1. v = Changed(u, u.conns, u.slot, fa, u.cur, fp)
    BY <1>1, <1>4, Zenon DEF Changed, UipStates
  <2> QED BY <1>1, <1>3, <2>1, Fields
<1>6. ASSUME NEW x \in Objects PROVE Sound(v, x)
  <2> DEFINE w == Uip!Poll(u, x)
  <2>1. /\ Sound(w, x) /\ w.app[x] = fa[x] /\ w.out[x] = fp[x] /\ w.cur = u.cur /\ w.slot = u.slot
        /\ w.conns = u.conns /\ w.myData = u.myData /\ w.holder = u.holder
    BY <1>2
  <2> HIDE DEF w
  <2>2. /\ v.slot[x] = w.slot[x] /\ v.app[x] = w.app[x] /\ v.cur[x] = w.cur[x] /\ v.out[x] = w.out[x]
        /\ v.conns[v.slot[x]].rip = w.conns[w.slot[x]].rip /\ v.holder = w.holder /\ v.myData = w.myData
    BY <1>5, <2>1
  <2> QED BY <2>1, <2>2, Others, Zenon
<1>7. Table(v)
  BY <1>5 DEF Fine, Table
<1>8. \A x \in Objects : Got(v, x) = Got(u, x)
  BY <1>2, <1>5, Zenon DEF Got
<1> QED BY <1>5, <1>6, <1>7, <1>8 DEF Fine, v

LEMMA LeastOf ==
  ASSUME NEW S \in SUBSET Nat, S # {}
  PROVE  Uip!Min(S) \in S
<1>1. \E x \in S : \A y \in S : x <= y
  BY Least, Zenon
<1> QED BY <1>1, Zenon DEF Uip!Min

\* A datagram comes in.
LEMMA Receives ==
  ASSUME NEW u, Fine(u), NEW d, d.from \in Peers, d.data \in Seq(UnitSet)
  PROVE  LET v == Uip!Receive(u, d) IN
         /\ Fine(v) /\ v.ins = u.ins /\ v.outs = u.outs
         /\ \A x \in Objects : Got(v, x) <= Got(u, x) + BufSize
<1> DEFINE v == Uip!Receive(u, d)
           found == {s \in Uip!Slots : Uip!Hears(u, s, d)}
           s == Uip!Min(found)
           o == u.conns[s].app
           data == Cut(d.data)
           fresh == u.app[o].in_size = 0
           w == Uip!Store(u, 0, data, <<"in", o>>)
           c == [w.conns[s] EXCEPT !.rip = d.from]
           a == [u.app[o] EXCEPT !.in_size = @ + Len(data), !.packet_in = TRUE]
           h == [from |-> d.from, data |-> data, read |-> << >>, alone |-> fresh,
                 clean |-> fresh /\ u.app[o].in_pos = 0]
<1>1. /\ u \in UipStates /\ u.conns \in [Uip!Slots -> UipConns] /\ u.slot \in [Objects -> 0 .. UdpConns]
      /\ u.app \in [Objects -> UipApps] /\ u.out \in [Objects -> UipPackets] /\ u.cur \in [Objects -> UipHeard]
      /\ BufSize \in Nat /\ UdpConns \in Nat
  BY Typed, Numbers DEF Fine
<1>2. \A x \in Objects : Got(u, x) \in Nat
  BY <1>1, SMTT(30) DEF UipApps, Got
<1>3. CASE found = {}
  <2>1. v = u
    BY <1>3 DEF Uip!Receive
  <2> QED BY <1>1, <1>2, <2>1
<1>4. CASE found # {}
  <2>1. s \in Uip!Slots /\ Uip!Hears(u, s, d)
    <3>1. found \in SUBSET Nat
      BY <1>1 DEF Uip!Slots
    <3>2. s \in found
      BY <1>4, <3>1, LeastOf, Zenon
    <3> QED BY <3>2
  <2> HIDE DEF s
  <2>2. o \in Objects /\ u.slot[o] = s /\ (u.conns[s].rip = 0 \/ u.conns[s].rip = d.from)
    BY <2>1 DEF Uip!Hears, Uip!Anyone, Fine, Table
  <2> HIDE DEF o
  <2>3. data \in Seq(UnitSet) /\ Len(data) \in Nat /\ Len(data) <= BufSize
    BY CutFits, SMTT(30)
  <2>4. v = [w EXCEPT !.conns[s] = [@ EXCEPT !.rip = d.from],
                      !.app[o] = [u.app[o] EXCEPT !.in_size = @ + Len(data), !.packet_in = TRUE],
                      !.cur[o] = h]
    BY <1>4, Zenon DEF Uip!Receive, Uip!Smaller, Cut, o, s
  <2> HIDE DEF data
  <2>5. /\ w \in UipStates
        /\ w.conns = u.conns /\ w.slot = u.slot /\ w.app = u.app /\ w.cur = u.cur /\ w.out = u.out
        /\ w.ins = u.ins /\ w.outs = u.outs /\ w.holder = <<"in", o>>
        /\ \A i \in 1 .. Len(data) : w.myData[i] = data[i]
    <3>1. <<"in", o>> \in Holders /\ 0 + Len(data) <= BufSize /\ 0 \in Nat
      BY <2>2, <2>3 DEF Holders
    <3>2. /\ w \in UipStates
          /\ w.conns = u.conns /\ w.slot = u.slot /\ w.app = u.app /\ w.cur = u.cur /\ w.out = u.out
          /\ w.ins = u.ins /\ w.outs = u.outs /\ w.holder = <<"in", o>>
          /\ \A i \in 1 .. BufSize :
               w.myData[i] = IF i <= 0 \/ i > 0 + Len(data) THEN u.myData[i] ELSE data[i - 0]
      <4>1. \A z \in Nat, k \in Holders : z + Len(data) <= BufSize =>
              LET t == Uip!Store(u, z, data, k) IN
              /\ t \in UipStates
              /\ t.conns = u.conns /\ t.slot = u.slot /\ t.app = u.app /\ t.cur = u.cur /\ t.out = u.out
              /\ t.ins = u.ins /\ t.outs = u.outs /\ t.holder = k
              /\ \A i \in 1 .. BufSize :
                   t.myData[i] = IF i <= z \/ i > z + Len(data) THEN u.myData[i] ELSE data[i - z]
        BY <1>1, <2>3, Stores
      <4> QED BY ZenonT(40), <3>1, <4>1
    <3> HIDE DEF w
    <3>3. ASSUME NEW i \in 1 .. Len(data) PROVE w.myData[i] = data[i]
      <4>1. i \in 1 .. BufSize /\ ~(i <= 0 \/ i > 0 + Len(data)) /\ i - 0 = i
        BY <1>1, <2>3
      <4> QED BY <3>2, <4>1
    <3> QED BY <3>2, <3>3
  <2> HIDE DEF w
  <2> DEFINE fc == [w.conns EXCEPT ![s] = c]
             fa == [w.app EXCEPT ![o] = a]
             fh == [w.cur EXCEPT ![o] = h]
  <2>6. v = [w EXCEPT !.conns = fc, !.app = fa, !.cur = fh]
    <3> HIDE DEF v, h
    <3> QED BY Zenon, <2>4
  <2>7. u.conns[s] \in UipConns /\ u.app[o] \in UipApps /\ d.from \in Ends /\ d.from # 0
    BY <1>1, <2>1, <2>2, Numbers DEF Ends
  <2>8. c \in UipConns /\ c.rip = d.from /\ c.app = u.conns[s].app /\ c.lport = u.conns[s].lport
    BY <2>5, <2>7 DEF UipConns
  <2>9. /\ a \in UipApps /\ a.in_size = u.app[o].in_size + Len(data) /\ a.packet_in /\ a.in_pos = u.app[o].in_pos
        /\ a.packet_out = u.app[o].packet_out /\ a.send = u.app[o].send /\ a.out_pos = u.app[o].out_pos
    <3> DEFINE n == u.app[o].in_size + Len(data)
    <3>1. u.app[o] \in UipApps /\ u.app[o].in_size \in Nat
      BY <2>7 DEF UipApps
    <3>2. n \in Nat
      BY <2>3, <3>1
    <3> HIDE DEF n
    <3>3. a = [u.app[o] EXCEPT !.in_size = n, !.packet_in = TRUE]
      BY DEF n
    <3>4. n = u.app[o].in_size + Len(data)
      BY <3>1 DEF n
    <3> HIDE DEF a
    <3> QED BY <3>1, <3>2, <3>3, <3>4, Zenon DEF UipApps
  <2>10. /\ h \in UipHeard /\ h.from = d.from /\ h.data = data /\ h.read = << >>
         /\ h.clean => u.app[o].in_size = 0 /\ u.app[o].in_pos = 0
    BY <2>3, <2>7, EmptySeq, Zenon DEF UipHeard
  <2> HIDE DEF c, a, h
  <2>11. /\ fc[s] = c /\ \A x \in Uip!Slots : x # s => fc[x] = u.conns[x]
         /\ fa[o] = a /\ \A x \in Objects : x # o => fa[x] = u.app[x]
         /\ fh[o] = h /\ \A x \in Objects : x # o => fh[x] = u.cur[x]
    BY <1>1, <2>1, <2>2, <2>5
  <2>0. fc \in [Uip!Slots -> UipConns] /\ fa \in [Objects -> UipApps] /\ fh \in [Objects -> UipHeard]
    BY <1>1, <2>1, <2>2, <2>5, <2>8, <2>9, <2>10
  <2> HIDE DEF fc, fa, fh
  <2>12. /\ v \in UipStates /\ v.ins = u.ins /\ v.outs = u.outs /\ v.conns = fc /\ v.slot = u.slot /\ v.app = fa
         /\ v.cur = fh /\ v.out = u.out /\ v.holder = <<"in", o>>
         /\ \A i \in 1 .. Len(data) : v.myData[i] = data[i]
    <3> HIDE DEF v
    <3>1. w \in UipStates
      BY <2>5
    <3>2. /\ v \in UipStates /\ v.conns = fc /\ v.slot = w.slot /\ v.app = fa /\ v.cur = fh /\ v.out = w.out
          /\ v.myData = w.myData /\ v.holder = w.holder /\ v.ins = w.ins /\ v.outs = w.outs
      BY <2>0, <2>6, <3>1, Zenon DEF UipStates
    <3> QED BY <2>5, <3>2
  <2> HIDE DEF v
  <2>13. Sound(u, o)
    BY <2>2 DEF Fine
  <2>14. Quiet(v, o)
    BY <1>1, <2>1, <2>2, <2>12, SMTT(30) DEF Quiet, Uip!Slots
  <2>15. Reading(v, o)
    <3>1. Len(<< >>) = 0
      BY EmptySeq, SMTT(30)
    <3> QED BY <2>2, <2>3, <2>8, <2>9, <2>10, <2>11, <2>12, <3>1, SMTT(30) DEF Reading
  <2>16. Writing(v, o)
    <3>1. Len(<< >>) = 0
      BY EmptySeq
    <3>2. Writing(u, o)
      BY <2>13 DEF Sound
    <3>3. u.app[o].packet_out => u.conns[s].rip = d.from
      BY <2>2, <3>2 DEF Writing
    <3> QED BY <2>2, <2>8, <2>9, <2>11, <2>12, <3>1, <3>2, <3>3 DEF Writing, Uip!Undisturbed
  <2>17. Fine(v)
    <3>1. Sound(v, o)
      BY <2>14, <2>15, <2>16 DEF Sound
    <3>2. \A x \in Objects : x # o => v.app[x] = u.app[x] /\ v.cur[x] = u.cur[x] /\ v.out[x] = u.out[x]
      BY <2>11, <2>12
    <3>3. \A x \in Uip!Slots : /\ v.conns[x].app = u.conns[x].app
                               /\ v.conns[x].lport # 0 <=> u.conns[x].lport # 0
                               /\ x # u.slot[o] => v.conns[x].rip = u.conns[x].rip
      BY <2>2, <2>8, <2>11, <2>12, ZenonT(40)
    <3> QED BY <2>2, <2>12, <3>1, <3>2, <3>3, OnlyOwn, ZenonT(40)
  <2>18. \A x \in Objects : Got(v, x) <= Got(u, x) + BufSize
    <3>1. ASSUME NEW x \in Objects PROVE Got(v, x) <= Got(u, x) + BufSize
      <4>1. CASE x = o
        <5>1. u.app[o].in_pos \in Nat /\ u.app[o].in_size \in Nat
          BY <2>7 DEF UipApps
        <5>2. v.app[o].in_pos = u.app[o].in_pos /\ v.app[o].in_size = u.app[o].in_size + Len(data)
          BY <2>9, <2>11, <2>12
        <5> QED BY <1>1, <2>3, <4>1, <5>1, <5>2, SMTT(30) DEF Got
      <4>2. CASE x # o
        <5>1. Got(v, x) = Got(u, x)
          BY <2>11, <2>12, <4>2 DEF Got
        <5> QED BY <1>1, <1>2, <5>1
      <4> QED BY <4>1, <4>2
    <3> QED BY <3>1, Zenon
  <2> QED BY <2>12, <2>17, <2>18 DEF v
<1> QED BY <1>3, <1>4

\* An object's own part of the state is replaced.
Own(u, o, a, h, p) == [u EXCEPT !.app[o] = a, !.cur[o] = h, !.out[o] = p]

LEMMA Owns ==
  ASSUME NEW u \in UipStates, NEW o \in Objects,
         NEW a \in UipApps, NEW h \in UipHeard, NEW p \in UipPackets
  PROVE  LET v == Own(u, o, a, h, p) IN
         /\ v \in UipStates /\ v.conns = u.conns /\ v.slot = u.slot
         /\ v.myData = u.myData /\ v.holder = u.holder /\ v.ins = u.ins /\ v.outs = u.outs
         /\ v.app[o] = a /\ v.cur[o] = h /\ v.out[o] = p
         /\ \A x \in Objects : x # o => v.app[x] = u.app[x] /\ v.cur[x] = u.cur[x] /\ v.out[x] = u.out[x]
<1> DEFINE v == Own(u, o, a, h, p)
           fa == [u.app EXCEPT ![o] = a]
           fh == [u.cur EXCEPT ![o] = h]
           fp == [u.out EXCEPT ![o] = p]
<1>1. /\ u.app \in [Objects -> UipApps] /\ u.cur \in [Objects -> UipHeard] /\ u.out \in [Objects -> UipPackets]
      /\ u.conns \in [Uip!Slots -> UipConns] /\ u.slot \in [Objects -> 0 .. UdpConns]
  BY Typed
<1>2. /\ fa \in [Objects -> UipApps] /\ fa[o] = a /\ \A x \in Objects : x # o => fa[x] = u.app[x]
      /\ fh \in [Objects -> UipHeard] /\ fh[o] = h /\ \A x \in Objects : x # o => fh[x] = u.cur[x]
      /\ fp \in [Objects -> UipPackets] /\ fp[o] = p /\ \A x \in Objects : x # o => fp[x] = u.out[x]
  BY <1>1, Part1
<1>3. v = [u EXCEPT !.app = fa, !.cur = fh, !.out = fp]
  BY ZenonT(40) DEF Own
<1> HIDE DEF v, fa, fh, fp
<1>4. v = Changed(u, u.conns, u.slot, fa, fh, fp)
  BY <1>1, <1>3, Zenon DEF Changed, UipStates
<1>5. /\ v \in UipStates /\ v.conns = u.conns /\ v.slot = u.slot /\ v.app = fa /\ v.cur = fh /\ v.out = fp
      /\ v.myData = u.myData /\ v.holder = u.holder /\ v.ins = u.ins /\ v.outs = u.outs
  BY <1>1, <1>2, <1>4, Fields, SMTT(30)
<1>6. /\ v \in UipStates /\ v.conns = u.conns /\ v.slot = u.slot
      /\ v.myData = u.myData /\ v.holder = u.holder /\ v.ins = u.ins /\ v.outs = u.outs
      /\ v.app[o] = a /\ v.cur[o] = h /\ v.out[o] = p
      /\ \A x \in Objects : x # o => v.app[x] = u.app[x] /\ v.cur[x] = u.cur[x] /\ v.out[x] = u.out[x]
  BY <1>2, <1>5
<1> QED BY <1>6, Zenon DEF v

LEMMA OwnForms ==
  ASSUME NEW u \in UipStates, NEW o \in Objects
  PROVE  /\ \A a \in UipApps : [u EXCEPT !.app[o] = a] = Own(u, o, a, u.cur[o], u.out[o])
         /\ \A a \in UipApps, h \in UipHeard :
              [u EXCEPT !.app[o] = a, !.cur[o] = h] = Own(u, o, a, h, u.out[o])
         /\ \A a \in UipApps, p \in UipPackets :
              [u EXCEPT !.app[o] = a, !.out[o] = p] = Own(u, o, a, u.cur[o], p)
         /\ \A h \in UipHeard, p \in UipPackets :
              [u EXCEPT !.cur[o] = h, !.out[o] = p] = Own(u, o, u.app[o], h, p)
<1>1. \A S, f, e : f \in [Objects -> S] => [f EXCEPT ![o] = f[o]] = f
  OBVIOUS
<1>2. /\ u.app \in [Objects -> UipApps] /\ u.cur \in [Objects -> UipHeard] /\ u.out \in [Objects -> UipPackets]
  BY Typed
<1>3. [u.app EXCEPT ![o] = u.app[o]] = u.app /\ [u.cur EXCEPT ![o] = u.cur[o]] = u.cur
      /\ [u.out EXCEPT ![o] = u.out[o]] = u.out
  BY <1>1, <1>2
<1>4. \A a \in UipApps : [u EXCEPT !.app[o] = a] = Own(u, o, a, u.cur[o], u.out[o])
  BY <1>3, ZenonT(40) DEF Own, UipStates
<1>5. \A a \in UipApps, h \in UipHeard :
        [u EXCEPT !.app[o] = a, !.cur[o] = h] = Own(u, o, a, h, u.out[o])
  BY <1>3, ZenonT(40) DEF Own, UipStates
<1>6. \A a \in UipApps, p \in UipPackets :
        [u EXCEPT !.app[o] = a, !.out[o] = p] = Own(u, o, a, u.cur[o], p)
  BY <1>3, ZenonT(40) DEF Own, UipStates
<1>7. \A h \in UipHeard, p \in UipPackets :
        [u EXCEPT !.cur[o] = h, !.out[o] = p] = Own(u, o, u.app[o], h, p)
  BY <1>3, ZenonT(40) DEF Own, UipStates
<1> QED BY <1>4, <1>5, <1>6, <1>7, Zenon

\* A step that changes what is one object's only
LEMMA OwnFine ==
  ASSUME NEW u, Fine(u), NEW o \in Objects,
         NEW a \in UipApps, NEW h \in UipHeard, NEW p \in UipPackets,
         LET v == Own(u, o, a, h, p) IN Quiet(v, o) /\ Reading(v, o) /\ Writing(v, o)
  PROVE  Fine(Own(u, o, a, h, p))
<1> DEFINE v == Own(u, o, a, h, p)
<1>1. /\ v \in UipStates /\ v.conns = u.conns /\ v.slot = u.slot
      /\ v.myData = u.myData /\ v.holder = u.holder
      /\ \A x \in Objects : x # o => v.app[x] = u.app[x] /\ v.cur[x] = u.cur[x] /\ v.out[x] = u.out[x]
  BY Owns DEF Fine
<1>2. Sound(v, o)
  BY DEF Sound
<1> HIDE DEF v
<1>3. Fine(v)
  BY <1>1, <1>2, OnlyOwn
<1> QED BY <1>3 DEF v

\* and nothing more counts as received.
LEMMA Accounts ==
  ASSUME NEW u \in UipStates, NEW v, NEW o \in Objects,
         v.app[o].in_pos + v.app[o].in_size <= u.app[o].in_pos + u.app[o].in_size,
         \A x \in Objects : x # o => v.app[x] = u.app[x]
  PROVE  \A x \in Objects : Got(v, x) <= Got(u, x)
<1>1. ASSUME NEW x \in Objects PROVE Got(u, x) \in Nat
  <2>1. u.app[x] \in UipApps
    BY Typed
  <2> QED BY <2>1 DEF UipApps, Got
<1>2. Got(v, o) <= Got(u, o)
  BY DEF Got
<1>3. ASSUME NEW x \in Objects, x # o PROVE Got(v, x) <= Got(u, x)
  <2>1. Got(v, x) = Got(u, x)
    BY <1>3 DEF Got
  <2> QED BY <1>1, <2>1
<1> QED BY ZenonT(40), <1>2, <1>3

LEMMA Flushes ==
  ASSUME NEW u, Fine(u), NEW o \in Objects
  PROVE  LET v == Uip!Flush(u, o) IN
         /\ Fine(v) /\ v.ins = u.ins /\ \A x \in Objects : Got(v, x) <= Got(u, x)
<1> DEFINE v == Uip!Flush(u, o)
           a == [u.app[o] EXCEPT !.packet_in = FALSE, !.in_size = 0]
<1>1. /\ u \in UipStates /\ u.app \in [Objects -> UipApps] /\ u.out \in [Objects -> UipPackets]
      /\ u.cur \in [Objects -> UipHeard] /\ u.app[o] \in UipApps /\ Sound(u, o)
  BY Typed DEF Fine
<1>2. /\ a \in UipApps /\ ~a.packet_in /\ a.in_size = 0 /\ a.in_pos = u.app[o].in_pos
      /\ a.packet_out = u.app[o].packet_out /\ a.send = u.app[o].send /\ a.out_pos = u.app[o].out_pos
  BY <1>1, ZenonT(40) DEF UipApps
<1>3. v = [u EXCEPT !.app[o] = a]
  BY SMTT(30) DEF Uip!Flush
<1> HIDE DEF a, v
<1>4. v = Own(u, o, a, u.cur[o], u.out[o])
  BY <1>1, <1>2, <1>3, OwnForms, ZenonT(40)
<1>5. u.cur[o] \in UipHeard /\ u.out[o] \in UipPackets
  BY <1>1, SMTT(30)
<1>6. /\ v.conns = u.conns /\ v.slot = u.slot /\ v.myData = u.myData /\ v.holder = u.holder /\ v.ins = u.ins
      /\ v.app[o] = a /\ v.cur[o] = u.cur[o] /\ v.out[o] = u.out[o]
      /\ \A x \in Objects : x # o => v.app[x] = u.app[x]
  BY <1>1, <1>2, <1>4, <1>5, Owns, SMTT(30)
<1>7. Quiet(v, o)
  BY <1>1, <1>2, <1>6, SMTT(30) DEF Sound, Quiet
<1>8. Reading(v, o)
  BY <1>1, <1>2, <1>6, SMTT(30) DEF Sound, Reading
<1>9. Writing(v, o)
  BY <1>1, <1>2, <1>6 DEF Sound, Writing, Uip!Undisturbed
<1>10. Fine(v)
  BY <1>2, <1>4, <1>5, <1>7, <1>8, <1>9, OwnFine
<1>11. \A x \in Objects : Got(v, x) <= Got(u, x)
  <2>1. u.app[o].in_pos \in Nat /\ u.app[o].in_size \in Nat
    BY <1>1 DEF UipApps
  <2>2. v.app[o].in_pos + v.app[o].in_size <= u.app[o].in_pos + u.app[o].in_size
    BY <1>2, <1>6, <2>1
  <2> QED BY <1>1, <1>6, <2>2, Accounts, ZenonT(40)
<1> QED BY <1>6, <1>10, <1>11 DEF v

\* read() of n units
LEMMA ReadsOn ==
  ASSUME NEW u, Fine(u), NEW o \in Objects, NEW n \in Nat
  PROVE  LET v == Uip!Read(u, o, n) IN
         /\ Fine(v) /\ v.ins = u.ins /\ \A x \in Objects : Got(v, x) <= Got(u, x)
<1> DEFINE v == Uip!Read(u, o, n)
           r == u.app[o]
           got == Uip!Given(u, o, n)
           m == Uip!Smaller(n, r.in_size)
           a == [r EXCEPT !.in_pos = @ + Len(got), !.in_size = @ - Len(got),
                          !.packet_in = r.in_size - Len(got) >= 1]
           h == [u.cur[o] EXCEPT !.read = u.cur[o].read \o got]
<1>1. /\ u \in UipStates /\ u.app \in [Objects -> UipApps] /\ u.out \in [Objects -> UipPackets]
      /\ u.cur \in [Objects -> UipHeard] /\ r \in UipApps /\ u.cur[o] \in UipHeard /\ u.out[o] \in UipPackets
      /\ Sound(u, o)
  BY Typed DEF Fine
<1>2. r.in_pos \in Nat /\ r.in_size \in Nat
  BY <1>1 DEF UipApps
<1>3. CASE ~r.packet_in
  <2>1. v = u
    BY <1>3 DEF Uip!Read
  <2>2. v.app[o].in_pos + v.app[o].in_size <= u.app[o].in_pos + u.app[o].in_size
    BY <1>2, <2>1
  <2>3. \A x \in Objects : Got(v, x) <= Got(u, x)
    BY <1>1, <2>1, <2>2, Accounts
  <2> QED BY <2>1, <2>3
<1>4. CASE r.packet_in
  <2>1. m \in Nat /\ m <= r.in_size /\ got = Uip!From(u, r.in_pos, m)
    BY <1>2, <1>4 DEF Uip!Given, Uip!Smaller
  <2> HIDE DEF got, m
  <2>2. /\ got \in Seq(UnitSet) /\ Len(got) = m
        /\ r.in_pos + m <= BufSize => \A i \in 1 .. m : got[i] = u.myData[r.in_pos + i]
    <3>1. /\ Uip!From(u, r.in_pos, m) \in Seq(UnitSet) /\ Len(Uip!From(u, r.in_pos, m)) = m
          /\ r.in_pos + m <= BufSize =>
               \A i \in 1 .. m : Uip!From(u, r.in_pos, m)[i] = u.myData[r.in_pos + i]
      BY <1>1, <1>2, <2>1, FromIs, ZenonT(40)
    <3> QED BY <2>1, <3>1
  <2>3. /\ a \in UipApps /\ a.in_pos = r.in_pos + m /\ a.in_size = r.in_size - m
        /\ a.packet_in => r.in_size - m >= 1
        /\ a.packet_out = r.packet_out /\ a.send = r.send /\ a.out_pos = r.out_pos
    <3> DEFINE i == r.in_pos + m
               j == r.in_size - m
               b == j >= 1
    <3>1. i \in Nat /\ j \in Nat /\ b \in BOOLEAN
      BY <1>2, <2>1
    <3>2. a = [r EXCEPT !.in_pos = i, !.in_size = j, !.packet_in = b]
      BY <1>1, <2>2 DEF UipApps
    <3> HIDE DEF i, j, b, a
    <3>3. /\ a \in UipApps /\ a.in_pos = i /\ a.in_size = j /\ a.packet_in = b
          /\ a.packet_out = r.packet_out /\ a.send = r.send /\ a.out_pos = r.out_pos
      <4> HIDE DEF r
      <4> QED BY <1>1, <3>1, <3>2, Zenon DEF UipApps
    <3>4. a.packet_in => b
      BY Zenon, <3>3
    <3> QED BY <3>3, <3>4 DEF i, j, b
  <2>4. /\ h \in UipHeard /\ h.read = u.cur[o].read \o got /\ h.data = u.cur[o].data
        /\ h.clean = u.cur[o].clean /\ h.from = u.cur[o].from
    <3> DEFINE t == u.cur[o].read \o got
    <3>1. t \in Seq(UnitSet)
      <4>1. u.cur[o].read \in Seq(UnitSet)
        BY <1>1 DEF UipHeard
      <4> QED BY <2>2, <4>1, ConcatProperties
    <3> HIDE DEF t
    <3>2. h = [u.cur[o] EXCEPT !.read = t]
      BY DEF t
    <3> HIDE DEF h
    <3>3. h \in UipHeard /\ h.read = t /\ h.data = u.cur[o].data /\ h.clean = u.cur[o].clean /\ h.from = u.cur[o].from
      BY <1>1, <3>1, <3>2, Zenon DEF UipHeard
    <3> QED BY <3>3 DEF t
  <2>5. v = [u EXCEPT !.app[o] = a, !.cur[o] = h]
    <3> HIDE DEF r
    <3>1. v = IF ~r.packet_in THEN u ELSE [u EXCEPT !.app[o] = a, !.cur[o] = h]
      BY DEF Uip!Read, got, r
    <3> HIDE DEF v, a, h
    <3> QED BY <1>4, <3>1
  <2> HIDE DEF a, h, v
  <2>6. v = Own(u, o, a, h, u.out[o])
    <3>1. \A b \in UipApps, k \in UipHeard :
            [u EXCEPT !.app[o] = b, !.cur[o] = k] = Own(u, o, b, k, u.out[o])
      BY <1>1, OwnForms, ZenonT(40)
    <3> QED BY Zenon, <2>3, <2>4, <2>5, <3>1
  <2>7. /\ v.conns = u.conns /\ v.slot = u.slot /\ v.myData = u.myData /\ v.holder = u.holder /\ v.ins = u.ins
        /\ v.app[o] = a /\ v.cur[o] = h /\ v.out[o] = u.out[o]
        /\ \A x \in Objects : x # o => v.app[x] = u.app[x]
    BY <1>1, <2>3, <2>4, <2>6, Owns, SMTT(30)
  <2>8. Quiet(v, o)
    BY <1>1, <1>4, <2>7 DEF Sound, Quiet
  <2>9. Reading(v, o)
    <3>1. Reading(u, o)
      BY <1>1 DEF Sound
    <3>2. ASSUME h.clean, v.holder = <<"in", o>>
          PROVE  /\ Len(h.data) <= BufSize /\ Len(h.read) <= Len(h.data)
                 /\ \A i \in 1 .. Len(h.data) : v.myData[i] = h.data[i]
                 /\ \A i \in 1 .. Len(h.read) : h.read[i] = h.data[i]
                 /\ a.packet_in => /\ a.in_pos = Len(h.read) /\ a.in_pos + a.in_size = Len(h.data)
                                   /\ Len(h.data) # 0 => a.in_size # 0
      <4> DEFINE c == u.cur[o]
      <4>1. /\ Len(c.data) <= BufSize
            /\ \A i \in 1 .. Len(c.data) : u.myData[i] = c.data[i]
            /\ \A i \in 1 .. Len(c.read) : c.read[i] = c.data[i]
            /\ r.in_pos = Len(c.read) /\ r.in_pos + r.in_size = Len(c.data)
        BY <1>4, <2>4, <2>7, <3>1, <3>2 DEF Reading
      <4>2. c.read \in Seq(UnitSet) /\ Len(c.read) \in Nat /\ Len(c.data) \in Nat /\ BufSize \in Nat
        <5>1. c.read \in Seq(UnitSet) /\ c.data \in Seq(UnitSet)
          BY <1>1 DEF UipHeard
        <5> QED BY <5>1, LenProperties, Numbers
      <4> HIDE DEF c
      <4>3. /\ Len(h.read) = r.in_pos + m
            /\ \A i \in 1 .. r.in_pos + m : h.read[i] = IF i <= Len(c.read) THEN c.read[i] ELSE got[i - Len(c.read)]
        <5>1. r.in_pos + m \in Nat /\ r.in_pos + m = Len(c.read) + Len(got)
          BY <1>2, <2>1, <2>2, <4>1
        <5>2. /\ Len(c.read \o got) = r.in_pos + m
              /\ \A i \in 1 .. r.in_pos + m : (c.read \o got)[i] = IF i <= Len(c.read) THEN c.read[i] ELSE got[i - Len(c.read)]
          <6>1. \A s, t \in Seq(UnitSet), k \in Nat : k = Len(s) + Len(t) =>
                  /\ Len(s \o t) = k
                  /\ \A i \in 1 .. k : (s \o t)[i] = IF i <= Len(s) THEN s[i] ELSE t[i - Len(s)]
            BY Joined
          <6> DEFINE s == c.read
                     k == r.in_pos + m
          <6>2. s \in Seq(UnitSet) /\ got \in Seq(UnitSet) /\ k \in Nat /\ k = Len(s) + Len(got)
            BY <2>2, <4>2, <5>1
          <6> HIDE DEF s, k
          <6>3. /\ Len(s \o got) = k
                /\ \A i \in 1 .. k : (s \o got)[i] = IF i <= Len(s) THEN s[i] ELSE got[i - Len(s)]
            BY <6>1, <6>2
          <6> QED BY <6>3 DEF s, k
        <5>3. h.read = c.read \o got
          BY <2>4 DEF c
        <5> QED BY <5>2, <5>3
      <4>4. h.data = c.data /\ v.myData = u.myData
        BY <2>4, <2>7 DEF c
      <4>5. r.in_pos + m <= Len(c.data) /\ r.in_pos + m <= BufSize
        BY <1>2, <2>1, <4>1, <4>2, SMTT(30)
      <4>6. ASSUME NEW i \in 1 .. r.in_pos + m PROVE h.read[i] = c.data[i]
        <5>1. CASE i <= Len(c.read)
          BY <4>1, <4>2, <4>3, <5>1
        <5>2. CASE ~(i <= Len(c.read))
          <6>1. i - Len(c.read) \in 1 .. m /\ r.in_pos + (i - Len(c.read)) = i /\ i \in 1 .. Len(c.data)
            BY <1>2, <2>1, <4>1, <4>2, <4>5, <5>2, SMTT(30)
          <6>2. h.read[i] = got[i - Len(c.read)] /\ got[i - Len(c.read)] = u.myData[i]
            BY <2>2, <4>3, <4>5, <5>2, <6>1, ZenonT(40)
          <6> QED BY <4>1, <6>1, <6>2
        <5> QED BY <5>1, <5>2
      <4>7. a.packet_in => /\ a.in_pos = Len(h.read) /\ a.in_pos + a.in_size = Len(h.data) /\ a.in_size # 0
        <5>1. r.in_pos + m = Len(h.read) /\ r.in_pos + m + (r.in_size - m) = Len(h.data)
          BY <1>2, <2>1, <4>1, <4>3, <4>4, SMTT(30)
        <5> QED BY <1>2, <2>1, <2>3, <5>1
      <4> QED BY <4>1, <4>3, <4>4, <4>5, <4>6, <4>7, SMTT(30)
    <3>3. a.in_size # 0 /\ h.from # 0 => v.conns[v.slot[o]].rip = h.from
      <4>1. a.in_size # 0 => r.in_size # 0
        BY <1>2, <2>1, <2>3, SMTT(30)
      <4> QED BY <2>4, <2>7, <3>1, <4>1 DEF Reading
    <3> QED BY <2>7, <3>2, <3>3 DEF Reading
  <2>10. Writing(v, o)
    BY <1>1, <2>3, <2>7, SMTT(30) DEF Sound, Writing, Uip!Undisturbed
  <2>11. Fine(v)
    BY <1>1, <2>3, <2>4, <2>6, <2>8, <2>9, <2>10, OwnFine
  <2>12. \A x \in Objects : Got(v, x) <= Got(u, x)
    <3>1. v.app[o].in_pos + v.app[o].in_size <= u.app[o].in_pos + u.app[o].in_size
      BY <1>2, <2>1, <2>3, <2>7
    <3> QED BY <1>1, <2>7, <3>1, Accounts, ZenonT(40)
  <2> QED BY <2>7, <2>11, <2>12 DEF v
<1> QED BY <1>3, <1>4

\* endPacket()
LEMMA EndsPacket ==
  ASSUME NEW u, Fine(u), NEW o \in Objects
  PROVE  LET v == Uip!EndPacket(u, o) IN
         /\ Fine(v) /\ v.ins = u.ins /\ \A x \in Objects : Got(v, x) <= Got(u, x)
<1> DEFINE v == Uip!EndPacket(u, o)
           a == [u.app[o] EXCEPT !.send = TRUE]
           w == [u EXCEPT !.app[o] = a]
<1>1. /\ u \in UipStates /\ u.out \in [Objects -> UipPackets] /\ u.app[o] \in UipApps
      /\ u.cur \in [Objects -> UipHeard] /\ Sound(u, o)
  BY Typed DEF Fine
<1>2. \A x \in Objects : Got(u, x) \in Nat
  <2>1. ASSUME NEW x \in Objects PROVE Got(u, x) \in Nat
    <3>1. u.app[x] \in UipApps
      BY <1>1, Typed
    <3> QED BY <3>1 DEF UipApps, Got
  <2> QED BY <2>1, Zenon
<1>3. CASE u.slot[o] = 0 \/ ~u.app[o].packet_out
  <2>1. v = u
    BY <1>3 DEF Uip!EndPacket
  <2> QED BY <1>2, <2>1
<1>4. CASE ~(u.slot[o] = 0 \/ ~u.app[o].packet_out)
  <2>1. v = Uip!Poll(w, o)
    BY <1>4 DEF Uip!EndPacket
  <2>2. /\ a \in UipApps /\ a.packet_in = u.app[o].packet_in /\ a.in_size = u.app[o].in_size
        /\ a.in_pos = u.app[o].in_pos /\ a.packet_out = u.app[o].packet_out /\ a.out_pos = u.app[o].out_pos
    BY <1>1, ZenonT(40) DEF UipApps
  <2> HIDE DEF a, v
  <2>3. w = Own(u, o, a, u.cur[o], u.out[o])
    <3>1. \A b \in UipApps : [u EXCEPT !.app[o] = b] = Own(u, o, b, u.cur[o], u.out[o])
      BY <1>1, OwnForms, ZenonT(40)
    <3> QED BY <2>2, <3>1, SMTT(30)
  <2> HIDE DEF w
  <2>4. u.cur[o] \in UipHeard /\ u.out[o] \in UipPackets
    BY <1>1
  <2>5. /\ w.conns = u.conns /\ w.slot = u.slot /\ w.myData = u.myData /\ w.holder = u.holder /\ w.ins = u.ins
        /\ w.app[o] = a /\ w.cur[o] = u.cur[o] /\ w.out[o] = u.out[o]
        /\ \A x \in Objects : x # o => w.app[x] = u.app[x]
    BY <1>1, <2>2, <2>3, <2>4, Owns
  <2>6. Quiet(w, o)
    BY <1>4, <2>5, SMTT(30) DEF Quiet
  <2>7. Reading(w, o)
    BY <1>1, <2>2, <2>5 DEF Sound, Reading
  <2>8. Writing(w, o)
    BY <1>1, <1>4, <2>2, <2>5 DEF Sound, Writing, Uip!Undisturbed
  <2>9. Fine(w)
    BY <2>2, <2>3, <2>4, <2>6, <2>7, <2>8, OwnFine
  <2>10. \A x \in Objects : Got(w, x) <= Got(u, x)
    <3>1. u.app[o].in_pos \in Nat /\ u.app[o].in_size \in Nat
      BY <1>1 DEF UipApps
    <3>2. w.app[o].in_pos + w.app[o].in_size <= u.app[o].in_pos + u.app[o].in_size
      BY <2>2, <2>5, <3>1
    <3> QED BY <1>1, <2>5, <3>2, Accounts, ZenonT(40)
  <2>11. Fine(v) /\ v.ins = w.ins /\ \A x \in Objects : Got(v, x) = Got(w, x)
    BY <2>1, <2>9, Polls
  <2>12. \A x \in Objects : Got(v, x) <= Got(u, x)
    BY <2>10, <2>11, ZenonT(40)
  <2> QED BY <2>5, <2>11, <2>12 DEF v
<1> QED BY <1>3, <1>4

\* write() of some units
LEMMA WritesOn ==
  ASSUME NEW u, Fine(u), NEW o \in Objects, NEW data \in Seq(UnitSet), Uip!Fits(u, o, data)
  PROVE  LET v == Uip!Write(u, o, data) IN
         /\ Fine(v) /\ v.ins = u.ins /\ \A x \in Objects : Got(v, x) <= Got(u, x)
<1> DEFINE v == Uip!Write(u, o, data)
           q == u.out[o]
           pos == u.app[o].out_pos
           w == Uip!Store(u, pos, data, <<"out", o>>)
           a == [u.app[o] EXCEPT !.out_pos = pos + Len(data)]
           c == q.clean /\ Uip!Undisturbed(u, o)
           p == [q EXCEPT !.data = @ \o data, !.clean = c]
<1>1. /\ u \in UipStates /\ u.out \in [Objects -> UipPackets] /\ u.app[o] \in UipApps /\ q \in UipPackets
      /\ u.cur \in [Objects -> UipHeard] /\ u.app \in [Objects -> UipApps] /\ Sound(u, o)
      /\ Len(data) \in Nat /\ BufSize \in Nat
  BY Typed, Numbers, LenProperties DEF Fine
<1>2. /\ pos \in Nat /\ pos <= BufSize /\ pos + Len(data) <= BufSize
      /\ u.app[o].in_pos \in Nat /\ u.app[o].in_size \in Nat
  BY <1>1 DEF UipApps, Uip!Fits
<1>3. CASE ~u.app[o].packet_out
  <2>1. v = u
    BY <1>3 DEF Uip!Write
  <2>2. v.app[o].in_pos + v.app[o].in_size <= u.app[o].in_pos + u.app[o].in_size
    BY <1>2, <2>1
  <2>3. \A x \in Objects : Got(v, x) <= Got(u, x)
    BY <1>1, <2>1, <2>2, Accounts
  <2> QED BY <2>1, <2>3
<1>4. CASE u.app[o].packet_out
  <2>1. v = [w EXCEPT !.app[o] = [@ EXCEPT !.out_pos = pos + Len(data)], !.out[o] = p]
    BY <1>4 DEF Uip!Write
  <2>2. /\ w \in UipStates
        /\ w.conns = u.conns /\ w.slot = u.slot /\ w.app = u.app /\ w.cur = u.cur /\ w.out = u.out
        /\ w.ins = u.ins /\ w.holder = <<"out", o>>
        /\ \A i \in 1 .. BufSize :
             w.myData[i] = IF i <= pos \/ i > pos + Len(data) THEN u.myData[i] ELSE data[i - pos]
    <3> DEFINE k == <<"out", o>>
    <3>1. k \in Holders
      BY DEF Holders
    <3> HIDE DEF k
    <3>2. /\ Uip!Store(u, pos, data, k) \in UipStates
          /\ LET t == Uip!Store(u, pos, data, k) IN
             /\ t.conns = u.conns /\ t.slot = u.slot /\ t.app = u.app /\ t.cur = u.cur /\ t.out = u.out
             /\ t.ins = u.ins /\ t.outs = u.outs /\ t.holder = k
             /\ \A i \in 1 .. BufSize :
                  t.myData[i] = IF i <= pos \/ i > pos + Len(data) THEN u.myData[i] ELSE data[i - pos]
      BY <1>1, <1>2, <3>1, Stores, SMTT(30)
    <3> QED BY Zenon, <3>2 DEF k
  <2> HIDE DEF w
  <2>3. v = [w EXCEPT !.app[o] = [w.app[o] EXCEPT !.out_pos = pos + Len(data)], !.out[o] = p]
    <3> HIDE DEF v, p, pos
    <3> QED BY Zenon, <2>1
  <2>4. /\ a \in UipApps /\ a.packet_in = u.app[o].packet_in /\ a.in_size = u.app[o].in_size
        /\ a.in_pos = u.app[o].in_pos /\ a.packet_out = u.app[o].packet_out /\ a.send = u.app[o].send
        /\ a.out_pos = pos + Len(data)
    <3> DEFINE n == pos + Len(data)
    <3>1. n \in 0 .. BufSize
      BY <1>1, <1>2, SMTT(30)
    <3>2. a = [u.app[o] EXCEPT !.out_pos = n]
      OBVIOUS
    <3> HIDE DEF n, a
    <3>3. /\ a \in UipApps /\ a.packet_in = u.app[o].packet_in /\ a.in_size = u.app[o].in_size
          /\ a.in_pos = u.app[o].in_pos /\ a.packet_out = u.app[o].packet_out /\ a.send = u.app[o].send
          /\ a.out_pos = n
      BY <1>1, <3>1, <3>2, Zenon DEF UipApps
    <3> QED BY <3>3 DEF n
  <2>5. /\ p \in UipPackets /\ p.to = q.to /\ p.data = q.data \o data /\ p.clean = c
        /\ p.times = q.times /\ p.arp = q.arp
    <3> DEFINE s == q.data \o data
    <3>1. s \in Seq(UnitSet)
      <4>1. q.data \in Seq(UnitSet)
        BY <1>1 DEF UipPackets
      <4> QED BY <4>1, ConcatProperties, SMTT(30)
    <3>2. c \in BOOLEAN
      OBVIOUS
    <3>3. p = [q EXCEPT !.data = s, !.clean = c]
      BY <1>1 DEF UipPackets
    <3> HIDE DEF s, c, q
    <3>4. p \in UipPackets /\ p.to = q.to /\ p.data = s /\ p.clean = c /\ p.times = q.times /\ p.arp = q.arp
      <4> HIDE DEF p
      <4> QED BY <1>1, <3>1, <3>2, <3>3, ZenonT(40) DEF UipPackets
    <3> QED BY <3>4 DEF s
  <2>6. v = Own(w, o, a, u.cur[o], p)
    <3>1. \A b \in UipApps, k \in UipPackets : [w EXCEPT !.app[o] = b, !.out[o] = k] = Own(w, o, b, w.cur[o], k)
      <4>1. w \in UipStates
        BY <2>2
      <4> QED BY <4>1, OwnForms, ZenonT(40)
    <3>2. w.app[o] = u.app[o] /\ w.cur[o] = u.cur[o]
      BY <2>2
    <3>3. v = [w EXCEPT !.app[o] = a, !.out[o] = p]
      <4> HIDE DEF v, p, pos
      <4> QED BY ZenonT(40), <2>3, <3>2
    <3> HIDE DEF v, a, p
    <3> QED BY <2>4, <2>5, <3>1, <3>2, <3>3, ZenonT(40)
  <2> HIDE DEF a, p, v
  <2>7. u.cur[o] \in UipHeard
    BY <1>1
  <2>8. /\ v \in UipStates /\ v.conns = u.conns /\ v.slot = u.slot /\ v.myData = w.myData /\ v.holder = <<"out", o>>
        /\ v.ins = u.ins /\ v.app[o] = a /\ v.cur[o] = u.cur[o] /\ v.out[o] = p
        /\ \A x \in Objects : x # o => v.app[x] = u.app[x] /\ v.cur[x] = u.cur[x] /\ v.out[x] = u.out[x]
    <3>1. /\ v \in UipStates /\ v.conns = w.conns /\ v.slot = w.slot /\ v.myData = w.myData /\ v.holder = w.holder
          /\ v.ins = w.ins /\ v.app[o] = a /\ v.cur[o] = u.cur[o] /\ v.out[o] = p
          /\ \A x \in Objects : x # o => v.app[x] = w.app[x] /\ v.cur[x] = w.cur[x] /\ v.out[x] = w.out[x]
      BY <2>2, <2>4, <2>5, <2>6, <2>7, Owns
    <3> QED BY <2>2, <3>1, SMTT(30)
  <2>9. Quiet(v, o)
    BY <1>1, <2>4, <2>8, SMTT(30) DEF Sound, Quiet
  <2>10. Reading(v, o)
    BY <1>1, <2>4, <2>8, SMTT(30) DEF Sound, Reading
  <2>11. Writing(v, o)
    <3>1. /\ q.times > 0 => q.arp
          /\ q.to # 0 /\ u.conns[u.slot[o]].rip = q.to /\ Len(q.data) = pos
          /\ c => \A i \in 1 .. pos : u.myData[i] = q.data[i]
      BY <1>1, <1>4, SMTT(30) DEF Sound, Writing
    <3>2. q.data \in Seq(UnitSet)
      BY <1>1 DEF UipPackets
    <3>3. /\ Len(p.data) = pos + Len(data)
          /\ \A i \in 1 .. pos + Len(data) : p.data[i] = IF i <= pos THEN q.data[i] ELSE data[i - pos]
      <4>1. /\ Len(q.data \o data) = Len(q.data) + Len(data)
            /\ \A i \in 1 .. Len(q.data) + Len(data) :
                 (q.data \o data)[i] = IF i <= Len(q.data) THEN q.data[i] ELSE data[i - Len(q.data)]
        BY <3>2, ConcatProperties, SMTT(30)
      <4> QED BY <2>5, <3>1, <4>1, SMTT(30)
    <3> HIDE DEF c, q
    <3>4. ASSUME c, NEW i \in 1 .. pos + Len(data) PROVE v.myData[i] = p.data[i]
      <4>1. i \in 1 .. BufSize
        BY <1>1, <1>2
      <4>2. CASE i <= pos
        <5>1. i \in 1 .. pos
          BY <1>2, <4>2
        <5>2. v.myData[i] = u.myData[i] /\ p.data[i] = q.data[i] /\ u.myData[i] = q.data[i]
          BY <2>2, <2>8, <3>1, <3>3, <3>4, <4>1, <4>2, <5>1
        <5> QED BY <5>2
      <4>3. CASE ~(i <= pos)
        <5>1. ~(i <= pos \/ i > pos + Len(data))
          BY <1>1, <1>2, <4>3
        <5> QED BY <2>2, <2>8, <3>3, <4>1, <4>3, <5>1
      <4> QED BY <4>2, <4>3
    <3>5. p.clean => c
      BY Zenon, <2>5
    <3>6. p.times > 0 => p.arp
      BY <2>5, <3>1, SMTT(30)
    <3>7. p.times > 1 => p.arp
      BY <1>1, <2>5 DEF Sound, Writing, q
    <3>8. a.packet_out /\ p.to # 0 /\ v.conns[v.slot[o]].rip = p.to
      BY <1>4, <2>4, <2>5, <2>8, <3>1
    <3> QED BY <2>4, <2>8, <3>3, <3>4, <3>5, <3>6, <3>7, <3>8 DEF Writing
  <2>12. Sound(v, o)
    BY <2>9, <2>10, <2>11 DEF Sound
  <2>13. Fine(v)
    <3>1. v \in UipStates /\ v.slot = u.slot /\ v.conns = u.conns /\ v.holder \in {<<"in", o>>, <<"out", o>>}
      BY <2>8
    <3>2. \A x \in Objects : x # o => v.app[x] = u.app[x] /\ v.cur[x] = u.cur[x] /\ v.out[x] = u.out[x]
      BY <2>8
    <3> QED BY <2>12, <3>1, <3>2, OnlyOwn
  <2>14. \A x \in Objects : Got(v, x) <= Got(u, x)
    <3>1. v.app[o].in_pos + v.app[o].in_size <= u.app[o].in_pos + u.app[o].in_size
      BY <1>2, <2>4, <2>8, SMTT(30)
    <3> QED BY <1>1, <2>8, <3>1, Accounts, ZenonT(40)
  <2> QED BY <2>8, <2>13, <2>14 DEF v
<1> QED BY <1>3, <1>4

\* The table with an entry changed, and the object whose it is
LEMMA Entry ==
  ASSUME NEW u \in UipStates, NEW s \in Uip!Slots, NEW c \in UipConns
  PROVE  LET v == [u EXCEPT !.conns[s] = c] IN
         /\ v \in UipStates /\ v.slot = u.slot /\ v.app = u.app /\ v.cur = u.cur /\ v.out = u.out
         /\ v.myData = u.myData /\ v.holder = u.holder /\ v.ins = u.ins /\ v.outs = u.outs
         /\ v.conns[s] = c /\ \A t \in Uip!Slots : t # s => v.conns[t] = u.conns[t]
<1> DEFINE v == [u EXCEPT !.conns[s] = c]
           fc == [u.conns EXCEPT ![s] = c]
<1>1. /\ u.conns \in [Uip!Slots -> UipConns] /\ u.slot \in [Objects -> 0 .. UdpConns]
      /\ u.app \in [Objects -> UipApps] /\ u.cur \in [Objects -> UipHeard] /\ u.out \in [Objects -> UipPackets]
  BY Typed
<1>2. fc \in [Uip!Slots -> UipConns] /\ fc[s] = c /\ \A t \in Uip!Slots : t # s => fc[t] = u.conns[t]
  BY <1>1
<1>3. v = [u EXCEPT !.conns = fc]
  BY Zenon
<1> HIDE DEF v, fc
<1>4. v = Changed(u, fc, u.slot, u.app, u.cur, u.out)
  BY <1>1, <1>3, Zenon DEF Changed, UipStates
<1>5. /\ v \in UipStates /\ v.conns = fc /\ v.slot = u.slot /\ v.app = u.app /\ v.cur = u.cur /\ v.out = u.out
      /\ v.myData = u.myData /\ v.holder = u.holder /\ v.ins = u.ins /\ v.outs = u.outs
  BY <1>1, <1>2, <1>4, Fields, SMTT(30)
<1> QED BY <1>2, <1>5 DEF v

\* uip_udp_new()
LEMMA News ==
  ASSUME NEW u, Fine(u), NEW o \in Objects, u.slot[o] = 0, NEW rip \in Ends
  PROVE  LET v == Uip!New(u, o, rip) IN
         /\ Fine(v) /\ v.ins = u.ins /\ v.app = u.app /\ v.cur = u.cur /\ v.out = u.out
         /\ v.myData = u.myData /\ v.holder = u.holder
         /\ v.slot[o] # 0 => v.conns[v.slot[o]].rip = rip
         /\ v.slot[o] = 0 => v = u
         /\ Uip!Free(u) # {} => v.slot[o] # 0
<1> DEFINE v == Uip!New(u, o, rip)
           s == Uip!Min(Uip!Free(u))
           c == [lport |-> 0 - s, rip |-> rip, app |-> o]
<1>1. /\ u \in UipStates /\ u.conns \in [Uip!Slots -> UipConns] /\ u.slot \in [Objects -> 0 .. UdpConns]
      /\ u.app \in [Objects -> UipApps] /\ u.cur \in [Objects -> UipHeard] /\ u.out \in [Objects -> UipPackets]
      /\ UdpConns \in Nat
  BY Typed, Numbers DEF Fine
<1>2. CASE Uip!Free(u) = {}
  BY <1>2 DEF Uip!New
<1>3. CASE Uip!Free(u) # {}
  <2>1. s \in Uip!Slots /\ u.conns[s].lport = 0
    <3>1. Uip!Free(u) \in SUBSET Nat
      BY <1>1 DEF Uip!Free, Uip!Slots
    <3>2. s \in Uip!Free(u)
      BY <1>3, <3>1, LeastOf
    <3> HIDE DEF s
    <3> QED BY <3>2 DEF Uip!Free
  <2>2. v = [u EXCEPT !.conns[s] = c, !.slot[o] = s]
    BY <1>3 DEF Uip!New
  <2> HIDE DEF s
  <2>3. s \in 1 .. UdpConns /\ s # 0
    BY <1>1, <2>1 DEF Uip!Slots
  <2>4. c \in UipConns /\ c.rip = rip /\ c.app = o /\ c.lport # 0
    BY <1>1, <2>3 DEF UipConns
  <2> HIDE DEF c
  <2> DEFINE fc == [u.conns EXCEPT ![s] = c]
             fs == [u.slot EXCEPT ![o] = s]
  <2>5. /\ fc \in [Uip!Slots -> UipConns] /\ fc[s] = c /\ \A t \in Uip!Slots : t # s => fc[t] = u.conns[t]
        /\ fs \in [Objects -> 0 .. UdpConns] /\ fs[o] = s /\ \A x \in Objects : x # o => fs[x] = u.slot[x]
    BY <1>1, <2>1, <2>3, <2>4
  <2>6. v = [u EXCEPT !.conns = fc, !.slot = fs]
    <3> HIDE DEF v
    <3> QED BY ZenonT(40), <2>2
  <2> HIDE DEF v, fc, fs
  <2>7. v = Changed(u, fc, fs, u.app, u.cur, u.out)
    BY <1>1, <2>6, Zenon DEF Changed, UipStates
  <2>8. /\ v \in UipStates /\ v.conns = fc /\ v.slot = fs /\ v.app = u.app /\ v.cur = u.cur /\ v.out = u.out
        /\ v.myData = u.myData /\ v.holder = u.holder /\ v.ins = u.ins /\ v.outs = u.outs
    BY <1>1, <2>5, <2>7, Fields, SMTT(30)
  <2>9. ASSUME NEW x \in Objects, u.slot[x] # 0
        PROVE  x # o /\ u.slot[x] \in Uip!Slots /\ u.slot[x] # s
    <3>1. u.conns[u.slot[x]].lport # 0
      BY <2>9 DEF Fine, Table
    <3> QED BY <1>1, <2>1, <2>9, <3>1 DEF Uip!Slots
  <2>10. Table(v)
    <3>1. ASSUME NEW x \in Objects, v.slot[x] # 0
          PROVE  v.conns[v.slot[x]].app = x /\ v.conns[v.slot[x]].lport # 0
      <4>1. CASE x = o
        BY <2>4, <2>5, <2>8, <4>1
      <4>2. CASE x # o
        <5>1. u.slot[x] # 0 /\ v.slot[x] = u.slot[x]
          BY <2>5, <2>8, <3>1, <4>2
        <5>2. v.conns[v.slot[x]] = u.conns[u.slot[x]]
          BY <2>5, <2>8, <2>9, <5>1
        <5> QED BY <5>1, <5>2 DEF Fine, Table
      <4> QED BY <4>1, <4>2
    <3>2. ASSUME NEW t \in Uip!Slots, v.conns[t].lport # 0
          PROVE  v.conns[t].app \in Objects /\ v.slot[v.conns[t].app] = t
      <4>1. CASE t = s
        BY <2>4, <2>5, <2>8, <4>1
      <4>2. CASE t # s
        <5>1. v.conns[t] = u.conns[t]
          BY <2>5, <2>8, <4>2
        <5>2. u.conns[t].app \in Objects /\ u.slot[u.conns[t].app] = t
          BY <3>2, <5>1 DEF Fine, Table
        <5>3. t # 0
          BY <1>1 DEF Uip!Slots
        <5> QED BY <2>5, <2>8, <5>1, <5>2, <5>3
      <4> QED BY <4>1, <4>2
    <3> QED BY <3>1, <3>2 DEF Table
  <2>11. ASSUME NEW x \in Objects, x # o PROVE Sound(v, x)
    <3>1. Sound(u, x)
      BY DEF Fine
    <3>2. v.slot[x] = u.slot[x]
      BY <2>5, <2>8, <2>11
    <3>3. u.app[x].in_size # 0 \/ u.app[x].packet_out => u.slot[x] # 0
      BY <3>1 DEF Sound, Quiet
    <3>4. u.slot[x] # 0 => v.conns[v.slot[x]] = u.conns[u.slot[x]]
      BY <2>5, <2>8, <2>9, <3>2
    <3> QED BY <2>8, <3>1, <3>2, <3>3, <3>4, Others
  <2>12. Sound(v, o)
    <3>1. Sound(u, o)
      BY DEF Fine
    <3>2. ~(u.app[o].in_size # 0 \/ u.app[o].packet_out)
      BY <3>1 DEF Sound, Quiet
    <3>3. Quiet(v, o)
      BY <2>3, <2>5, <2>8 DEF Quiet
    <3>4. Reading(v, o)
      BY <2>8, <3>1, <3>2, SMTT(30) DEF Sound, Reading
    <3>5. Writing(v, o)
      BY <2>8, <3>1, <3>2 DEF Sound, Writing
    <3> QED BY <3>3, <3>4, <3>5 DEF Sound
  <2>13. Fine(v)
    BY <2>8, <2>10, <2>11, <2>12 DEF Fine
  <2>14. v.slot[o] = s /\ v.conns[v.slot[o]].rip = rip
    BY <2>4, <2>5, <2>8
  <2> QED BY <2>3, <2>8, <2>13, <2>14 DEF v
<1> QED BY <1>2, <1>3

\* begin()
LEMMA Begins2 ==
  ASSUME NEW u, Fine(u), NEW o \in Objects, NEW port \in Ports
  PROVE  LET v == Uip!Begin(u, o, port) IN Fine(v) /\ v.ins = u.ins /\ v.app = u.app
<1> DEFINE w == IF u.slot[o] = 0 THEN Uip!New(u, o, 0) ELSE u
           s == w.slot[o]
           c == [w.conns[s] EXCEPT !.lport = port]
           v == Uip!Begin(u, o, port)
<1>1. Fine(w) /\ w.ins = u.ins /\ w.app = u.app
  <2>1. 0 \in Ends
    BY DEF Ends
  <2> QED BY <2>1, News
<1>2. v = IF w.slot[o] = 0 THEN u ELSE [w EXCEPT !.conns[s] = [@ EXCEPT !.lport = port]]
  <2>1. [w EXCEPT !.conns[s].lport = port] = [w EXCEPT !.conns[s] = [@ EXCEPT !.lport = port]]
    OBVIOUS
  <2> QED BY <2>1 DEF Uip!Begin, Uip!Anyone
<1> HIDE DEF w, v
<1>3. CASE w.slot[o] = 0
  BY <1>2, <1>3 DEF v
<1>4. CASE w.slot[o] # 0
  <2>1. /\ w \in UipStates /\ w.conns \in [Uip!Slots -> UipConns] /\ w.slot \in [Objects -> 0 .. UdpConns]
        /\ UdpConns \in Nat
    BY <1>1, Typed, Numbers DEF Fine
  <2>2. s \in Uip!Slots /\ w.conns[s] \in UipConns /\ w.conns[s].lport # 0
    <3>1. s \in Uip!Slots
      BY <1>4, <2>1 DEF Uip!Slots
    <3> QED BY <1>1, <1>4, <2>1, <3>1 DEF Fine, Table
  <2>3. c \in UipConns /\ c.rip = w.conns[s].rip /\ c.app = w.conns[s].app /\ c.lport # 0
    BY <2>2, Numbers DEF UipConns
  <2>4. v = [w EXCEPT !.conns[s] = c]
    <3>1. v = [w EXCEPT !.conns[s] = [@ EXCEPT !.lport = port]]
      BY <1>2, <1>4
    <3> QED BY Zenon, <3>1
  <2> HIDE DEF c, s
  <2>5. /\ v \in UipStates /\ v.slot = w.slot /\ v.app = w.app /\ v.cur = w.cur /\ v.out = w.out
        /\ v.myData = w.myData /\ v.holder = w.holder /\ v.ins = w.ins
        /\ v.conns[s] = c /\ \A t \in Uip!Slots : t # s => v.conns[t] = w.conns[t]
    BY <2>1, <2>2, <2>3, <2>4, Entry
  <2>6. \A t \in Uip!Slots : /\ v.conns[t].app = w.conns[t].app
                             /\ v.conns[t].lport # 0 <=> w.conns[t].lport # 0
                             /\ v.conns[t].rip = w.conns[t].rip
    BY <2>2, <2>3, <2>5, SMTT(30)
  <2>7. Sound(v, o)
    <3>1. v.conns[v.slot[o]].rip = w.conns[w.slot[o]].rip
      BY <2>2, <2>5, <2>6 DEF s
    <3>2. Sound(w, o)
      BY <1>1 DEF Fine
    <3> QED BY <2>5, <3>1, <3>2, Others, SMTT(30)
  <2>8. Fine(v)
    BY <1>1, <2>5, <2>6, <2>7, OnlyOwn
  <2> QED BY <1>1, <2>5, <2>8 DEF v
<1> QED BY <1>3, <1>4

\* stop()
LEMMA Stops ==
  ASSUME NEW u, Fine(u), NEW o \in Objects
  PROVE  LET v == Uip!Stop(u, o) IN
         /\ Fine(v) /\ v.ins = u.ins /\ \A x \in Objects : Got(v, x) <= Got(u, x)
<1> DEFINE v == Uip!Stop(u, o)
           s == u.slot[o]
           c == [u.conns[s] EXCEPT !.lport = 0, !.app = 0]
           a == Uip!Cleared
           h == Uip!Unheard
           p == Uip!Unwritten
<1>1. /\ u \in UipStates /\ u.conns \in [Uip!Slots -> UipConns] /\ u.slot \in [Objects -> 0 .. UdpConns]
      /\ u.app \in [Objects -> UipApps] /\ u.cur \in [Objects -> UipHeard] /\ u.out \in [Objects -> UipPackets]
      /\ UdpConns \in Nat /\ BufSize \in Nat /\ u.app[o] \in UipApps
  BY Typed, Numbers DEF Fine
<1>2. u.app[o].in_pos \in Nat /\ u.app[o].in_size \in Nat
  BY <1>1 DEF UipApps
<1>3. CASE s = 0
  <2>1. v = u
    BY <1>3 DEF Uip!Stop
  <2>2. v.app[o].in_pos + v.app[o].in_size <= u.app[o].in_pos + u.app[o].in_size
    BY <1>2, <2>1
  <2>3. \A x \in Objects : Got(v, x) <= Got(u, x)
    BY <1>1, <2>1, <2>2, Accounts
  <2> QED BY <2>1, <2>3
<1>4. CASE s # 0
  <2>1. /\ s \in Uip!Slots /\ u.conns[s] \in UipConns /\ u.conns[s].app = o
        /\ \A t \in Uip!Slots : t # 0
    BY <1>1, <1>4, SMTT(30) DEF Uip!Slots, Fine, Table
  <2>2. c \in UipConns /\ c.lport = 0
    <3>1. \A k \in UipConns, l \in Int, x \in Objects \cup {0} :
            [k EXCEPT !.lport = l, !.app = x] \in UipConns /\ [k EXCEPT !.lport = l, !.app = x].lport = l
      BY Zenon DEF UipConns
    <3>2. 0 \in Int /\ 0 \in Objects \cup {0}
      OBVIOUS
    <3> QED BY <2>1, <3>1, <3>2, ZenonT(40)
  <2>3. /\ a \in UipApps /\ ~a.packet_in /\ ~a.packet_out /\ ~a.send /\ a.in_size = 0 /\ a.in_pos = 0
    BY <1>1 DEF UipApps, Uip!Cleared
  <2>4. h \in UipHeard /\ h.data = << >> /\ h.read = << >>
    BY EmptySeq DEF UipHeard, Uip!Unheard, Uip!Anyone, Ends
  <2>5. p \in UipPackets /\ p.times = 0
    BY EmptySeq DEF UipPackets, Uip!Unwritten, Uip!Anyone, Ends
  <2>6. v = [u EXCEPT !.conns[s] = c, !.slot[o] = 0, !.app[o] = a, !.cur[o] = h, !.out[o] = p]
    <3>1. v = [u EXCEPT !.conns[s] = [@ EXCEPT !.lport = 0, !.app = 0],
                        !.slot[o] = 0, !.app[o] = a, !.cur[o] = h, !.out[o] = p]
      BY <1>4 DEF Uip!Stop
    <3> HIDE DEF v
    <3> QED BY ZenonT(40), <3>1
  <2> HIDE DEF s, c, a, h, p
  <2> DEFINE fc == [u.conns EXCEPT ![s] = c]
             fs == [u.slot EXCEPT ![o] = 0]
             fa == [u.app EXCEPT ![o] = a]
             fh == [u.cur EXCEPT ![o] = h]
             fp == [u.out EXCEPT ![o] = p]
  <2>7. /\ fc \in [Uip!Slots -> UipConns] /\ fc[s] = c /\ \A t \in Uip!Slots : t # s => fc[t] = u.conns[t]
        /\ fs \in [Objects -> 0 .. UdpConns] /\ fs[o] = 0 /\ \A x \in Objects : x # o => fs[x] = u.slot[x]
    BY <1>1, <2>1, <2>2
  <2>8. /\ fa \in [Objects -> UipApps] /\ fa[o] = a /\ \A x \in Objects : x # o => fa[x] = u.app[x]
        /\ fh \in [Objects -> UipHeard] /\ fh[o] = h /\ \A x \in Objects : x # o => fh[x] = u.cur[x]
        /\ fp \in [Objects -> UipPackets] /\ fp[o] = p /\ \A x \in Objects : x # o => fp[x] = u.out[x]
    BY <1>1, <2>3, <2>4, <2>5, Part1
  <2>9. v = [u EXCEPT !.conns = fc, !.slot = fs, !.app = fa, !.cur = fh, !.out = fp]
    <3> HIDE DEF v
    <3> QED BY ZenonT(40), <2>6
  <2> HIDE DEF v, fc, fs, fa, fh, fp
  <2>10. v = Changed(u, fc, fs, fa, fh, fp)
    BY <2>9 DEF Changed
  <2>11. /\ v \in UipStates /\ v.conns = fc /\ v.slot = fs /\ v.app = fa /\ v.cur = fh /\ v.out = fp
         /\ v.myData = u.myData /\ v.holder = u.holder /\ v.ins = u.ins /\ v.outs = u.outs
    BY <1>1, <2>7, <2>8, <2>10, Fields, SMTT(30)
  <2>12. ASSUME NEW x \in Objects, x # o, u.slot[x] # 0
         PROVE  u.slot[x] \in Uip!Slots /\ u.slot[x] # s
    BY <1>1, <2>1, <2>12, SMTT(30) DEF Uip!Slots, Fine, Table
  <2>13. Table(v)
    <3>1. ASSUME NEW x \in Objects, v.slot[x] # 0
          PROVE  v.conns[v.slot[x]].app = x /\ v.conns[v.slot[x]].lport # 0
      <4>1. x # o /\ u.slot[x] # 0 /\ v.slot[x] = u.slot[x]
        BY <2>7, <2>11, <3>1
      <4>2. v.conns[v.slot[x]] = u.conns[u.slot[x]]
        BY <2>7, <2>11, <2>12, <4>1
      <4> QED BY <4>1, <4>2 DEF Fine, Table
    <3>2. ASSUME NEW t \in Uip!Slots, v.conns[t].lport # 0
          PROVE  v.conns[t].app \in Objects /\ v.slot[v.conns[t].app] = t
      <4>1. t # s /\ v.conns[t] = u.conns[t]
        BY <2>2, <2>7, <2>11, <3>2, SMTT(30)
      <4>2. u.conns[t].app \in Objects /\ u.slot[u.conns[t].app] = t
        BY <3>2, <4>1 DEF Fine, Table
      <4>3. u.conns[t].app # o
        BY <4>1, <4>2, SMTT(30) DEF s
      <4> QED BY <2>7, <2>11, <4>1, <4>2, <4>3
    <3> QED BY <3>1, <3>2, SMTT(30) DEF Table
  <2>14. ASSUME NEW x \in Objects, x # o PROVE Sound(v, x)
    <3>1. Sound(u, x)
      BY DEF Fine
    <3>2. u.app[x].in_size # 0 \/ u.app[x].packet_out => u.slot[x] # 0
      BY <3>1 DEF Sound, Quiet
    <3>3. v.slot[x] = u.slot[x]
      BY <2>7, <2>11, <2>14
    <3>4. u.slot[x] # 0 => v.conns[v.slot[x]] = u.conns[u.slot[x]]
      BY <2>7, <2>11, <2>12, <2>14, <3>3
    <3> QED BY <2>8, <2>11, <2>14, <3>1, <3>2, <3>3, <3>4, Others
  <2>15. Sound(v, o)
    <3>1. Quiet(v, o)
      BY <2>3, <2>8, <2>11 DEF Quiet
    <3>2. Len(<< >>) = 0
      BY EmptySeq
    <3>3. Reading(v, o)
      BY <1>1, <2>3, <2>4, <2>8, <2>11, <3>2 DEF Reading
    <3>4. Writing(v, o)
      BY <2>3, <2>5, <2>8, <2>11 DEF Writing
    <3> QED BY <3>1, <3>3, <3>4 DEF Sound
  <2>16. Fine(v)
    BY <2>11, <2>13, <2>14, <2>15 DEF Fine
  <2>17. \A x \in Objects : Got(v, x) <= Got(u, x)
    <3>1. v.app[o].in_pos + v.app[o].in_size <= u.app[o].in_pos + u.app[o].in_size
      BY <1>2, <2>3, <2>8, <2>11, SMTT(30)
    <3> QED BY <1>1, <2>8, <2>11, <3>1, Accounts, ZenonT(40)
  <2> QED BY <2>11, <2>16, <2>17, SMTT(30) DEF v
<1> QED BY <1>3, <1>4

\* All is well but for one object.
FineBut(u, o) == u \in UipStates /\ Table(u) /\ \A x \in Objects : x # o => Sound(u, x)

\* The connection of the object turns to a remote end, or a new one does.
LEMMA Aims ==
  ASSUME NEW u, Fine(u), NEW o \in Objects, NEW p \in Peers
  PROVE  LET w == Uip!Aimed(u, o, p) IN
         /\ FineBut(w, o) /\ w.app = u.app /\ w.cur = u.cur /\ w.out = u.out /\ w.ins = u.ins
         /\ w.myData = u.myData /\ w.holder = u.holder
         /\ w.slot[o] # 0 => w.conns[w.slot[o]].rip = p
         /\ w.slot[o] = 0 => u.slot[o] = 0 /\ Uip!Free(u) = {}
<1> DEFINE w == Uip!Aimed(u, o, p)
           s == u.slot[o]
           c == [u.conns[s] EXCEPT !.rip = p]
<1>1. /\ u \in UipStates /\ u.conns \in [Uip!Slots -> UipConns] /\ u.slot \in [Objects -> 0 .. UdpConns]
      /\ UdpConns \in Nat /\ p \in Ends
  BY Typed, Numbers DEF Fine, Ends
<1>2. CASE s = 0
  <2>1. w = Uip!New(u, o, p)
    BY <1>2 DEF Uip!Aimed
  <2> HIDE DEF w
  <2>2. /\ Fine(w) /\ w.ins = u.ins /\ w.app = u.app /\ w.cur = u.cur /\ w.out = u.out
        /\ w.myData = u.myData /\ w.holder = u.holder
        /\ w.slot[o] # 0 => w.conns[w.slot[o]].rip = p
        /\ Uip!Free(u) # {} => w.slot[o] # 0
    BY <1>1, <1>2, <2>1, News
  <2> QED BY <1>2, <2>2 DEF Fine, FineBut, w
<1>3. CASE s # 0
  <2>1. s \in Uip!Slots /\ u.conns[s] \in UipConns
    BY <1>1, <1>3 DEF Uip!Slots
  <2>2. c \in UipConns /\ c.rip = p /\ c.app = u.conns[s].app /\ c.lport = u.conns[s].lport
    BY <1>1, <2>1 DEF UipConns
  <2>3. w = [u EXCEPT !.conns[s] = c]
    <3>1. w = [u EXCEPT !.conns[s].rip = p]
      BY <1>3 DEF Uip!Aimed
    <3>2. [u EXCEPT !.conns[s].rip = p] = [u EXCEPT !.conns[s] = c]
      BY ZenonT(40)
    <3> QED BY <3>1, <3>2
  <2> HIDE DEF c, w, s
  <2>4. /\ w \in UipStates /\ w.slot = u.slot /\ w.app = u.app /\ w.cur = u.cur /\ w.out = u.out
        /\ w.myData = u.myData /\ w.holder = u.holder /\ w.ins = u.ins
        /\ w.conns[s] = c /\ \A t \in Uip!Slots : t # s => w.conns[t] = u.conns[t]
    BY <1>1, <2>1, <2>2, <2>3, Entry
  <2>5. \A t \in Uip!Slots : w.conns[t].app = u.conns[t].app /\ w.conns[t].lport = u.conns[t].lport
    BY <2>2, <2>4
  <2>6. \A x \in Objects : u.slot[x] # 0 => u.slot[x] \in Uip!Slots
    BY <1>1, SMTT(30) DEF Uip!Slots
  <2>7. Table(w)
    BY <2>4, <2>5, <2>6 DEF Fine, Table
  <2>8. ASSUME NEW x \in Objects, x # o PROVE Sound(w, x)
    <3>1. Sound(u, x)
      BY SMTT(30) DEF Fine
    <3>2. u.app[x].in_size # 0 \/ u.app[x].packet_out => u.slot[x] # 0
      BY <3>1 DEF Sound, Quiet
    <3>3. u.slot[x] # 0 => u.slot[x] # s
      BY <1>3, <2>8 DEF Fine, Table, s
    <3>4. u.slot[x] # 0 => w.conns[w.slot[x]] = u.conns[u.slot[x]]
      BY <2>4, <2>6, <3>3
    <3> QED BY <2>4, <3>1, <3>2, <3>4, Others
  <2>9. FineBut(w, o)
    BY <2>4, <2>7, <2>8 DEF FineBut
  <2> QED BY <1>3, <2>2, <2>4, <2>9 DEF w, s
<1> QED BY <1>2, <1>3

LEMMA OwnFineBut ==
  ASSUME NEW u, NEW o \in Objects, FineBut(u, o),
         NEW a \in UipApps, NEW h \in UipHeard, NEW p \in UipPackets,
         LET v == Own(u, o, a, h, p) IN Quiet(v, o) /\ Reading(v, o) /\ Writing(v, o)
  PROVE  Fine(Own(u, o, a, h, p))
<1> DEFINE v == Own(u, o, a, h, p)
<1>1. /\ v \in UipStates /\ v.conns = u.conns /\ v.slot = u.slot
      /\ v.myData = u.myData /\ v.holder = u.holder
      /\ \A x \in Objects : x # o => v.app[x] = u.app[x] /\ v.cur[x] = u.cur[x] /\ v.out[x] = u.out[x]
  BY Owns, SMTT(30) DEF FineBut
<1>2. Sound(v, o)
  BY SMTT(30) DEF Sound
<1> HIDE DEF v
<1>3. Table(v)
  BY <1>1 DEF FineBut, Table
<1>4. ASSUME NEW x \in Objects, x # o PROVE Sound(v, x)
  BY <1>1, <1>4, Others DEF FineBut
<1>5. Fine(v)
  BY <1>1, <1>2, <1>3, <1>4 DEF Fine
<1> QED BY <1>5 DEF v

\* beginPacket() after its tick
LEMMA BeginsPacket2 ==
  ASSUME NEW u, Fine(u), NEW o \in Objects, NEW p \in Peers
  PROVE  LET v == Uip!BeginPacket(u, o, p) IN
         /\ Fine(v) /\ v.ins = u.ins /\ \A x \in Objects : Got(v, x) <= Got(u, x)
<1> DEFINE v == Uip!BeginPacket(u, o, p)
           w == Uip!Aimed(u, o, p)
           may == Uip!MayBeginPacket(u, o)
           a == IF may THEN [u.app[o] EXCEPT !.packet_out = TRUE, !.out_pos = 0] ELSE u.app[o]
           h == [u.cur[o] EXCEPT !.from = 0]
           q == IF may THEN [Uip!Unwritten EXCEPT !.to = p] ELSE [u.out[o] EXCEPT !.to = p]
<1>1. /\ u \in UipStates /\ u.app[o] \in UipApps /\ u.cur[o] \in UipHeard /\ u.out[o] \in UipPackets
      /\ Sound(u, o) /\ BufSize \in Nat /\ u.app \in [Objects -> UipApps]
  BY Typed, Numbers DEF Fine
<1>2. /\ FineBut(w, o) /\ w.app = u.app /\ w.cur = u.cur /\ w.out = u.out /\ w.ins = u.ins
      /\ w.myData = u.myData /\ w.holder = u.holder
      /\ w.slot[o] # 0 => w.conns[w.slot[o]].rip = p
      /\ w.slot[o] = 0 => u.slot[o] = 0 /\ Uip!Free(u) = {}
  BY Aims
<1>3. p \in Ends /\ p # 0 /\ 0 \in Ends
  BY Numbers DEF Ends
<1>4. /\ a \in UipApps /\ a.packet_in = u.app[o].packet_in /\ a.in_size = u.app[o].in_size
      /\ a.in_pos = u.app[o].in_pos /\ a.send = u.app[o].send
      /\ may => a.packet_out /\ a.out_pos = 0
      /\ ~may => a = u.app[o]
  <2>1. CASE may
    <3> DEFINE yes == TRUE
               b == [u.app[o] EXCEPT !.packet_out = yes, !.out_pos = 0]
    <3>1. yes \in BOOLEAN /\ 0 \in 0 .. BufSize
      BY <1>1
    <3>2. a = b
      BY <2>1
    <3> HIDE DEF yes
    <3>3. /\ b \in UipApps /\ b.packet_in = u.app[o].packet_in /\ b.in_size = u.app[o].in_size
          /\ b.in_pos = u.app[o].in_pos /\ b.send = u.app[o].send /\ b.packet_out = yes /\ b.out_pos = 0
      BY <1>1, <3>1, ZenonT(40) DEF UipApps
    <3> HIDE DEF a, b, may
    <3>4. a.packet_out
      BY Zenon, <3>2, <3>3 DEF yes
    <3> QED BY <2>1, <3>2, <3>3, <3>4
  <2>2. CASE ~may
    BY <1>1, <2>2
  <2> QED BY <2>1, <2>2
<1>5. h \in UipHeard /\ h.from = 0 /\ h.data = u.cur[o].data /\ h.read = u.cur[o].read /\ h.clean = u.cur[o].clean
  BY <1>1, <1>3, Zenon DEF UipHeard
<1>6. /\ q \in UipPackets /\ q.to = p
      /\ may => q.data = << >> /\ q.times = 0
      /\ ~may => q.data = u.out[o].data /\ q.clean = u.out[o].clean /\ q.times = u.out[o].times
                 /\ q.arp = u.out[o].arp
  <2>1. CASE may
    <3> DEFINE b == [Uip!Unwritten EXCEPT !.to = p]
    <3>1. b \in UipPackets /\ b.to = p /\ b.data = << >> /\ b.times = 0
      <4>1. \A r \in UipPackets : LET k == [r EXCEPT !.to = p] IN
              k \in UipPackets /\ k.to = p /\ k.data = r.data /\ k.times = r.times
        BY <1>3 DEF UipPackets
      <4>2. Uip!Unwritten \in UipPackets /\ Uip!Unwritten.data = << >> /\ Uip!Unwritten.times = 0
        BY EmptySeq DEF UipPackets, Uip!Unwritten, Uip!Anyone, Ends
      <4> QED BY <4>1, <4>2
    <3>2. q = b
      BY <2>1
    <3> HIDE DEF q, b, may
    <3> QED BY <2>1, <3>1, <3>2
  <2>2. CASE ~may
    <3> DEFINE b == [u.out[o] EXCEPT !.to = p]
    <3>1. /\ b \in UipPackets /\ b.to = p /\ b.data = u.out[o].data /\ b.clean = u.out[o].clean
          /\ b.times = u.out[o].times /\ b.arp = u.out[o].arp
      BY <1>1, <1>3 DEF UipPackets
    <3>2. q = b
      BY <2>2
    <3> HIDE DEF q, b, may
    <3> QED BY <2>2, <3>1, <3>2
  <2> QED BY <2>1, <2>2
<1>7. v = Own(w, o, a, h, q)
  <2>0. w \in UipStates
    BY <1>2 DEF FineBut
  <2>1. CASE may
    <3>1. v = [w EXCEPT !.app[o] = [w.app[o] EXCEPT !.packet_out = TRUE, !.out_pos = 0],
                        !.cur[o] = [w.cur[o] EXCEPT !.from = 0],
                        !.out[o] = [Uip!Unwritten EXCEPT !.to = p]]
      <4>1. v = [w EXCEPT !.app[o] = [@ EXCEPT !.packet_out = TRUE, !.out_pos = 0],
                          !.cur[o] = [@ EXCEPT !.from = 0],
                          !.out[o] = [Uip!Unwritten EXCEPT !.to = p]]
        BY <2>1 DEF Uip!BeginPacket, Uip!Anyone
      <4> HIDE DEF v, w
      <4> QED BY ZenonT(40), <4>1
    <3>2. v = [w EXCEPT !.app[o] = a, !.cur[o] = h, !.out[o] = q]
      <4>1. a = [w.app[o] EXCEPT !.packet_out = TRUE, !.out_pos = 0] /\ h = [w.cur[o] EXCEPT !.from = 0]
            /\ q = [Uip!Unwritten EXCEPT !.to = p]
        BY <1>2, <2>1
      <4> HIDE DEF v, w, a, h, q
      <4> QED BY Zenon, <3>1, <4>1
    <3> QED BY Zenon, <3>2 DEF Own
  <2>2. CASE ~may
    <3>1. v = [w EXCEPT !.cur[o] = [w.cur[o] EXCEPT !.from = 0], !.out[o] = [w.out[o] EXCEPT !.to = p]]
      <4>1. v = [w EXCEPT !.cur[o] = [@ EXCEPT !.from = 0], !.out[o] = [@ EXCEPT !.to = p]]
        BY <2>2 DEF Uip!BeginPacket, Uip!Anyone
      <4> HIDE DEF v, w
      <4> QED BY ZenonT(40), <4>1
    <3>2. v = [w EXCEPT !.cur[o] = h, !.out[o] = q]
      <4>1. h = [w.cur[o] EXCEPT !.from = 0] /\ q = [w.out[o] EXCEPT !.to = p]
        BY <1>2, <2>2, SMTT(30)
      <4> HIDE DEF v, w, h, q
      <4> QED BY ZenonT(40), <3>1, <4>1
    <3>3. \A k \in UipHeard, r \in UipPackets : [w EXCEPT !.cur[o] = k, !.out[o] = r] = Own(w, o, w.app[o], k, r)
      BY <2>0, OwnForms, ZenonT(40)
    <3>4. w.app[o] = a
      BY <1>2, <2>2, SMTT(30)
    <3> HIDE DEF v, w, h, q, a
    <3> QED BY ZenonT(40), <1>5, <1>6, <3>2, <3>3, <3>4
  <2> QED BY <2>1, <2>2
<1> HIDE DEF v, w, a, h, q
<1>8. /\ v.conns = w.conns /\ v.slot = w.slot /\ v.myData = u.myData /\ v.holder = u.holder
      /\ v.ins = u.ins /\ v.app[o] = a /\ v.cur[o] = h /\ v.out[o] = q
      /\ \A x \in Objects : x # o => v.app[x] = u.app[x]
  <2>1. w \in UipStates
    BY <1>2 DEF FineBut
  <2>2. /\ v.conns = w.conns /\ v.slot = w.slot /\ v.myData = w.myData /\ v.holder = w.holder
        /\ v.ins = w.ins /\ v.app[o] = a /\ v.cur[o] = h /\ v.out[o] = q
        /\ \A x \in Objects : x # o => v.app[x] = w.app[x]
    BY <1>4, <1>5, <1>6, <1>7, <2>1, Owns
  <2> QED BY <1>2, <2>2, SMTT(30)
<1>9. Quiet(u, o) /\ Reading(u, o) /\ Writing(u, o)
  BY <1>1 DEF Sound
<1>10. w.slot[o] = 0 => u.slot[o] = 0 /\ ~may
  BY <1>2 DEF Uip!MayBeginPacket
<1>11. Quiet(v, o)
  BY <1>4, <1>8, <1>9, <1>10, SMTT(30) DEF Quiet
<1>12. Reading(v, o)
  <2>1. a.packet_in => u.app[o].packet_in
    BY ZenonT(40), <1>4
  <2>2. h.clean => u.cur[o].clean
    BY ZenonT(40), <1>5
  <2>3. ASSUME h.clean, v.holder = <<"in", o>>
        PROVE  /\ Len(h.data) <= BufSize /\ Len(h.read) <= Len(h.data)
               /\ \A i \in 1 .. Len(h.data) : v.myData[i] = h.data[i]
               /\ \A i \in 1 .. Len(h.read) : h.read[i] = h.data[i]
               /\ a.packet_in => /\ a.in_pos = Len(h.read) /\ a.in_pos + a.in_size = Len(h.data)
                                 /\ Len(h.data) # 0 => a.in_size # 0
    BY <1>4, <1>5, <1>8, <1>9, <2>1, <2>2, <2>3 DEF Reading
  <2> QED BY <1>5, <1>8, <2>3, Zenon DEF Reading
<1>13. Writing(v, o)
  <2>1. CASE may
    <3>1. v.slot[o] # 0 /\ v.conns[v.slot[o]].rip = p
      BY <1>2, <1>8, <1>10, <2>1
    <3>2. Len(<< >>) = 0
      BY EmptySeq, SMTT(30)
    <3> QED BY <1>3, <1>4, <1>6, <1>8, <1>9, <2>1, <3>1, <3>2 DEF Writing
  <2>2. CASE ~may
    <3>1. a.packet_out => v.slot[o] # 0 /\ v.conns[v.slot[o]].rip = p
      BY <1>2, <1>4, <1>8, <1>9, <2>2 DEF Quiet
    <3>2. u.app[o].packet_out =>
             /\ u.out[o].times > 0 => u.out[o].arp
             /\ Len(u.out[o].data) = u.app[o].out_pos
             /\ u.out[o].clean /\ Uip!Undisturbed(u, o) => \A i \in 1 .. u.app[o].out_pos : u.myData[i] = u.out[o].data[i]
      BY <1>9 DEF Writing
    <3>3. Uip!Undisturbed(v, o) => Uip!Undisturbed(u, o)
      BY <1>6, <1>8, <2>2 DEF Uip!Undisturbed
    <3>4. (a.send => a.packet_out) /\ (q.times > 1 => q.arp)
      BY <1>4, <1>6, <1>9, <2>2 DEF Writing
    <3> QED BY <1>3, <1>4, <1>6, <1>8, <2>2, <3>1, <3>2, <3>3, <3>4, SMTT(30) DEF Writing
  <2> QED BY <2>1, <2>2, SMTT(30)
<1>14. Fine(v)
  BY <1>2, <1>4, <1>5, <1>6, <1>7, <1>11, <1>12, <1>13, OwnFineBut
<1>15. \A x \in Objects : Got(v, x) <= Got(u, x)
  <2>1. u.app[o].in_pos \in Nat /\ u.app[o].in_size \in Nat
    BY <1>1 DEF UipApps
  <2>2. v.app[o].in_pos + v.app[o].in_size <= u.app[o].in_pos + u.app[o].in_size
    BY <1>4, <1>8, <2>1
  <2> QED BY <1>1, <1>8, <2>2, Accounts, ZenonT(40)
<1> QED BY <1>8, <1>14, <1>15 DEF v

\* Counters do not matter.
LEMMA CountersFree ==
  ASSUME NEW u, Fine(u), NEW v \in UipStates,
         v.conns = u.conns, v.slot = u.slot, v.app = u.app, v.cur = u.cur, v.out = u.out,
         v.myData = u.myData, v.holder = u.holder
  PROVE  Fine(v) /\ \A x \in Objects : Got(v, x) = Got(u, x)
<1>1. Table(v)
  BY SMTT(30) DEF Fine, Table
<1>2. ASSUME NEW x \in Objects PROVE Sound(v, x)
  BY Others DEF Fine
<1> QED BY <1>1, <1>2, SMTT(30) DEF Fine, Got

LEMMA Room ==
  ASSUME NEW i \in Nat
  PROVE  i * BufSize \in Nat /\ (i + 1) * BufSize = i * BufSize + BufSize
BY Numbers, SMTT(30)

\* A datagram that has come
LEMMA Datagram ==
  ASSUME NEW u, Fine(u), Counts(u), NEW d \in Uip!Datagrams(u)
  PROVE  \/ d = Uip!Nothing
         \/ d # Uip!Nothing /\ d.from \in Peers /\ d.data \in Seq(UnitSet) /\ u.ins < MaxIn
<1> SUFFICES ASSUME d # Uip!Nothing
             PROVE  d.from \in Peers /\ d.data \in Seq(UnitSet) /\ u.ins < MaxIn
  OBVIOUS
<1>1. u.ins \in Nat /\ u.ins <= MaxIn /\ MaxIn \in Nat
  BY Typed, Numbers DEF Fine, Counts
<1>2. u.ins # MaxIn /\ \E p \in Peers, t \in Uip!Slots, n \in UipSizes :
        d = [from |-> p, port |-> u.conns[t].lport, data |-> Uip!Units(u.ins + 1, n)]
  <2> DEFINE full == u.ins = MaxIn \/ u.ins + u.outs >= MaxAll
             D == {[from |-> p, port |-> u.conns[t].lport, data |-> Uip!Units(u.ins + 1, n)] :
                     p \in Peers, t \in {x \in Uip!Slots : u.conns[x].lport # 0}, n \in UipSizes}
  <2>1. d \in {Uip!Nothing} \cup (IF full THEN {} ELSE D)
    BY DEF Uip!Datagrams
  <2> HIDE DEF full, D
  <2>2. ~full /\ d \in D
    BY <2>1
  <2>3. u.ins # MaxIn
    BY <2>2 DEF full
  <2>4. \E p \in Peers, t \in Uip!Slots, n \in UipSizes :
          d = [from |-> p, port |-> u.conns[t].lport, data |-> Uip!Units(u.ins + 1, n)]
    BY <2>2 DEF D
  <2> QED BY <2>3, <2>4, SMTT(30)
<1>3. PICK p \in Peers, t \in Uip!Slots, n \in UipSizes :
        d = [from |-> p, port |-> u.conns[t].lport, data |-> Uip!Units(u.ins + 1, n)]
  BY <1>2
<1>4. Uip!Units(u.ins + 1, n) \in Seq(UnitSet)
  <2> DEFINE k == u.ins + 1
  <2>1. n \in Nat /\ k \in Nat
    BY <1>1, Numbers
  <2> HIDE DEF k
  <2>2. \A i \in 1 .. n : <<"in", k, i>> \in UnitSet
    BY <2>1 DEF UnitSet
  <2>3. [i \in 1 .. n |-> <<"in", k, i>>] \in Seq(UnitSet)
    BY <2>1, <2>2, IsASeq
  <2>4. Uip!Units(k, n) \in Seq(UnitSet)
    BY <2>3 DEF Uip!Units
  <2> QED BY <2>4 DEF k
<1> QED BY <1>1, <1>2, <1>3, <1>4

\* tick()
LEMMA Ticks ==
  ASSUME NEW u, Fine(u), Counts(u), NEW d \in Uip!Datagrams(u)
  PROVE  LET v == Uip!Tick(Uip!Counted(u, d), d) IN Fine(v) /\ Counts(v)
<1> DEFINE v == Uip!Tick(Uip!Counted(u, d), d)
<1>1. /\ u \in UipStates /\ u.ins \in Nat /\ MaxIn \in Nat /\ BufSize \in Nat
      /\ \A x \in Objects : Got(u, x) \in Nat
  <2>1. ASSUME NEW x \in Objects PROVE Got(u, x) \in Nat
    <3>1. u.app[x] \in UipApps
      BY Typed DEF Fine
    <3> QED BY <3>1 DEF UipApps, Got
  <2> QED BY <2>1, Typed, Numbers DEF Fine
<1>2. CASE d = Uip!Nothing
  <2>1. v = Uip!PollAll(u)
    BY <1>2 DEF Uip!Tick, Uip!Counted
  <2>2. Fine(v) /\ v.ins = u.ins /\ \A x \in Objects : Got(v, x) = Got(u, x)
    BY <2>1, PollsAll
  <2> HIDE DEF v
  <2>3. Counts(v)
    BY <2>2 DEF Counts
  <2> QED BY <2>2, <2>3 DEF v
<1>3. CASE d # Uip!Nothing
  <2>1. d.from \in Peers /\ d.data \in Seq(UnitSet) /\ u.ins < MaxIn
    BY <1>3, Datagram
  <2> DEFINE n == u.ins + 1
             w == [u EXCEPT !.ins = n]
             r == Uip!Receive(w, d)
  <2>2. v = Uip!PollAll(r)
    <3>1. Uip!Counted(u, d) = w
      BY <1>3 DEF Uip!Counted
    <3> QED BY <1>3, <3>1 DEF Uip!Tick
  <2>3. n \in Nat /\ n <= MaxIn
    BY <1>1, <2>1
  <2> HIDE DEF n, v
  <2>4. /\ w \in UipStates /\ w.ins = n /\ w.conns = u.conns /\ w.slot = u.slot /\ w.app = u.app
        /\ w.cur = u.cur /\ w.out = u.out /\ w.myData = u.myData /\ w.holder = u.holder
    BY <1>1, <2>3 DEF UipStates
  <2> HIDE DEF w
  <2>5. Fine(w) /\ \A x \in Objects : Got(w, x) = Got(u, x)
    BY <2>4, CountersFree
  <2>6. Fine(r) /\ r.ins = n /\ \A x \in Objects : Got(r, x) <= Got(w, x) + BufSize
    BY <2>1, <2>4, <2>5, Receives
  <2> HIDE DEF r
  <2>7. Fine(v) /\ v.ins = n /\ \A x \in Objects : Got(v, x) = Got(r, x)
    BY <2>2, <2>6, PollsAll, SMTT(30)
  <2>8. Counts(v)
    <3> DEFINE b == u.ins * BufSize
    <3>1. n * BufSize = b + BufSize /\ b \in Nat
      BY <1>1, Room DEF n
    <3>2. \A x \in Objects : Got(u, x) <= b
      BY DEF Counts
    <3> HIDE DEF b
    <3>3. ASSUME NEW x \in Objects PROVE Got(v, x) <= b + BufSize
      <4>1. Got(v, x) <= Got(u, x) + BufSize /\ Got(u, x) <= b /\ Got(u, x) \in Nat
        BY <1>1, <2>5, <2>6, <2>7, <3>2
      <4>2. Got(v, x) \in Nat
        <5>1. v.app[x] \in UipApps
          BY <2>7, Typed DEF Fine
        <5> QED BY <5>1 DEF UipApps, Got
      <4> QED BY <1>1, <3>1, <4>1, <4>2
    <3> QED BY <2>3, <2>7, <3>1, <3>3 DEF Counts
  <2> QED BY <2>7, <2>8 DEF v
<1> QED BY <1>2, <1>3

\* What is not more than it was has still come.
LEMMA NoMore ==
  ASSUME NEW u, Fine(u), Counts(u), NEW v, Fine(v), v.ins = u.ins, \A x \in Objects : Got(v, x) <= Got(u, x)
  PROVE  Counts(v)
<1> DEFINE b == u.ins * BufSize
<1>1. u.ins \in Nat /\ b \in Nat
  BY Typed, Room DEF Fine
<1>2. u.ins <= MaxIn /\ \A x \in Objects : Got(u, x) <= b
  BY DEF Counts
<1> HIDE DEF b
<1>3. ASSUME NEW x \in Objects PROVE Got(v, x) <= b
  <2>1. Got(u, x) \in Nat /\ Got(v, x) \in Nat
    <3>1. u.app[x] \in UipApps /\ v.app[x] \in UipApps
      BY Typed DEF Fine
    <3> QED BY <3>1 DEF UipApps, Got
  <2> QED BY <1>1, <1>2, <2>1, SMTT(30)
<1> QED BY <1>2, <1>3 DEF Counts, b

LEMMA UipStarts == Uip!Init => UipInv
<1> SUFFICES ASSUME udp = Uip!Start PROVE UipInv
  BY DEF Uip!Init
<1> DEFINE e == [lport |-> 0, rip |-> 0, app |-> 0]
<1>1. Uip!Cleared \in UipApps
  BY Numbers DEF UipApps, Uip!Cleared
<1>2. Uip!Unheard \in UipHeard /\ Uip!Unwritten \in UipPackets
  BY EmptySeq DEF UipHeard, UipPackets, Uip!Unheard, Uip!Unwritten, Uip!Anyone, Ends
<1>3. e \in UipConns
  BY DEF UipConns, Ends
<1> DEFINE a == [i \in 1 .. BufSize |-> Uip!Junk]
<1>4. a \in Arrays
  <2>1. Uip!Junk \in UnitSet
    BY DEF Uip!Junk, UnitSet
  <2>2. a \in Seq(UnitSet) /\ Len(a) = BufSize
    BY <2>1, Numbers, IsASeq, LenProperties
  <2> QED BY <2>2, Zenon DEF Arrays
<1>5. <<"out", 0>> \in Holders /\ 0 \in 0 .. UdpConns
  BY Numbers DEF Holders
<1>6. udp = [conns |-> [s \in Uip!Slots |-> e], slot |-> [o \in Objects |-> 0],
             app |-> [o \in Objects |-> Uip!Cleared], myData |-> a, holder |-> <<"out", 0>>,
             cur |-> [o \in Objects |-> Uip!Unheard], out |-> [o \in Objects |-> Uip!Unwritten],
             ins |-> 0, outs |-> 0]
  BY DEF Uip!Start, Uip!Anyone
<1> HIDE DEF e, a
<1>7. udp \in UipStates
  BY <1>1, <1>2, <1>3, <1>4, <1>5, <1>6 DEF UipStates
<1>8. /\ udp.slot = [o \in Objects |-> 0] /\ udp.conns = [s \in Uip!Slots |-> e] /\ udp.ins = 0
      /\ udp.app = [o \in Objects |-> Uip!Cleared] /\ udp.out = [o \in Objects |-> Uip!Unwritten]
      /\ udp.holder = <<"out", 0>>
  BY <1>6
<1>9. Table(udp)
  BY <1>8 DEF Table, e
<1>10. ASSUME NEW o \in Objects PROVE Sound(udp, o)
  <2>1. /\ ~udp.app[o].packet_in /\ ~udp.app[o].packet_out /\ ~udp.app[o].send /\ udp.app[o].in_size = 0
    BY <1>8 DEF Uip!Cleared
  <2>2. udp.out[o].times = 0
    BY <1>8 DEF Uip!Unwritten
  <2>3. udp.holder # <<"in", o>>
    BY <1>8
  <2>4. Quiet(udp, o) /\ Reading(udp, o)
    BY <2>1, <2>3 DEF Quiet, Reading
  <2>5. Writing(udp, o)
    BY <2>1, <2>2 DEF Writing
  <2> QED BY <2>4, <2>5 DEF Sound
<1>11. Counts(udp)
  <2>1. \A o \in Objects : Got(udp, o) = 0
    <3>1. Uip!Cleared.in_pos = 0 /\ Uip!Cleared.in_size = 0
      BY DEF Uip!Cleared
    <3>2. ASSUME NEW o \in Objects PROVE Got(udp, o) = 0
      <4>1. udp.app[o] = Uip!Cleared
        BY <1>8
      <4>2. udp.app[o].in_pos = 0 /\ udp.app[o].in_size = 0
        BY <3>1, <4>1
      <4> QED BY <4>2 DEF Got
    <3> QED BY <3>2, Zenon
  <2>2. 0 * BufSize = 0
    BY Numbers
  <2> QED BY <1>8, <2>1, <2>2, Numbers DEF Counts
<1> QED BY <1>7, <1>9, <1>10, <1>11 DEF UipInv, Fine

LEMMA UipStep == UipInv /\ [Uip!Next]_udp => UipInv'
<1> SUFFICES ASSUME Fine(udp), Counts(udp), [Uip!Next]_udp PROVE Fine(udp') /\ Counts(udp')
  BY DEF UipInv, Fine, Counts, Table, Sound, Quiet, Reading, Writing, Got, Uip!Undisturbed
<1>1. CASE Uip!DoTick
  BY <1>1, Ticks DEF Uip!DoTick
<1>2. CASE Uip!DoBegin
  <2>1. PICK o \in Objects, port \in Ports : udp' = Uip!Begin(udp, o, port)
    BY <1>2 DEF Uip!DoBegin
  <2>2. Fine(udp') /\ udp'.ins = udp.ins /\ udp'.app = udp.app
    BY <2>1, Begins2
  <2>3. Counts(udp')
    BY <2>2 DEF Counts, Got
  <2> QED BY <2>2, <2>3
<1>3. CASE Uip!DoStop
  <2>1. PICK o \in Objects : udp' = Uip!Stop(udp, o)
    BY <1>3 DEF Uip!DoStop
  <2> QED BY <2>1, Stops, NoMore
<1>4. CASE Uip!DoBeginPacket
  <2> DEFINE n == udp.outs + 1
             w == [udp EXCEPT !.outs = n]
  <2>1. PICK o \in Objects, p \in Peers, d \in Uip!Datagrams(w) :
          udp' = Uip!BeginPacket(Uip!Tick(Uip!Counted(w, d), d), o, p)
    BY <1>4 DEF Uip!DoBeginPacket
  <2>2. udp \in UipStates /\ n \in Nat
    BY Typed DEF Fine
  <2> HIDE DEF n
  <2>3. /\ w \in UipStates /\ w.ins = udp.ins /\ w.conns = udp.conns /\ w.slot = udp.slot /\ w.app = udp.app
        /\ w.cur = udp.cur /\ w.out = udp.out /\ w.myData = udp.myData /\ w.holder = udp.holder
    BY <2>2 DEF UipStates
  <2> HIDE DEF w
  <2>4. Fine(w) /\ Counts(w)
    <3>1. Fine(w) /\ \A x \in Objects : Got(w, x) = Got(udp, x)
      BY <2>3, CountersFree
    <3> QED BY <2>3, <3>1 DEF Counts
  <2> DEFINE t == Uip!Tick(Uip!Counted(w, d), d)
  <2>5. Fine(t) /\ Counts(t)
    BY <2>4, Ticks
  <2> HIDE DEF t
  <2>6. udp' = Uip!BeginPacket(t, o, p)
    BY <2>1 DEF t
  <2>7. Fine(udp') /\ udp'.ins = t.ins /\ \A x \in Objects : Got(udp', x) <= Got(t, x)
    BY <2>5, <2>6, BeginsPacket2
  <2> QED BY <2>5, <2>7, NoMore
<1>5. CASE Uip!DoWrite
  <2> DEFINE unit(o) == <<"out", udp.outs, udp.app[o].out_pos + 1>>
  <2>1. PICK o \in Objects :
          Uip!Fits(udp, o, << unit(o) >>) /\ udp' = Uip!Write(udp, o, << unit(o) >>)
    BY <1>5 DEF Uip!DoWrite
  <2>2. udp.outs \in Nat /\ udp.app[o] \in UipApps /\ BufSize \in Nat
    BY Typed, Numbers DEF Fine
  <2>3. unit(o) \in UnitSet
    BY <2>2 DEF UnitSet, UipApps
  <2> DEFINE data == << unit(o) >>
  <2>4. data \in Seq(UnitSet)
    <3> HIDE DEF unit
    <3> QED BY <2>3
  <2>5. Uip!Fits(udp, o, data) /\ udp' = Uip!Write(udp, o, data)
    BY <2>1
  <2> HIDE DEF data
  <2>6. Fine(udp') /\ udp'.ins = udp.ins /\ \A x \in Objects : Got(udp', x) <= Got(udp, x)
    BY <2>4, <2>5, WritesOn
  <2> QED BY <2>6, NoMore
<1>6. CASE Uip!DoEndPacket
  <2>1. PICK o \in Objects : udp' = Uip!EndPacket(udp, o)
    BY <1>6 DEF Uip!DoEndPacket
  <2> QED BY <2>1, EndsPacket, NoMore
<1>7. CASE Uip!DoRead
  <2>1. PICK o \in Objects, n \in 1 .. BufSize : udp' = Uip!Read(udp, o, n)
    BY <1>7 DEF Uip!DoRead
  <2>2. n \in Nat
    BY Numbers
  <2> QED BY <2>1, <2>2, ReadsOn, NoMore
<1>8. CASE Uip!DoFlush
  <2>1. PICK o \in Objects : udp' = Uip!Flush(udp, o)
    BY <1>8 DEF Uip!DoFlush
  <2> QED BY <2>1, Flushes, NoMore
<1>9. CASE UNCHANGED udp
  BY <1>9
<1> QED BY <1>1, <1>2, <1>3, <1>4, <1>5, <1>6, <1>7, <1>8, <1>9, SMTT(30) DEF Uip!Next

LEMMA Prefixes ==
  ASSUME NEW s \in Seq(UnitSet), NEW t \in Seq(UnitSet), Len(s) <= Len(t), \A i \in 1 .. Len(s) : s[i] = t[i]
  PROVE  Uip!IsPrefix(s, t)
<1>1. SubSeq(s, 1, Len(s)) = s
  BY Begins
<1>2. SubSeq(t, 1, Len(s)) = s
  BY Begins
<1> QED BY <1>1, <1>2 DEF Uip!IsPrefix

\* The numbers of what was received have a bound.
LEMMA UipTypes == UipInv => Uip!TypeOK
<1> SUFFICES ASSUME Fine(udp), Counts(udp) PROVE Uip!TypeOK
  BY DEF UipInv
<1>1. /\ udp.slot \in [Objects -> 0 .. UdpConns] /\ udp.app \in [Objects -> UipApps]
      /\ udp.conns \in [Uip!Slots -> UipConns] /\ udp.ins \in Nat /\ UdpConns \in Nat
  BY Typed, Numbers DEF Fine
<1>2. ASSUME NEW o \in Objects
      PROVE  udp.app[o] \in [packet_in : BOOLEAN, packet_out : BOOLEAN, send : BOOLEAN,
                             in_size : 0 .. MaxIn * BufSize, in_pos : 0 .. MaxIn * BufSize,
                             out_pos : 0 .. BufSize]
  <2> DEFINE b == MaxIn * BufSize
             r == udp.app[o]
  <2>1. udp.ins * BufSize \in Nat /\ udp.ins * BufSize <= b /\ b \in Nat
    <3>1. \A i, j, k \in Nat : i <= j => i * k \in Nat /\ i * k <= j * k /\ j * k \in Nat
      OBVIOUS
    <3> QED BY <1>1, <3>1, Numbers DEF Counts
  <2>2. r \in UipApps /\ r.in_pos \in Nat /\ r.in_size \in Nat
    BY <1>1 DEF UipApps
  <2>3. r.in_pos + r.in_size <= udp.ins * BufSize
    BY DEF Counts, Got
  <2> HIDE DEF b
  <2>4. r.in_pos \in 0 .. b /\ r.in_size \in 0 .. b
    <3> DEFINE c == udp.ins * BufSize
    <3>1. c \in Nat /\ c <= b /\ r.in_pos + r.in_size <= c
      BY <2>1, <2>3
    <3> HIDE DEF c, r
    <3> QED BY <2>1, <2>2, <3>1
  <2> HIDE DEF r
  <2>5. r \in [packet_in : BOOLEAN, packet_out : BOOLEAN, send : BOOLEAN,
               in_size : 0 .. b, in_pos : 0 .. b, out_pos : 0 .. BufSize]
    BY <2>2, <2>4 DEF UipApps
  <2> QED BY <2>5 DEF b, r
<1>3. ASSUME NEW o \in Objects PROVE udp.slot[o] # 0 => udp.conns[udp.slot[o]].app = o
  BY DEF Fine, Table
<1>4. ASSUME NEW s \in Uip!Slots, udp.conns[s].lport # 0
      PROVE  /\ udp.conns[s].app \in Objects /\ udp.slot[udp.conns[s].app] = s
             /\ udp.conns[s].rip \in Peers \cup {Uip!Anyone}
  <2>1. udp.conns[s].rip \in Ends
    BY <1>1 DEF UipConns
  <2> QED BY <1>4, <2>1 DEF Fine, Table, Ends, Uip!Anyone
<1> QED BY Zenon, <1>1, <1>2, <1>3, <1>4 DEF Uip!TypeOK

LEMMA UipReads == UipInv => Uip!ReadsFirst /\ Uip!RemoteIsSender
<1> SUFFICES ASSUME Fine(udp) PROVE Uip!ReadsFirst /\ Uip!RemoteIsSender
  BY DEF UipInv
<1>1. udp \in UipStates /\ udp.app \in [Objects -> UipApps] /\ udp.cur \in [Objects -> UipHeard] /\ BufSize \in Nat
  BY Typed, Numbers DEF Fine
<1>2. ASSUME NEW o \in Objects, udp.cur[o].clean, udp.holder = <<"in", o>>
      PROVE  LET c == udp.cur[o]
                 next == IF c.data = << >> THEN << >> ELSE Uip!Peek(udp, o)
             IN  Uip!IsPrefix(c.read \o next, c.data)
  <2> DEFINE c == udp.cur[o]
             a == udp.app[o]
             next == IF c.data = << >> THEN << >> ELSE Uip!Peek(udp, o)
  <2>1. /\ c.data \in Seq(UnitSet) /\ c.read \in Seq(UnitSet) /\ a.in_pos \in Nat /\ a.in_size \in Nat
        /\ Len(c.data) \in Nat /\ Len(c.read) \in Nat
    <3>1. c.data \in Seq(UnitSet) /\ c.read \in Seq(UnitSet)
      BY <1>1 DEF UipHeard
    <3> QED BY <1>1, <3>1, LenProperties, SMTT(30) DEF UipApps
  <2>2. /\ Len(c.data) <= BufSize /\ Len(c.read) <= Len(c.data)
        /\ \A i \in 1 .. Len(c.data) : udp.myData[i] = c.data[i]
        /\ \A i \in 1 .. Len(c.read) : c.read[i] = c.data[i]
        /\ a.packet_in => /\ a.in_pos = Len(c.read) /\ a.in_pos + a.in_size = Len(c.data)
                          /\ Len(c.data) # 0 => a.in_size # 0
    BY <1>2, SMTT(30) DEF Fine, Sound, Reading
  <2>3. CASE c.data = << >> \/ ~a.packet_in
    <3>1. next = << >>
      BY <2>3 DEF Uip!Peek
    <3>2. c.read \o next = c.read
      BY <2>1, <3>1, ConcatEmptySeq, Zenon
    <3> QED BY <2>1, <2>2, <3>2, Prefixes, Zenon
  <2>4. CASE c.data # << >> /\ a.packet_in
    <3>1. next = Uip!From(udp, a.in_pos, 1)
      BY <2>4 DEF Uip!Peek
    <3>2. Len(c.data) # 0
      BY <2>1, <2>4, EmptySeq
    <3>3. a.in_pos = Len(c.read) /\ a.in_pos + 1 <= Len(c.data) /\ a.in_pos + 1 <= BufSize
      BY <1>1, <2>1, <2>2, <2>4, <3>2, SMTT(30)
    <3>4. next \in Seq(UnitSet) /\ Len(next) = 1 /\ next[1] = udp.myData[a.in_pos + 1]
      <4>1. \A k \in Nat : /\ Uip!From(udp, k, 1) \in Seq(UnitSet) /\ Len(Uip!From(udp, k, 1)) = 1
                           /\ k + 1 <= BufSize => \A i \in 1 .. 1 : Uip!From(udp, k, 1)[i] = udp.myData[k + i]
        <5>1. 1 \in Nat
          OBVIOUS
        <5> QED BY <1>1, <5>1, FromIs, Zenon
      <4>2. 1 \in 1 .. 1
        OBVIOUS
      <4> HIDE DEF next
      <4> QED BY <2>1, <3>1, <3>3, <4>1, <4>2
    <3> HIDE DEF next
    <3> DEFINE s == c.read
               n == Len(s) + 1
               t == c.data
    <3>5. /\ s \o next \in Seq(UnitSet) /\ Len(s \o next) = n
          /\ \A i \in 1 .. n : (s \o next)[i] = IF i <= Len(s) THEN s[i] ELSE next[i - Len(s)]
      <4>1. n \in Nat /\ n = Len(s) + Len(next)
        BY <2>1, <3>4, SMTT(30)
      <4> HIDE DEF n, s
      <4>2. s \in Seq(UnitSet)
        BY <2>1 DEF s
      <4>3. next \in Seq(UnitSet)
        BY <3>4
      <4>4. \A x, y \in Seq(UnitSet), k \in Nat : k = Len(x) + Len(y) =>
              /\ x \o y \in Seq(UnitSet) /\ Len(x \o y) = k
              /\ \A i \in 1 .. k : (x \o y)[i] = IF i <= Len(x) THEN x[i] ELSE y[i - Len(x)]
        BY Joined
      <4> QED BY <4>1, <4>2, <4>3, <4>4
    <3>6. ASSUME NEW i \in 1 .. n PROVE (s \o next)[i] = t[i]
      <4>1. CASE i <= Len(s)
        BY <2>1, <2>2, <3>5, <4>1
      <4>2. CASE ~(i <= Len(s))
        <5>1. i = Len(s) + 1 /\ i - Len(s) = 1 /\ i \in 1 .. Len(t)
          BY <2>1, <3>3, <4>2, SMTT(30)
        <5>2. (s \o next)[i] = next[1]
          BY <3>5, <4>2, <5>1
        <5>3. next[1] = t[i]
          BY <2>2, <3>3, <3>4, <5>1, Zenon
        <5> QED BY <5>2, <5>3
      <4> QED BY <4>1, <4>2, Zenon
    <3>7. n <= Len(t)
      BY <2>1, <3>3
    <3> DEFINE x == s \o next
    <3>8. x \in Seq(UnitSet) /\ t \in Seq(UnitSet) /\ Len(x) <= Len(t) /\ \A i \in 1 .. Len(x) : x[i] = t[i]
      BY <2>1, <3>5, <3>6, <3>7, SMTT(30)
    <3> HIDE DEF x, t
    <3>9. Uip!IsPrefix(x, t)
      BY <3>8, Prefixes
    <3> QED BY <3>9 DEF x, t, next
  <2> QED BY <2>3, <2>4
<1>3. Uip!ReadsFirst
  BY <1>2 DEF Uip!ReadsFirst
<1>4. ASSUME NEW o \in Objects, udp.app[o].in_size > 0, udp.cur[o].from # 0
      PROVE  Uip!RemoteIP(udp, o) = udp.cur[o].from
  <2>1. Sound(udp, o) /\ udp.app[o].in_size # 0
    BY <1>4 DEF Fine
  <2>2. udp.slot[o] # 0 /\ udp.conns[udp.slot[o]].rip = udp.cur[o].from
    BY <1>4, <2>1 DEF Sound, Quiet, Reading
  <2> QED BY <2>2 DEF Uip!RemoteIP
<1>5. Uip!RemoteIsSender
  BY <1>4 DEF Uip!RemoteIsSender, Uip!Anyone
<1> QED BY <1>3, <1>5

LEMMA UipSends == UipInv => Uip!SendsWritten /\ Uip!SentOnce
<1> SUFFICES ASSUME Fine(udp) PROVE Uip!SendsWritten /\ Uip!SentOnce
  BY DEF UipInv
<1>1. udp \in UipStates /\ udp.app \in [Objects -> UipApps] /\ udp.out \in [Objects -> UipPackets] /\ BufSize \in Nat
  BY Typed, Numbers DEF Fine
<1>2. ASSUME NEW o \in Objects, udp.app[o].packet_out
      PROVE  /\ Uip!RemoteIP(udp, o) = udp.out[o].to
             /\ udp.out[o].clean /\ Uip!Undisturbed(udp, o) =>
                  udp.out[o].data = Uip!From(udp, 0, udp.app[o].out_pos)
  <2> DEFINE p == udp.out[o]
             n == udp.app[o].out_pos
             f == Uip!From(udp, 0, n)
  <2>1. /\ udp.slot[o] # 0 /\ udp.conns[udp.slot[o]].rip = p.to /\ Len(p.data) = n
        /\ p.clean /\ Uip!Undisturbed(udp, o) => \A i \in 1 .. n : udp.myData[i] = p.data[i]
    BY <1>2 DEF Fine, Sound, Quiet, Writing
  <2>2. p.data \in Seq(UnitSet) /\ n \in Nat /\ n <= BufSize
    BY <1>1 DEF UipPackets, UipApps
  <2> HIDE DEF n
  <2>3. f \in Seq(UnitSet) /\ Len(f) = n /\ \A i \in 1 .. n : f[i] = udp.myData[i]
    <3>1. \A k \in Nat : /\ Uip!From(udp, k, n) \in Seq(UnitSet) /\ Len(Uip!From(udp, k, n)) = n
                         /\ k + n <= BufSize => \A i \in 1 .. n : Uip!From(udp, k, n)[i] = udp.myData[k + i]
      BY <1>1, <2>2, FromIs, Zenon
    <3>2. 0 \in Nat /\ 0 + n <= BufSize /\ \A i \in 1 .. n : 0 + i = i
      BY <2>2
    <3>3. /\ Uip!From(udp, 0, n) \in Seq(UnitSet) /\ Len(Uip!From(udp, 0, n)) = n
          /\ \A i \in 1 .. n : Uip!From(udp, 0, n)[i] = udp.myData[0 + i]
      BY <3>1, <3>2
    <3> QED BY <3>2, <3>3
  <2> HIDE DEF f
  <2>4. ASSUME p.clean, Uip!Undisturbed(udp, o) PROVE p.data = f
    <3>1. Len(p.data) = Len(f) /\ \A i \in 1 .. Len(p.data) : p.data[i] = f[i]
      BY <2>1, <2>2, <2>3, <2>4
    <3> QED BY <2>2, <2>3, <3>1, SeqEqual
  <2>5. Uip!RemoteIP(udp, o) = p.to
    BY <2>1 DEF Uip!RemoteIP
  <2> QED BY <2>4, <2>5 DEF f, n
<1>3. Uip!SendsWritten
  BY <1>2 DEF Uip!SendsWritten
<1>4. Uip!SentOnce
  BY DEF Uip!SentOnce, Fine, Sound, Writing
<1> QED BY <1>3, <1>4

-----------------------------------------------------------------------------
(* The lwIP build.  While nothing unsent has been written the output       *)
(* buffer is empty, which is why a packet then begun is alone in it.       *)

LwipBlocks == [exists : BOOLEAN, port : Ports \cup {0}, remote : Ends, recv : BOOLEAN]
LwipHeard == [from : Ends, data : Seq(UnitSet), read : Nat]
LwipPackets == [Objects -> [to : Ends, data : Seq(UnitSet), alone : BOOLEAN]]

LwipTyped ==
  /\ udpPcb \in LwipBlocks
  /\ inb \in Seq(UnitSet) /\ outb \in Seq(UnitSet)
  /\ lcur \in LwipHeard /\ lout \in LwipPackets
  /\ unsent \in BOOLEAN /\ lins \in Nat /\ louts \in Nat

LwipInv ==
  /\ LwipTyped /\ Lwip!TypeOK /\ Lwip!ReadsCurrent /\ Lwip!SendsWritten
  /\ ~unsent => outb = << >>

LEMMA LwipStarts == Lwip!Init => LwipInv
<1> SUFFICES ASSUME Lwip!Init PROVE LwipInv
  OBVIOUS
<1>1. << >> \in Seq(UnitSet) /\ Len(<< >>) = 0
  BY EmptySeq
<1>2. LwipTyped
  BY <1>1, ZenonT(40) DEF Lwip!Init, LwipTyped, LwipBlocks, LwipHeard, LwipPackets, Lwip!Anyone, Lwip!Unwritten, Ends
<1>3. Lwip!TypeOK
  BY <1>1, Numbers DEF Lwip!Init, Lwip!TypeOK, Lwip!Anyone
<1>4. Lwip!ReadsCurrent
  BY <1>1, SubSeqProperties DEF Lwip!Init, Lwip!ReadsCurrent
<1>5. Lwip!SendsWritten /\ (~unsent => outb = << >>)
  BY DEF Lwip!Init, Lwip!SendsWritten, Lwip!Unwritten
<1> QED BY <1>2, <1>3, <1>4, <1>5 DEF LwipInv

LEMMA Rest ==
  ASSUME NEW s \in Seq(UnitSet), NEW k \in Nat, NEW n \in Nat,
         NEW t, t = SubSeq(s, k + 1, Len(s)), n <= Len(t)
  PROVE  SubSeq(t, n + 1, Len(t)) = SubSeq(s, k + n + 1, Len(s))
<1> DEFINE l == Len(s)
           r == SubSeq(t, n + 1, Len(t))
           q == SubSeq(s, k + n + 1, l)
<1>0. l \in Nat
  BY LenProperties
<1>1. /\ t \in Seq(UnitSet) /\ Len(t) = (IF k + 1 <= l THEN l - k ELSE 0)
      /\ \A i \in 1 .. l - k : t[i] = s[k + i]
  BY Behind
<1>2. /\ r \in Seq(UnitSet) /\ Len(r) = (IF n + 1 <= Len(t) THEN Len(t) - n ELSE 0)
      /\ \A i \in 1 .. Len(t) - n : r[i] = t[n + i]
  <2>1. t \in Seq(UnitSet)
    BY <1>1
  <2> HIDE DEF l
  <2> QED BY <2>1, Behind, Zenon
<1>3. /\ q \in Seq(UnitSet) /\ Len(q) = (IF k + n + 1 <= l THEN l - k - n ELSE 0)
      /\ \A i \in 1 .. l - k - n : q[i] = s[k + n + i]
  <2> DEFINE j == k + n
  <2>1. j \in Nat /\ l - j = l - k - n
    BY <1>0
  <2> HIDE DEF j
  <2>2. /\ SubSeq(s, j + 1, l) \in Seq(UnitSet)
        /\ Len(SubSeq(s, j + 1, l)) = (IF j + 1 <= l THEN l - j ELSE 0)
        /\ \A i \in 1 .. l - j : SubSeq(s, j + 1, l)[i] = s[j + i]
    BY <2>1, Behind, Zenon
  <2> QED BY <2>1, <2>2, Zenon DEF j
<1> HIDE DEF l, r, q
<1>4. Len(r) = Len(q)
  BY <1>0, <1>1, <1>2, <1>3, SMTT(30)
<1>5. ASSUME NEW i \in 1 .. Len(r) PROVE r[i] = q[i]
  <2>1. i \in 1 .. Len(t) - n /\ n + i \in 1 .. l - k /\ i \in 1 .. l - k - n
    BY <1>0, <1>1, <1>2
  <2>2. r[i] = t[n + i] /\ t[n + i] = s[k + (n + i)] /\ q[i] = s[k + n + i]
    BY <2>1, <1>1, <1>2, <1>3, Zenon
  <2>3. k + (n + i) = k + n + i
    BY <2>1
  <2> QED BY <2>2, <2>3, Zenon
<1>6. r = q
  BY <1>2, <1>3, <1>4, <1>5, SeqEqual, Zenon
<1> QED BY <1>6 DEF r, q, l

LEMMA Fitted ==
  ASSUME NEW k \in Nat, NEW n \in Nat
  PROVE  Cut(Lwip!Units(k, n)) \in Seq(UnitSet) /\ Len(Cut(Lwip!Units(k, n))) <= BufSize
<1>1. \A i \in 1 .. n : <<"in", k, i>> \in UnitSet
  BY DEF UnitSet
<1>2. Lwip!Units(k, n) \in Seq(UnitSet)
  BY <1>1, IsASeq DEF Lwip!Units
<1> QED BY <1>2, CutFits

LEMMA LwipReceives ==
  ASSUME LwipInv, NEW d \in Lwip!Datagrams, Lwip!Receive(d)
  PROVE  /\ inb' \in Seq(UnitSet) /\ Len(inb') <= BufSize
         /\ lcur' \in LwipHeard
         /\ inb' = SubSeq(lcur'.data, lcur'.read + 1, Len(lcur'.data))
         /\ lins' \in Nat
<1>1. PICK p \in Peers, n \in LwipSizes :
        d = [from |-> p, port |-> udpPcb.port, data |-> Lwip!Units(lins + 1, n)]
  BY DEF Lwip!Datagrams
<1> DEFINE data == Cut(Lwip!Units(lins + 1, n))
<1>2. data \in Seq(UnitSet) /\ Len(data) <= BufSize
  <2>1. n \in Nat /\ lins + 1 \in Nat
    BY Numbers DEF LwipInv, LwipTyped
  <2> QED BY <2>1, Fitted, Zenon
<1>3. d.data = Lwip!Units(lins + 1, n) /\ d.from = p
  BY <1>1
<1>4. /\ lins' = lins + 1
      /\ \/ inb' = data /\ lcur' = [from |-> p, data |-> data, read |-> 0]
         \/ inb' = inb /\ lcur' = lcur
  BY <1>3 DEF Lwip!Receive, Lwip!Smaller, Cut
<1> HIDE DEF data
<1>5. lins' \in Nat
  BY <1>4 DEF LwipInv, LwipTyped
<1>6. CASE inb' = data /\ lcur' = [from |-> p, data |-> data, read |-> 0]
  <2>1. SubSeq(data, 0 + 1, Len(data)) = data
    BY <1>2, SubSeqFull
  <2>2. lcur' \in LwipHeard /\ lcur'.data = data /\ lcur'.read = 0
    BY <1>2, <1>6 DEF LwipHeard, Ends
  <2> QED BY <1>2, <1>5, <1>6, <2>1, <2>2
<1>7. CASE inb' = inb /\ lcur' = lcur
  BY <1>5, <1>7 DEF LwipInv, LwipTyped, Lwip!TypeOK, Lwip!ReadsCurrent
<1> QED BY <1>4, <1>6, <1>7

LEMMA LwipStep == LwipInv /\ [Lwip!Next]_lwip => LwipInv'
<1> SUFFICES ASSUME LwipInv, [Lwip!Next]_lwip PROVE LwipInv'
  OBVIOUS
<1>0. /\ udpPcb \in LwipBlocks /\ inb \in Seq(UnitSet) /\ outb \in Seq(UnitSet)
      /\ lcur \in LwipHeard /\ lout \in LwipPackets
      /\ unsent \in BOOLEAN /\ lins \in Nat /\ louts \in Nat
      /\ Len(inb) \in Nat /\ Len(inb) <= BufSize /\ Len(outb) \in Nat /\ Len(outb) <= BufSize
      /\ udpPcb.recv => udpPcb.exists
      /\ inb = SubSeq(lcur.data, lcur.read + 1, Len(lcur.data))
      /\ \A o \in Objects : lout[o].alone => outb = lout[o].data /\ udpPcb.remote \in {lout[o].to, 0}
      /\ ~unsent => outb = << >>
  <2>1. Len(inb) \in Nat /\ Len(outb) \in Nat
    BY LenProperties DEF LwipInv, LwipTyped
  <2> QED BY <2>1 DEF LwipInv, LwipTyped, Lwip!TypeOK, Lwip!ReadsCurrent, Lwip!SendsWritten,
                      Lwip!RemoteIP, Lwip!Anyone
<1> DEFINE Sends == \A o \in Objects : lout'[o].alone => outb' = lout'[o].data /\ udpPcb'.remote \in {lout'[o].to, 0}
           Reads == /\ inb' \in Seq(UnitSet) /\ Len(inb') <= BufSize /\ lcur' \in LwipHeard
                    /\ inb' = SubSeq(lcur'.data, lcur'.read + 1, Len(lcur'.data))
           Block == udpPcb' \in LwipBlocks /\ (udpPcb'.recv => udpPcb'.exists)
           Rows == outb' \in Seq(UnitSet) /\ Len(outb') <= BufSize /\ lout' \in LwipPackets
           Kept == unsent' \in BOOLEAN /\ lins' \in Nat /\ louts' \in Nat /\ (~unsent' => outb' = << >>)
<1>A. Sends /\ Reads /\ Block /\ Rows /\ Kept => LwipInv'
  <2>1. udpPcb' \in LwipBlocks =>
          udpPcb' \in [exists : BOOLEAN, port : Ports \cup {0}, remote : Peers \cup {0}, recv : BOOLEAN]
    BY DEF LwipBlocks, Ends
  <2> QED BY <2>1 DEF LwipInv, LwipTyped, Lwip!TypeOK, Lwip!ReadsCurrent, Lwip!SendsWritten,
                      Lwip!RemoteIP, Lwip!Anyone
<1>1. CASE Lwip!Tick
  <2>1. PICK d \in Lwip!Datagrams : Lwip!Receive(d)
    BY <1>1 DEF Lwip!Tick
  <2>2. UNCHANGED <<udpPcb, outb, lout, unsent, louts>>
    BY <1>1 DEF Lwip!Tick
  <2>3. Reads /\ lins' \in Nat
    BY <2>1, LwipReceives
  <2> HIDE DEF Reads
  <2>4. Sends /\ Block /\ Rows /\ Kept
    BY <1>0, <2>2, <2>3
  <2> QED BY <1>A, <2>3, <2>4
<1>2. ASSUME NEW o \in Objects, NEW port \in Ports, Lwip!Begin(o, port) PROVE LwipInv'
  <2>1. /\ udpPcb' = [udpPcb EXCEPT !.exists = TRUE, !.port = port]
        /\ UNCHANGED <<inb, outb, lcur, lout, unsent, lins, louts>>
    BY <1>2 DEF Lwip!Begin
  <2>2. Block /\ udpPcb'.remote = udpPcb.remote
    BY <1>0, <2>1, Zenon DEF LwipBlocks
  <2>3. Sends /\ Reads /\ Rows /\ Kept
    BY <1>0, <2>1, <2>2
  <2> QED BY <1>A, <2>2, <2>3
<1>3. ASSUME NEW o \in Objects, Lwip!Stop(o) PROVE LwipInv'
  <2>1. /\ udpPcb' = [udpPcb EXCEPT !.remote = 0]
        /\ UNCHANGED <<inb, outb, lcur, lout, unsent, lins, louts>>
    BY <1>3 DEF Lwip!Stop, Lwip!Anyone
  <2>2. Block /\ udpPcb'.remote = 0
    BY <1>0, <2>1, Zenon DEF LwipBlocks, Ends
  <2>3. Sends /\ Reads /\ Rows /\ Kept
    BY <1>0, <2>1, <2>2, SMTT(30)
  <2> QED BY <1>A, <2>2, <2>3
<1>4. ASSUME NEW o \in Objects, NEW p \in Peers, Lwip!BeginPacket(o, p) PROVE LwipInv'
  <2>1. UNCHANGED <<inb, outb, lcur, unsent, lins>> /\ louts' = louts + 1
    BY <1>4 DEF Lwip!BeginPacket
  <2>2. Reads /\ Kept
    BY <1>0, <2>1
  <2>3. CASE udpPcb.exists
    <3>1. /\ udpPcb' = [udpPcb EXCEPT !.remote = p]
          /\ lout' = [x \in Objects |-> IF x = o THEN [to |-> p, data |-> << >>, alone |-> ~unsent]
                                        ELSE [lout[x] EXCEPT !.to = p]]
      BY <1>4, <2>3, SMTT(30) DEF Lwip!BeginPacket
    <3>2. Block /\ udpPcb'.remote = p
      BY <1>0, <3>1, Zenon DEF LwipBlocks, Ends
    <3>3. << >> \in Seq(UnitSet) /\ p \in Ends
      BY EmptySeq, SMTT(30) DEF Ends
    <3>4. \A x \in Objects : /\ lout'[x].to = p
                            /\ lout'[x].data = (IF x = o THEN << >> ELSE lout[x].data)
                            /\ lout'[x].alone = (IF x = o THEN ~unsent ELSE lout[x].alone)
      BY <1>0, <3>1 DEF LwipPackets
    <3>5. lout' \in LwipPackets
      BY <1>0, <3>1, <3>3, ZenonT(40) DEF LwipPackets
    <3>6. Sends
      BY <1>0, <2>1, <3>2, <3>4, Zenon
    <3> QED BY <1>A, <1>0, <2>1, <2>2, <3>2, <3>5, <3>6
  <2>4. CASE ~udpPcb.exists
    <3>1. UNCHANGED <<udpPcb, lout>>
      BY <1>4, <2>4 DEF Lwip!BeginPacket
    <3>2. Sends /\ Block /\ Rows
      BY <1>0, <2>1, <3>1
    <3> QED BY <1>A, <2>2, <3>2
  <2> QED BY <2>3, <2>4
<1>5. ASSUME NEW o \in Objects, Lwip!Write(o, << <<"out", louts, Len(outb) + 1>> >>) PROVE LwipInv'
  <2> DEFINE d == << <<"out", louts, Len(outb) + 1>> >>
  <2>1. d \in Seq(UnitSet) /\ Len(d) = 1
    <3> DEFINE e == <<"out", louts, Len(outb) + 1>>
    <3>1. e \in UnitSet
      <4>1. louts \in Nat /\ Len(outb) + 1 \in Nat
        BY <1>0
      <4>2. "out" \in {"in", "out", "junk"}
        OBVIOUS
      <4> QED BY <4>1, <4>2 DEF UnitSet
    <3> HIDE DEF e
    <3>2. << e >> \in Seq(UnitSet) /\ Len(<< e >>) = 1
      BY <3>1
    <3> QED BY <3>2 DEF e
  <2>2. /\ Len(outb) + Len(d) <= BufSize /\ outb' = outb \o d /\ unsent' = TRUE
        /\ UNCHANGED <<udpPcb, inb, lcur, lins, louts>>
        /\ lout' = [x \in Objects |-> IF x = o THEN [lout[x] EXCEPT !.data = @ \o d]
                                      ELSE [lout[x] EXCEPT !.alone = FALSE]]
    BY <1>5 DEF Lwip!Write
  <2> HIDE DEF d
  <2>3. outb \o d \in Seq(UnitSet) /\ Len(outb \o d) = Len(outb) + Len(d)
    BY <1>0, <2>1, ConcatProperties, SMTT(30)
  <2>4. \A x \in Objects : lout[x].data \o d \in Seq(UnitSet)
    BY <1>0, <2>1, ConcatProperties DEF LwipPackets
  <2>5. lout' \in LwipPackets
    BY <1>0, <2>2, <2>4, Zenon DEF LwipPackets
  <2>6. \A x \in Objects : lout'[x].alone =>
          lout[x].alone /\ lout'[x].data = lout[x].data \o d /\ lout'[x].to = lout[x].to
    BY <1>0, <2>2, ZenonT(40) DEF LwipPackets
  <2>7. Sends
    BY <1>0, <2>2, <2>6, ZenonT(40)
  <2>8. Reads /\ Block
    BY <1>0, <2>2, Zenon
  <2>9. Rows /\ Kept
    BY <1>0, <2>2, <2>3, <2>5
  <2> QED BY <1>A, <2>7, <2>8, <2>9
<1>6. ASSUME NEW o \in Objects, Lwip!EndPacket(o) PROVE LwipInv'
  <2>1. udpPcb.exists /\ udpPcb' = [udpPcb EXCEPT !.recv = TRUE] /\ louts' = louts
    BY <1>6 DEF Lwip!EndPacket, Lwip!Send
  <2>2. Block /\ udpPcb'.remote = udpPcb.remote
    BY <1>0, <2>1, Zenon DEF LwipBlocks
  <2>3. CASE UNCHANGED <<inb, outb, lcur, lout, unsent, lins>>
    <3>1. Sends /\ Reads /\ Rows /\ Kept
      BY <1>0, <2>1, <2>2, <2>3
    <3> QED BY <1>A, <2>2, <3>1
  <2>4. CASE /\ outb' = << >> /\ unsent' = FALSE /\ lout' = [x \in Objects |-> Lwip!Unwritten]
             /\ (\E d \in Lwip!Datagrams : Lwip!Receive(d)) \/ UNCHANGED <<inb, lcur, lins>>
    <3>1. << >> \in Seq(UnitSet) /\ Len(<< >>) = 0 /\ BufSize \in Nat
      BY EmptySeq, Numbers
    <3>2. lout' \in LwipPackets
      BY <2>4, <3>1 DEF Lwip!Unwritten, Lwip!Anyone, Ends, LwipPackets
    <3>3. Sends
      BY <2>4, <3>1 DEF Lwip!Unwritten, Lwip!Anyone
    <3>4. Reads /\ lins' \in Nat
      <4>1. CASE UNCHANGED <<inb, lcur, lins>>
        BY <1>0, <4>1, SMTT(30)
      <4>2. CASE \E d \in Lwip!Datagrams : Lwip!Receive(d)
        BY <4>2, LwipReceives
      <4> QED BY <2>4, <4>1, <4>2, SMTT(30)
    <3>5. Rows
      BY <2>4, <3>1, <3>2
    <3>6. Kept
      <4>1. louts \in Nat
        BY <1>0
      <4> QED BY <2>1, <2>4, <3>4, <4>1, Zenon
    <3> QED BY <1>A, <2>2, <3>3, <3>4, <3>5, <3>6
  <2> QED BY <1>6, <2>3, <2>4, Zenon DEF Lwip!EndPacket, Lwip!Send
<1>7. ASSUME NEW o \in Objects, NEW n \in Nat, Lwip!Read(o, n) PROVE LwipInv'
  <2>1. /\ n <= Len(inb) /\ inb' = SubSeq(inb, n + 1, Len(inb))
        /\ lcur' = [lcur EXCEPT !.read = lcur.read + n]
        /\ UNCHANGED <<udpPcb, outb, lout, unsent, lins, louts>>
    <3>1. Len(inb) \in Nat
      BY <1>0
    <3> QED BY <1>7, <3>1 DEF Lwip!Read
  <2>2. inb' \in Seq(UnitSet) /\ Len(inb') <= Len(inb)
    <3>1. inb \in Seq(UnitSet) /\ Len(inb) \in Nat
      BY <1>0
    <3> QED BY <2>1, <3>1, Part
  <2>3. lcur.data \in Seq(UnitSet) /\ lcur.read \in Nat
    BY <1>0 DEF LwipHeard
  <2>4. lcur' \in LwipHeard /\ lcur'.data = lcur.data /\ lcur'.read = lcur.read + n
    <3>1. lcur \in LwipHeard /\ lcur' = [lcur EXCEPT !.read = lcur.read + n]
      BY <1>0, <2>1
    <3>2. lcur.read + n \in Nat
      BY <2>3
    <3> QED BY <3>1, <3>2 DEF LwipHeard
  <2>5. SubSeq(inb, n + 1, Len(inb)) = SubSeq(lcur.data, lcur.read + n + 1, Len(lcur.data))
    <3>1. inb = SubSeq(lcur.data, lcur.read + 1, Len(lcur.data)) /\ n <= Len(inb)
      BY <1>0, <2>1
    <3> DEFINE Law(x, k, t) == t = SubSeq(x, k + 1, Len(x)) /\ n <= Len(t) =>
                                 SubSeq(t, n + 1, Len(t)) = SubSeq(x, k + n + 1, Len(x))
    <3>2. \A x \in Seq(UnitSet), k \in Nat : \A t : Law(x, k, t)
      BY Rest
    <3> HIDE DEF Law
    <3>3. Law(lcur.data, lcur.read, inb)
      BY <2>3, <3>2
    <3> QED BY <3>1, <3>3, Zenon DEF Law
  <2>6. Len(inb') \in Nat
    BY <2>2, LenProperties
  <2>7. Reads
    <3>1. Len(inb) \in Nat /\ Len(inb) <= BufSize /\ BufSize \in Nat
      BY <1>0, Numbers
    <3>2. Len(inb') <= BufSize
      BY <2>2, <2>6, <3>1, SMTT(30)
    <3>3. inb' = SubSeq(lcur'.data, lcur'.read + 1, Len(lcur'.data))
      BY <2>1, <2>4, <2>5, Zenon
    <3> QED BY <2>2, <2>4, <3>2, <3>3, SMTT(30)
  <2>8. Sends /\ Block /\ Rows /\ Kept
    BY <1>0, <2>1
  <2> QED BY <1>A, <2>7, <2>8, SMTT(30)
<1>8. ASSUME NEW o \in Objects, Lwip!Flush(o) PROVE LwipInv'
  BY <1>7, <1>8, SMTT(30) DEF Lwip!Flush
<1>9. CASE UNCHANGED lwip
  <2>1. UNCHANGED <<udpPcb, inb, outb, lcur, lout, unsent, lins, louts>>
    BY <1>9 DEF lwip
  <2>2. Sends /\ Reads /\ Block /\ Rows /\ Kept
    BY <1>0, <2>1
  <2> QED BY <1>A, <2>2
<1> QED BY <1>1, <1>2, <1>3, <1>4, <1>5, <1>6, <1>7, <1>8, <1>9 DEF Lwip!Next

-----------------------------------------------------------------------------
(* The Zephyr build.  A closed descriptor is as new: what the table holds  *)
(* for a number an object keeps after it was closed is another socket's.   *)

Waiting == [from : Peers, data : Seq(UnitSet)]
Owners == {Zephyr!Nobody} \cup (Objects \X {"in", "out"})
Sockets == [open : BOOLEAN, port : Ports \cup {0}, bound : BOOLEAN, q : Seq(Waiting), owner : Owners]
Members == [in : 0 .. NFds, out : 0 .. NFds, dest : Ends, remote : Ends,
            dataIn : [1 .. BufSize -> UnitSet], inPos : Nat, dataOut : Seq(UnitSet)]
Dues == [due : Seq(UnitSet), clean : BOOLEAN, from : Ends]
Packets == [data : Seq(UnitSet), first : BOOLEAN, to : Ends]

ZephyrTyped ==
  /\ fds \in [Zephyr!Fds -> Sockets] /\ sock \in [Objects -> Members]
  /\ zcur \in [Objects -> Dues] /\ zout \in [Objects -> Packets]
  /\ slipped \in BOOLEAN /\ zins \in Nat /\ zouts \in Nat

Shut == \A f \in Zephyr!Fds : ~fds[f].open => fds[f] = Zephyr!Closed
Short == \A o \in Objects : Len(zcur[o].due) <= BufSize

ZephyrInv ==
  /\ ZephyrTyped /\ Shut /\ Short
  /\ Zephyr!TypeOK /\ Zephyr!KeepsSocket /\ Zephyr!ReadsCurrent /\ Zephyr!SendsWritten

LEMMA ClosedIsSocket == Zephyr!Closed \in Sockets /\ ~Zephyr!Closed.open /\ ~Zephyr!Closed.bound
BY EmptySeq DEF Zephyr!Closed, Zephyr!Ephemeral, Sockets, Owners

\* zsock_close() and zsock_socket() change one descriptor.
LEMMA Closes ==
  ASSUME NEW t \in [Zephyr!Fds -> Sockets], NEW f \in 0 .. NFds
  PROVE  /\ Zephyr!Close(t, f) \in [Zephyr!Fds -> Sockets]
         /\ \A g \in Zephyr!Fds : Zephyr!Close(t, f)[g] = (IF g = f THEN Zephyr!Closed ELSE t[g])
<1>1. 0 \notin Zephyr!Fds
  BY Numbers DEF Zephyr!Fds
<1> QED BY <1>1, ClosedIsSocket, Zenon DEF Zephyr!Close, Zephyr!None

LEMMA Opens ==
  ASSUME NEW t \in [Zephyr!Fds -> Sockets], ~Zephyr!Full(t),
         NEW owner \in Owners, NEW port \in Ports \cup {0}
  PROVE  LET f == Zephyr!NextFd(t)
             n == Zephyr!Open(t, owner, port)
         IN  /\ f \in Zephyr!Fds /\ ~t[f].open /\ f # 0
             /\ n \in [Zephyr!Fds -> Sockets]
             /\ n[f].open /\ n[f].owner = owner
             /\ \A g \in Zephyr!Fds : g # f => n[g] = t[g]
<1> DEFINE free == {g \in Zephyr!Fds : ~t[g].open}
           f == Zephyr!Min(free)
           new == [open |-> TRUE, port |-> port, bound |-> port # 0, q |-> << >>, owner |-> owner]
<1>1. f \in free
  <2>1. free # {} /\ free \subseteq Nat
    BY Numbers DEF Zephyr!Full, Zephyr!Fds
  <2>2. \E x \in free : \A y \in free : x <= y
    BY <2>1, Least, Zenon
  <2> QED BY <2>2 DEF Zephyr!Min
<1>2. f \in Zephyr!Fds /\ ~t[f].open
  BY <1>1
<1>3. 0 \notin Zephyr!Fds
  BY Numbers DEF Zephyr!Fds
<1>4. Zephyr!NextFd(t) = f /\ Zephyr!Open(t, owner, port) = [t EXCEPT ![f] = new]
  BY DEF Zephyr!NextFd, Zephyr!Open, Zephyr!Ephemeral
<1>5. new \in Sockets /\ new.open /\ new.owner = owner
  BY EmptySeq DEF Sockets
<1> HIDE DEF f, new
<1> QED BY <1>2, <1>3, <1>4, <1>5

\* A step after which an object still reads what it read, or has nothing to read
LEMMA ReadsKept ==
  ASSUME ZephyrInv,
         \A x \in Objects :
           \/ /\ zcur'[x] = zcur[x] /\ sock'[x].inPos = sock[x].inPos
              /\ sock'[x].dataIn = sock[x].dataIn /\ sock'[x].remote = sock[x].remote
           \/ zcur'[x].due = << >>
  PROVE  Zephyr!ReadsCurrent' /\ Short'
<1>1. Len(<< >>) <= BufSize
  BY EmptySeq, Numbers
<1>2. Short'
  BY <1>1 DEF ZephyrInv, Short
<1>3. Zephyr!ReadsCurrent'
  BY SMTT(30) DEF ZephyrInv, Zephyr!ReadsCurrent, Zephyr!RemoteIP
<1> QED BY <1>2, <1>3

\* One after which an object still sends what it would have sent, if anything
LEMMA SendsKept ==
  ASSUME ZephyrInv,
         \A x \in Objects :
           \/ /\ zout'[x] = zout[x] /\ sock'[x].dataOut = sock[x].dataOut
              /\ sock'[x].dest = sock[x].dest /\ sock'[x].out \in {sock[x].out, 0}
           \/ sock'[x].dataOut = zout'[x].data /\ sock'[x].out = 0
  PROVE  Zephyr!SendsWritten'
BY DEF ZephyrInv, Zephyr!SendsWritten, Zephyr!None

\* What the parts about descriptors say
LEMMA Descriptors ==
  ZephyrInv =>
    /\ \A x \in Objects : sock[x].in \in 0 .. NFds /\ sock[x].out \in 0 .. NFds
    /\ \A f \in Zephyr!Fds : /\ ~fds[f].open => fds[f].owner = Zephyr!Nobody
                             /\ fds[f].open => \E x \in Objects : f \in {sock[x].in, sock[x].out}
    /\ ~slipped => \A x \in Objects :
         /\ sock[x].out # 0 => fds[sock[x].out].owner = <<x, "out">>
         /\ \A f \in Zephyr!Fds : fds[f].owner = <<x, "in">> => sock[x].in = f
BY DEF ZephyrInv, Shut, Zephyr!TypeOK, Zephyr!KeepsSocket, Zephyr!None, Zephyr!Closed

LEMMA ZephyrParts ==
  ASSUME ZephyrTyped', Shut', Zephyr!TypeOK', Zephyr!KeepsSocket', Zephyr!ReadsCurrent', Short', Zephyr!SendsWritten'
  PROVE  ZephyrInv'
BY DEF ZephyrInv

\* An object with another socket to listen on, or none
Same(m, e) == /\ e.dest = m.dest /\ e.remote = m.remote /\ e.dataIn = m.dataIn
              /\ e.out = m.out /\ e.dataOut = m.dataOut

Relisten(m, i) == [m EXCEPT !.in = i, !.inPos = 0]
Deaf(m) == [m EXCEPT !.in = 0]

LEMMA Listens ==
  ASSUME NEW m \in Members, NEW i \in 0 .. NFds
  PROVE  /\ Relisten(m, i) \in Members /\ Relisten(m, i).in = i /\ Relisten(m, i).inPos = 0
         /\ Same(m, Relisten(m, i))
         /\ Deaf(m) \in Members /\ Deaf(m).in = 0 /\ Deaf(m).inPos = m.inPos /\ Same(m, Deaf(m))
<1>1. 0 \in 0 .. NFds
  BY Numbers
<1> QED BY <1>1, Zenon DEF Members, Same, Relisten, Deaf

\* One object is changed.
LEMMA Replaces ==
  ASSUME NEW s \in [Objects -> Members], NEW o \in Objects, NEW e \in Members, NEW t, t = [s EXCEPT ![o] = e]
  PROVE  t \in [Objects -> Members] /\ t[o] = e /\ \A x \in Objects : x # o => t[x] = s[x]
OBVIOUS

\* begin(): the socket that listened is closed, and another opened for it or none.
LEMMA ZephyrBegins ==
  ASSUME ZephyrInv, NEW o \in Objects, NEW port \in Ports, Zephyr!Begin(o, port)
  PROVE  ZephyrInv'
<1> DEFINE t == Zephyr!Close(fds, sock[o].in)
<1>1. /\ fds \in [Zephyr!Fds -> Sockets] /\ sock \in [Objects -> Members] /\ sock[o] \in Members
      /\ zcur \in [Objects -> Dues] /\ sock[o].in \in 0 .. NFds /\ slipped \in BOOLEAN
  BY DEF ZephyrInv, ZephyrTyped, Members
<1>2. /\ t \in [Zephyr!Fds -> Sockets]
      /\ \A g \in Zephyr!Fds : t[g] = (IF g = sock[o].in THEN Zephyr!Closed ELSE fds[g])
  BY <1>1, Closes
<1> HIDE DEF t
<1>3. /\ UNCHANGED <<zout, zins, zouts>>
      /\ slipped' = (slipped \/ Zephyr!Foreign(sock[o].in, o))
      /\ \/ /\ ~Zephyr!Full(t)
            /\ fds' = Zephyr!Open(t, <<o, "in">>, port)
            /\ sock' = [sock EXCEPT ![o] = [@ EXCEPT !.in = Zephyr!NextFd(t), !.inPos = 0]]
            /\ zcur' = [zcur EXCEPT ![o] = Zephyr!Untaken]
         \/ /\ fds' = t
            /\ sock' = [sock EXCEPT ![o] = [@ EXCEPT !.in = 0, !.inPos = 0]]
            /\ zcur' = [zcur EXCEPT ![o] = Zephyr!Untaken]
         \/ /\ fds' = t
            /\ sock' = [sock EXCEPT ![o].in = 0]
            /\ zcur' = zcur
  BY DEF Zephyr!Begin, Zephyr!None, t
<1>4. Zephyr!Untaken \in Dues /\ Zephyr!Untaken.due = << >>
  BY EmptySeq DEF Zephyr!Untaken, Zephyr!Anyone, Dues, Ends
<1>5. slipped' \in BOOLEAN /\ (~slipped' => ~slipped /\ ~Zephyr!Foreign(sock[o].in, o))
  BY <1>1, <1>3, ZenonT(40)
<1>6. zcur' \in [Objects -> Dues]
  BY <1>1, <1>3, <1>4, SMTT(30)
<1>7. /\ fds' \in [Zephyr!Fds -> Sockets] /\ sock' \in [Objects -> Members]
      /\ \A x \in Objects : x # o => sock'[x] = sock[x]
      /\ Same(sock[o], sock'[o])
      /\ zcur'[o].due = << >> \/ (zcur'[o] = zcur[o] /\ sock'[o].inPos = sock[o].inPos)
      /\ \/ /\ sock'[o].in = 0 /\ fds' = t
         \/ /\ sock'[o].in \in Zephyr!Fds /\ ~t[sock'[o].in].open
            /\ fds'[sock'[o].in].open /\ fds'[sock'[o].in].owner = <<o, "in">>
            /\ \A g \in Zephyr!Fds : g # sock'[o].in => fds'[g] = t[g]
  <2>1. CASE /\ ~Zephyr!Full(t)
             /\ fds' = Zephyr!Open(t, <<o, "in">>, port)
             /\ sock' = [sock EXCEPT ![o] = [@ EXCEPT !.in = Zephyr!NextFd(t), !.inPos = 0]]
             /\ zcur' = [zcur EXCEPT ![o] = Zephyr!Untaken]
    <3> DEFINE f == Zephyr!NextFd(t)
    <3>1. /\ f \in Zephyr!Fds /\ ~t[f].open
          /\ fds' \in [Zephyr!Fds -> Sockets]
          /\ fds'[f].open /\ fds'[f].owner = <<o, "in">>
          /\ \A g \in Zephyr!Fds : g # f => fds'[g] = t[g]
      <4>1. <<o, "in">> \in Owners
        BY DEF Owners
      <4> QED BY <1>2, <2>1, <4>1, Opens
    <3>2. sock' = [sock EXCEPT ![o] = [@ EXCEPT !.in = f, !.inPos = 0]]
      BY <2>1
    <3> HIDE DEF f
    <3>3. f \in 0 .. NFds
      BY <3>1, Numbers DEF Zephyr!Fds
    <3>4. zcur'[o].due = << >>
      BY <1>1, <1>4, <2>1
    <3>5. /\ sock' \in [Objects -> Members] /\ \A x \in Objects : x # o => sock'[x] = sock[x]
          /\ sock'[o].in = f /\ Same(sock[o], sock'[o])
      <4> DEFINE e == Relisten(sock[o], f)
      <4>1. e \in Members /\ e.in = f /\ Same(sock[o], e)
        BY <1>1, <3>3, Listens, Zenon
      <4>2. sock' = [sock EXCEPT ![o] = e]
        BY <3>2 DEF Relisten
      <4> HIDE DEF e
      <4> QED BY <1>1, <4>1, <4>2, Replaces
    <3> QED BY <3>1, <3>4, <3>5
  <2>2. CASE /\ fds' = t
             /\ sock' = [sock EXCEPT ![o] = [@ EXCEPT !.in = 0, !.inPos = 0]]
             /\ zcur' = [zcur EXCEPT ![o] = Zephyr!Untaken]
    <3>1. zcur'[o].due = << >> /\ 0 \in 0 .. NFds
      BY <1>1, <1>4, <2>2, Numbers
    <3>2. /\ sock' \in [Objects -> Members] /\ \A x \in Objects : x # o => sock'[x] = sock[x]
          /\ sock'[o].in = 0 /\ Same(sock[o], sock'[o])
      <4> DEFINE e == Relisten(sock[o], 0)
      <4>1. e \in Members /\ e.in = 0 /\ Same(sock[o], e)
        BY <1>1, <3>1, Listens, Zenon
      <4>2. sock' = [sock EXCEPT ![o] = e]
        BY <2>2 DEF Relisten
      <4> HIDE DEF e
      <4> QED BY <1>1, <4>1, <4>2, Replaces
    <3> QED BY <1>2, <2>2, <3>1, <3>2
  <2>3. CASE /\ fds' = t
             /\ sock' = [sock EXCEPT ![o].in = 0]
             /\ zcur' = zcur
    <3>1. 0 \in 0 .. NFds /\ sock'[o] = [sock[o] EXCEPT !.in = 0]
      BY <1>1, <2>3, Numbers
    <3>2. /\ sock' \in [Objects -> Members] /\ \A x \in Objects : x # o => sock'[x] = sock[x]
          /\ sock'[o].in = 0 /\ sock'[o].inPos = sock[o].inPos /\ Same(sock[o], sock'[o])
      <4> DEFINE e == Deaf(sock[o])
      <4>1. e \in Members /\ e.in = 0 /\ e.inPos = sock[o].inPos /\ Same(sock[o], e)
        BY <1>1, <3>1, Listens
      <4>2. sock' = [sock EXCEPT ![o] = e]
        BY <2>3, <3>1, SMTT(30) DEF Deaf
      <4> HIDE DEF e
      <4> QED BY <1>1, <4>1, <4>2, Replaces
    <3> QED BY <1>1, <1>2, <2>3, <3>2
  <2> QED BY <1>3, <2>1, <2>2, <2>3
<1>8. ZephyrTyped'
  BY <1>3, <1>5, <1>6, <1>7, SMTT(30) DEF ZephyrInv, ZephyrTyped
<1>9. Shut'
  BY <1>2, <1>7 DEF ZephyrInv, Shut
<1>10. Zephyr!TypeOK'
  <2>1. \A x \in Objects : sock'[x].in \in 0 .. NFds /\ sock'[x].out \in 0 .. NFds
    BY <1>7 DEF Members
  <2>2. ASSUME NEW f \in Zephyr!Fds, fds'[f].open PROVE \E x \in Objects : f \in {sock'[x].in, sock'[x].out}
    <3>1. CASE f = sock'[o].in
      BY <3>1, SMTT(30)
    <3>2. CASE f # sock'[o].in
      <4>1. f # sock[o].in /\ fds[f].open
        BY <1>2, <1>7, <2>2, <3>2, ClosedIsSocket
      <4>2. PICK x \in Objects : f \in {sock[x].in, sock[x].out}
        BY <4>1, Descriptors
      <4>3. f \in {sock'[x].in, sock'[x].out}
        <5>1. CASE x = o
          BY <1>7, <4>1, <4>2, <5>1, SMTT(30) DEF Same
        <5>2. CASE x # o
          BY <1>7, <4>2, <5>2, SMTT(30)
        <5> QED BY <5>1, <5>2, SMTT(30)
      <4> QED BY <4>3
    <3> QED BY <3>1, <3>2
  <2> QED BY <2>1, <2>2 DEF Zephyr!TypeOK
<1>11. Zephyr!KeepsSocket'
  <2> SUFFICES ASSUME ~slipped', NEW x \in Objects
               PROVE  /\ sock'[x].out # 0 => fds'[sock'[x].out].owner = <<x, "out">>
                      /\ \A f \in Zephyr!Fds : fds'[f].owner = <<x, "in">> => sock'[x].in = f
    BY DEF Zephyr!KeepsSocket, Zephyr!None
  <2>1. ~slipped /\ (sock[o].in # 0 /\ fds[sock[o].in].open => fds[sock[o].in].owner = <<o, "in">>)
    BY <1>5 DEF Zephyr!Foreign, Zephyr!None
  <2>2. \A g \in Zephyr!Fds : g # sock'[o].in => fds'[g] = t[g]
    BY <1>7
  <2>3. ASSUME sock[x].out # 0 PROVE fds'[sock[x].out].owner = <<x, "out">>
    <3> DEFINE g == sock[x].out
    <3>1. g \in Zephyr!Fds /\ fds[g].owner = <<x, "out">>
      BY <2>1, <2>3, Descriptors, Numbers, SMTT(30) DEF Zephyr!Fds
    <3>2. fds[g].open
      BY <3>1, Descriptors DEF Zephyr!Nobody
    <3>3. g # sock[o].in
      BY <2>1, <2>3, <3>1, <3>2, SMTT(30)
    <3>4. t[g] = fds[g]
      BY <1>2, <3>1, <3>3, SMTT(30)
    <3>5. g # sock'[o].in
      BY <1>7, <2>3, <3>2, <3>4
    <3> QED BY <2>2, <3>1, <3>4, <3>5, SMTT(30)
  <2>4. ASSUME NEW f \in Zephyr!Fds, fds'[f].owner = <<x, "in">> PROVE sock'[x].in = f
    <3>1. CASE f = sock'[o].in
      <4>1. fds'[f].owner = <<o, "in">>
        BY <1>7, <3>1, Numbers, SMTT(30) DEF Zephyr!Fds
      <4> QED BY <2>4, <3>1, <4>1, SMTT(30)
    <3>2. CASE f # sock'[o].in
      <4>1. f # sock[o].in /\ fds[f].owner = <<x, "in">>
        BY <1>2, <2>2, <2>4, <3>2, SMTT(30) DEF Zephyr!Closed, Zephyr!Nobody
      <4>2. sock[x].in = f
        BY <2>1, <4>1, Descriptors
      <4>3. x # o
        BY <4>1, <4>2
      <4> QED BY <1>7, <4>2, <4>3
    <3> QED BY <3>1, <3>2
  <2>5. sock'[x].out = sock[x].out
    BY <1>7 DEF Same
  <2> QED BY <2>3, <2>4, <2>5, SMTT(30)
<1>12. Zephyr!ReadsCurrent' /\ Short'
  <2>1. \A x \in Objects : x # o => zcur'[x] = zcur[x]
    BY <1>1, <1>3, SMTT(30)
  <2> QED BY <1>7, <2>1, ReadsKept DEF Same
<1>13. Zephyr!SendsWritten'
  BY <1>3, <1>7, SendsKept DEF Same
<1> QED BY <1>8, <1>9, <1>10, <1>11, <1>12, <1>13, ZephyrParts

\* A step that opens and closes nothing
LEMMA Settled ==
  ASSUME ZephyrInv, slipped' = slipped,
         \A x \in Objects : sock'[x].in = sock[x].in /\ sock'[x].out = sock[x].out,
         \A f \in Zephyr!Fds : fds'[f].open = fds[f].open /\ fds'[f].owner = fds[f].owner
  PROVE  Zephyr!TypeOK' /\ Zephyr!KeepsSocket'
<1>1. Zephyr!TypeOK'
  BY DEF ZephyrInv, Zephyr!TypeOK
<1>2. Zephyr!KeepsSocket'
  <2> SUFFICES ASSUME ~slipped', NEW x \in Objects
               PROVE  /\ sock'[x].out # 0 => fds'[sock'[x].out].owner = <<x, "out">>
                      /\ \A f \in Zephyr!Fds : fds'[f].owner = <<x, "in">> => sock'[x].in = f
    BY DEF Zephyr!KeepsSocket, Zephyr!None
  <2>1. ASSUME sock'[x].out # 0 PROVE fds'[sock'[x].out].owner = <<x, "out">>
    <3>1. sock[x].out \in Zephyr!Fds
      BY <2>1, Descriptors, Numbers DEF Zephyr!Fds
    <3> QED BY <2>1, <3>1, Descriptors
  <2>2. ASSUME NEW f \in Zephyr!Fds, fds'[f].owner = <<x, "in">> PROVE sock'[x].in = f
    BY <2>2, Descriptors
  <2> QED BY <2>1, <2>2
<1> QED BY <1>1, <1>2

\* A step that changes sockets and members of one object
LEMMA Changes ==
  ASSUME ZephyrInv
  PROVE  /\ fds \in [Zephyr!Fds -> Sockets] /\ sock \in [Objects -> Members] /\ zcur \in [Objects -> Dues]
         /\ zout \in [Objects -> Packets] /\ slipped \in BOOLEAN /\ zins \in Nat /\ zouts \in Nat
         /\ \A x \in Objects :
              /\ sock[x] \in Members /\ zcur[x] \in Dues /\ zout[x] \in Packets
              /\ sock[x].in \in 0 .. NFds /\ sock[x].out \in 0 .. NFds
BY DEF ZephyrInv, ZephyrTyped, Members

Stopped(m) == [m EXCEPT !.inPos = 0, !.out = 0, !.dataOut = << >>]

\* stop(): both sockets are closed, the one that listened stays in the object as a number.
LEMMA ZephyrStops ==
  ASSUME ZephyrInv, NEW o \in Objects, Zephyr!Stop(o)
  PROVE  ZephyrInv'
<1> DEFINE t == Zephyr!Close(fds, sock[o].in)
           e == Stopped(sock[o])
<1>1. /\ t \in [Zephyr!Fds -> Sockets]
      /\ \A g \in Zephyr!Fds : t[g] = (IF g = sock[o].in THEN Zephyr!Closed ELSE fds[g])
  BY Changes, Closes
<1> HIDE DEF t
<1>2. /\ fds' = Zephyr!Close(t, sock[o].out)
      /\ slipped' = (slipped \/ Zephyr!Foreign(sock[o].in, o))
      /\ sock' = [sock EXCEPT ![o] = e]
      /\ zcur' = [zcur EXCEPT ![o] = Zephyr!Untaken] /\ zout' = [zout EXCEPT ![o] = Zephyr!Unwritten]
      /\ UNCHANGED <<zins, zouts>>
  BY DEF Zephyr!Stop, Zephyr!None, Stopped, t
<1>3. /\ fds' \in [Zephyr!Fds -> Sockets]
      /\ \A g \in Zephyr!Fds : fds'[g] = (IF g = sock[o].out THEN Zephyr!Closed ELSE t[g])
  BY <1>1, <1>2, Changes, Closes
<1>4. /\ e \in Members /\ e.in = sock[o].in /\ e.out = 0 /\ e.dataOut = << >>
  <2>1. 0 \in 0 .. NFds /\ << >> \in Seq(UnitSet) /\ sock[o] \in Members
    BY Changes, Numbers, EmptySeq
  <2> QED BY <2>1, ZenonT(40) DEF Members, Stopped
<1> HIDE DEF e
<1>5. sock' \in [Objects -> Members] /\ sock'[o] = e /\ \A x \in Objects : x # o => sock'[x] = sock[x]
  BY <1>2, <1>4, Changes
<1>6. slipped' \in BOOLEAN /\ (~slipped' => ~slipped /\ ~Zephyr!Foreign(sock[o].in, o))
  BY <1>2, Changes, Zenon
<1>7. /\ zcur' \in [Objects -> Dues] /\ zcur'[o].due = << >>
      /\ zout' \in [Objects -> Packets] /\ zout'[o].data = << >>
      /\ \A x \in Objects : x # o => zcur'[x] = zcur[x] /\ zout'[x] = zout[x]
  <2>1. /\ Zephyr!Untaken \in Dues /\ Zephyr!Untaken.due = << >>
        /\ Zephyr!Unwritten \in Packets /\ Zephyr!Unwritten.data = << >>
    BY EmptySeq DEF Zephyr!Untaken, Zephyr!Unwritten, Zephyr!Anyone, Dues, Packets, Ends
  <2> QED BY <1>2, <2>1, Changes
<1>8. ZephyrTyped'
  BY <1>2, <1>3, <1>5, <1>6, <1>7, Changes DEF ZephyrTyped
<1>9. Shut'
  BY <1>1, <1>3 DEF ZephyrInv, Shut
<1>10. Zephyr!TypeOK'
  <2>1. \A x \in Objects : sock'[x].in \in 0 .. NFds /\ sock'[x].out \in 0 .. NFds
    BY <1>5 DEF Members
  <2>2. ASSUME NEW f \in Zephyr!Fds, fds'[f].open PROVE \E x \in Objects : f \in {sock'[x].in, sock'[x].out}
    <3>1. f # sock[o].out /\ f # sock[o].in /\ fds[f].open
      BY <1>1, <1>3, <2>2, ClosedIsSocket
    <3>2. PICK x \in Objects : f \in {sock[x].in, sock[x].out}
      BY <3>1, Descriptors
    <3>3. x # o
      BY <3>1, <3>2
    <3> QED BY <1>5, <3>2, <3>3
  <2> QED BY <2>1, <2>2 DEF Zephyr!TypeOK
<1>11. Zephyr!KeepsSocket'
  <2> SUFFICES ASSUME ~slipped', NEW x \in Objects
               PROVE  /\ sock'[x].out # 0 => fds'[sock'[x].out].owner = <<x, "out">>
                      /\ \A f \in Zephyr!Fds : fds'[f].owner = <<x, "in">> => sock'[x].in = f
    BY DEF Zephyr!KeepsSocket, Zephyr!None
  <2>1. ~slipped /\ (sock[o].in # 0 /\ fds[sock[o].in].open => fds[sock[o].in].owner = <<o, "in">>)
    BY <1>6 DEF Zephyr!Foreign, Zephyr!None
  <2>2. ASSUME sock'[x].out # 0 PROVE fds'[sock'[x].out].owner = <<x, "out">>
    <3> DEFINE g == sock[x].out
    <3>1. x # o /\ sock'[x].out = g
      BY <1>4, <1>5, <2>2
    <3>2. g \in Zephyr!Fds /\ fds[g].owner = <<x, "out">>
      BY <2>1, <2>2, <3>1, Descriptors, Numbers DEF Zephyr!Fds
    <3>3. fds[g].open
      BY <3>2, Descriptors DEF Zephyr!Nobody
    <3>4. g # sock[o].in
      BY <2>1, <2>2, <3>1, <3>2, <3>3
    <3>5. g # sock[o].out
      BY <2>1, <2>2, <3>1, <3>2, Descriptors
    <3> QED BY <1>1, <1>3, <3>1, <3>2, <3>4, <3>5
  <2>3. ASSUME NEW f \in Zephyr!Fds, fds'[f].owner = <<x, "in">> PROVE sock'[x].in = f
    <3>1. fds[f].owner = <<x, "in">>
      BY <1>1, <1>3, <2>3 DEF Zephyr!Closed, Zephyr!Nobody
    <3>2. sock[x].in = f
      BY <2>1, <3>1, Descriptors
    <3> QED BY <1>4, <1>5, <3>2
  <2> QED BY <2>2, <2>3
<1>12. Zephyr!ReadsCurrent' /\ Short'
  BY <1>5, <1>7, ReadsKept
<1>13. Zephyr!SendsWritten'
  BY <1>4, <1>5, <1>7, SendsKept
<1> QED BY <1>8, <1>9, <1>10, <1>11, <1>12, <1>13, ZephyrParts

Sending(m, f, p) == [m EXCEPT !.out = f, !.dest = p]
Mute(m) == [m EXCEPT !.out = 0]

\* beginPacket(): the socket that sent is closed, and another opened for it or none.
LEMMA ZephyrBeginsPacket ==
  ASSUME ZephyrInv, NEW o \in Objects, NEW p \in Peers, Zephyr!BeginPacket(o, p)
  PROVE  ZephyrInv'
<1> DEFINE t == Zephyr!Close(fds, sock[o].out)
           Like(m, e) == /\ e.in = m.in /\ e.inPos = m.inPos /\ e.dataIn = m.dataIn /\ e.remote = m.remote
                         /\ e.dataOut = m.dataOut
<1>1. /\ t \in [Zephyr!Fds -> Sockets]
      /\ \A g \in Zephyr!Fds : t[g] = (IF g = sock[o].out THEN Zephyr!Closed ELSE fds[g])
  BY Changes, Closes, SMTT(30)
<1> HIDE DEF t
<1>2. /\ UNCHANGED <<zcur, slipped, zins>> /\ zouts' = zouts + 1
      /\ \/ /\ fds' = t /\ sock' = [sock EXCEPT ![o] = Mute(sock[o])] /\ zout' = zout
         \/ /\ ~Zephyr!Full(t) /\ fds' = Zephyr!Open(t, <<o, "out">>, 0)
            /\ sock' = [sock EXCEPT ![o] = Sending(sock[o], Zephyr!NextFd(t), p)]
            /\ zout' = [zout EXCEPT ![o] = [data |-> << >>, to |-> p, first |-> @.first /\ @.data = << >>]]
  BY SMTT(30) DEF Zephyr!BeginPacket, Zephyr!None, Zephyr!Ephemeral, Mute, Sending, t
<1>3. /\ fds' \in [Zephyr!Fds -> Sockets] /\ sock' \in [Objects -> Members] /\ zout' \in [Objects -> Packets]
      /\ \A x \in Objects : x # o => sock'[x] = sock[x] /\ zout'[x] = zout[x]
      /\ Like(sock[o], sock'[o])
      /\ \/ sock'[o].out = 0 /\ fds' = t /\ zout'[o] = zout[o]
         \/ /\ sock'[o].out \in Zephyr!Fds /\ ~t[sock'[o].out].open
            /\ fds'[sock'[o].out].open /\ fds'[sock'[o].out].owner = <<o, "out">>
            /\ \A g \in Zephyr!Fds : g # sock'[o].out => fds'[g] = t[g]
            /\ sock'[o].dest = p /\ zout'[o].to = p /\ zout'[o].data = << >>
            /\ zout'[o].first => zout[o].first /\ zout[o].data = << >>
  <2>1. CASE fds' = t /\ sock' = [sock EXCEPT ![o] = Mute(sock[o])] /\ zout' = zout
    <3> DEFINE e == Mute(sock[o])
    <3>1. e \in Members /\ Like(sock[o], e) /\ e.out = 0
      <4>1. 0 \in 0 .. NFds /\ sock[o] \in Members
        BY Changes, Numbers
      <4> QED BY <4>1 DEF Members, Mute
    <3> HIDE DEF e
    <3>2. sock' = [sock EXCEPT ![o] = e]
      BY <2>1 DEF e
    <3>3. sock' \in [Objects -> Members] /\ sock'[o] = e /\ \A x \in Objects : x # o => sock'[x] = sock[x]
      BY <3>1, <3>2, Changes
    <3> QED BY <1>1, <2>1, <3>1, <3>3, Changes
  <2>2. CASE /\ ~Zephyr!Full(t) /\ fds' = Zephyr!Open(t, <<o, "out">>, 0)
             /\ sock' = [sock EXCEPT ![o] = Sending(sock[o], Zephyr!NextFd(t), p)]
             /\ zout' = [zout EXCEPT ![o] = [data |-> << >>, to |-> p, first |-> @.first /\ @.data = << >>]]
    <3> DEFINE f == Zephyr!NextFd(t)
               e == Sending(sock[o], f, p)
               k == [data |-> << >>, to |-> p, first |-> zout[o].first /\ zout[o].data = << >>]
    <3>1. /\ f \in Zephyr!Fds /\ ~t[f].open
          /\ fds' \in [Zephyr!Fds -> Sockets]
          /\ fds'[f].open /\ fds'[f].owner = <<o, "out">>
          /\ \A g \in Zephyr!Fds : g # f => fds'[g] = t[g]
      <4>1. <<o, "out">> \in Owners
        BY DEF Owners
      <4> QED BY <1>1, <2>2, <4>1, Opens
    <3>2. sock' = [sock EXCEPT ![o] = e] /\ zout' = [zout EXCEPT ![o] = k]
      BY <2>2
    <3> HIDE DEF f
    <3>3. e \in Members /\ Like(sock[o], e) /\ e.out = f /\ e.dest = p
      <4>1. f \in 0 .. NFds /\ sock[o] \in Members /\ p \in Ends
        BY <3>1, Changes, Numbers DEF Zephyr!Fds, Ends
      <4> QED BY <4>1, Zenon DEF Members, Sending
    <3>4. /\ k \in Packets /\ k.to = p /\ k.data = << >> /\ (k.first => zout[o].first /\ zout[o].data = << >>)
      <4>1. << >> \in Seq(UnitSet) /\ zout[o].first \in BOOLEAN /\ p \in Ends
        BY Changes, EmptySeq DEF Packets, Ends
      <4> QED BY <4>1, ZenonT(40) DEF Packets
    <3> HIDE DEF e, k
    <3>5. /\ sock' \in [Objects -> Members] /\ sock'[o] = e /\ zout' \in [Objects -> Packets] /\ zout'[o] = k
          /\ \A x \in Objects : x # o => sock'[x] = sock[x] /\ zout'[x] = zout[x]
      BY <3>2, <3>3, <3>4, Changes, SMTT(30)
    <3> QED BY <3>1, <3>3, <3>4, <3>5
  <2> QED BY <1>2, <2>1, <2>2
<1>4. ZephyrTyped'
  BY <1>2, <1>3, Changes DEF ZephyrTyped
<1>5. Shut'
  BY <1>1, <1>3, SMTT(30) DEF ZephyrInv, Shut
<1>6. Zephyr!TypeOK'
  <2>1. \A x \in Objects : sock'[x].in \in 0 .. NFds /\ sock'[x].out \in 0 .. NFds
    BY <1>3 DEF Members
  <2>2. ASSUME NEW f \in Zephyr!Fds, fds'[f].open PROVE \E x \in Objects : f \in {sock'[x].in, sock'[x].out}
    <3>1. CASE f = sock'[o].out
      BY <3>1
    <3>2. CASE f # sock'[o].out
      <4>1. f # sock[o].out /\ fds[f].open
        BY <1>1, <1>3, <2>2, <3>2, ClosedIsSocket
      <4>2. PICK x \in Objects : f \in {sock[x].in, sock[x].out}
        BY <4>1, Descriptors
      <4>3. f \in {sock'[x].in, sock'[x].out}
        <5>1. CASE x = o
          BY <1>3, <4>1, <4>2, <5>1
        <5>2. CASE x # o
          BY <1>3, <4>2, <5>2
        <5> QED BY <5>1, <5>2
      <4> QED BY <4>3
    <3> QED BY <3>1, <3>2
  <2> QED BY <2>1, <2>2 DEF Zephyr!TypeOK
<1>7. Zephyr!KeepsSocket'
  <2> SUFFICES ASSUME ~slipped', NEW x \in Objects
               PROVE  /\ sock'[x].out # 0 => fds'[sock'[x].out].owner = <<x, "out">>
                      /\ \A f \in Zephyr!Fds : fds'[f].owner = <<x, "in">> => sock'[x].in = f
    BY DEF Zephyr!KeepsSocket, Zephyr!None
  <2>1. ~slipped
    BY <1>2
  <2>2. \A g \in Zephyr!Fds : g # sock'[o].out => fds'[g] = t[g]
    BY <1>3
  <2>3. ASSUME sock'[x].out # 0 PROVE fds'[sock'[x].out].owner = <<x, "out">>
    <3>1. CASE x = o
      BY <1>3, <2>3, <3>1
    <3>2. CASE x # o
      <4> DEFINE g == sock[x].out
      <4>1. sock'[x].out = g
        BY <1>3, <3>2
      <4>2. g \in Zephyr!Fds /\ fds[g].owner = <<x, "out">>
        <5>1. g \in 0 .. NFds /\ g # 0
          BY <2>3, <4>1, Changes
        <5>2. fds[g].owner = <<x, "out">>
          BY <2>1, <5>1, Descriptors, SMTT(30)
        <5> QED BY <5>1, <5>2, Numbers DEF Zephyr!Fds
      <4>3. fds[g].open /\ g # sock[o].out
        BY <2>1, <2>3, <3>2, <4>1, <4>2, Descriptors DEF Zephyr!Nobody
      <4>4. t[g] = fds[g]
        BY <1>1, <4>2, <4>3
      <4>5. g # sock'[o].out
        BY <1>3, <2>3, <4>1, <4>3, <4>4
      <4> QED BY <2>2, <4>1, <4>2, <4>4, <4>5
    <3> QED BY <3>1, <3>2
  <2>4. ASSUME NEW f \in Zephyr!Fds, fds'[f].owner = <<x, "in">> PROVE sock'[x].in = f
    <3>1. f # sock'[o].out
      BY <1>3, <2>4, Numbers DEF Zephyr!Fds
    <3>2. fds[f].owner = <<x, "in">>
      BY <1>1, <2>2, <2>4, <3>1 DEF Zephyr!Closed, Zephyr!Nobody
    <3>3. sock[x].in = f
      BY <2>1, <3>2, Descriptors
    <3>4. sock'[x].in = sock[x].in
      BY <1>3, SMTT(30)
    <3> QED BY <3>3, <3>4
  <2> QED BY <2>3, <2>4
<1>8. Zephyr!ReadsCurrent' /\ Short'
  BY <1>2, <1>3, ReadsKept
<1>9. Zephyr!SendsWritten'
  <2> SUFFICES ASSUME NEW x \in Objects, zout'[x].first
               PROVE  sock'[x].dataOut = zout'[x].data /\ (sock'[x].out # 0 => sock'[x].dest = zout'[x].to)
    BY SMTT(30) DEF Zephyr!SendsWritten, Zephyr!None
  <2>1. zout[x].first => sock[x].dataOut = zout[x].data /\ (sock[x].out # 0 => sock[x].dest = zout[x].to)
    BY DEF ZephyrInv, Zephyr!SendsWritten, Zephyr!None
  <2>2. CASE x # o
    BY <1>3, <2>1, <2>2, SMTT(30)
  <2>3. CASE x = o
    BY <1>3, <2>1, <2>3
  <2> QED BY <2>2, <2>3
<1> QED BY <1>4, <1>5, <1>6, <1>7, <1>8, <1>9, ZephyrParts

\* A datagram is queued at a socket that has a port.
LEMMA ZephyrArrives ==
  ASSUME ZephyrInv, Zephyr!Arrive
  PROVE  ZephyrInv'
<1>1. /\ UNCHANGED <<sock, zcur, zout, slipped, zouts>> /\ zins' = zins + 1
  BY DEF Zephyr!Arrive
<1>2. PICK f \in Zephyr!Fds, p \in Peers, n \in ZephyrSizes :
        /\ fds[f].bound
        /\ fds' = [fds EXCEPT ![f].q = Append(@, [from |-> p, data |-> Zephyr!Units(zins + 1, n)])]
  BY Zenon DEF Zephyr!Arrive
<1> DEFINE d == [from |-> p, data |-> Zephyr!Units(zins + 1, n)]
           q == Append(fds[f].q, d)
<1>3. d \in Waiting
  <2>1. n \in Nat /\ zins + 1 \in Nat
    BY Changes, Numbers
  <2>2. \A i \in 1 .. n : <<"in", zins + 1, i>> \in UnitSet
    BY <2>1 DEF UnitSet
  <2>3. Zephyr!Units(zins + 1, n) \in Seq(UnitSet)
    BY <2>1, <2>2, IsASeq DEF Zephyr!Units
  <2> QED BY <2>3 DEF Waiting
<1>4. q \in Seq(Waiting)
  <2>1. fds[f].q \in Seq(Waiting)
    BY Changes DEF Sockets
  <2> QED BY <1>3, <2>1, AppendProperties
<1>5. fds' = [fds EXCEPT ![f].q = q]
  BY <1>2
<1> HIDE DEF q
<1>6. fds' \in [Zephyr!Fds -> Sockets]
  BY <1>4, <1>5, Changes, ZenonT(40) DEF Sockets
<1>7. /\ \A g \in Zephyr!Fds : g # f => fds'[g] = fds[g]
      /\ fds'[f].open = fds[f].open /\ fds'[f].owner = fds[f].owner
  BY <1>5, Changes DEF Sockets
<1>8. ZephyrTyped'
  BY <1>1, <1>6, Changes DEF ZephyrTyped
<1>9. Shut'
  <2>1. fds[f].open
    BY <1>2, ClosedIsSocket DEF ZephyrInv, Shut
  <2> QED BY <1>7, <2>1, Zenon DEF ZephyrInv, Shut
<1>10. Zephyr!TypeOK' /\ Zephyr!KeepsSocket'
  BY <1>1, <1>7, Settled
<1>11. Zephyr!ReadsCurrent' /\ Short' /\ Zephyr!SendsWritten'
  BY <1>1, ReadsKept, SendsKept
<1> QED BY <1>8, <1>9, <1>10, <1>11, ZephyrParts

Wrote(m, d) == [m EXCEPT !.dataOut = d]
Wrote2(m, d) == [m EXCEPT !.data = d]

\* write() puts the units into the buffer.
LEMMA ZephyrWrites ==
  ASSUME ZephyrInv, NEW o \in Objects, Zephyr!Write(o, << <<"out", zouts, Len(sock[o].dataOut) + 1>> >>)
  PROVE  ZephyrInv'
<1> DEFINE u == << <<"out", zouts, Len(sock[o].dataOut) + 1>> >>
           d == sock[o].dataOut \o u
           k == zout[o].data \o u
<1>1. /\ sock' = [sock EXCEPT ![o] = Wrote(sock[o], d)] /\ zout' = [zout EXCEPT ![o] = Wrote2(zout[o], k)]
      /\ UNCHANGED <<fds, zcur, slipped, zins, zouts>>
  BY DEF Zephyr!Write, Wrote, Wrote2
<1>2. sock[o].dataOut \in Seq(UnitSet) /\ zout[o].data \in Seq(UnitSet) /\ sock[o] \in Members /\ zout[o] \in Packets
  BY Changes DEF Members, Packets
<1>3. u \in Seq(UnitSet)
  <2>1. Len(sock[o].dataOut) \in Nat
    BY <1>2, LenProperties
  <2>2. <<"out", zouts, Len(sock[o].dataOut) + 1>> \in UnitSet
    BY <2>1, Changes, SMTT(30) DEF UnitSet
  <2> QED BY <2>2
<1> HIDE DEF u
<1>4. d \in Seq(UnitSet) /\ k \in Seq(UnitSet) /\ (sock[o].dataOut = zout[o].data => d = k)
  BY <1>2, <1>3, ConcatProperties, Zenon
<1> HIDE DEF d, k
<1> DEFINE e == Wrote(sock[o], d)
           w == Wrote2(zout[o], k)
<1>5. /\ e \in Members /\ e.dataOut = d /\ e.in = sock[o].in /\ e.out = sock[o].out /\ e.dest = sock[o].dest
      /\ e.inPos = sock[o].inPos /\ e.dataIn = sock[o].dataIn /\ e.remote = sock[o].remote
  BY <1>2, <1>4, Zenon DEF Members, Wrote
<1>6. w \in Packets /\ w.data = k /\ w.first = zout[o].first /\ w.to = zout[o].to
  BY <1>2, <1>4, Zenon DEF Packets, Wrote2
<1> HIDE DEF e, w
<1>7. /\ sock' = [sock EXCEPT ![o] = e] /\ zout' = [zout EXCEPT ![o] = w]
  BY <1>1 DEF e, w
<1>8. /\ sock' \in [Objects -> Members] /\ sock'[o] = e /\ zout' \in [Objects -> Packets] /\ zout'[o] = w
      /\ \A x \in Objects : x # o => sock'[x] = sock[x] /\ zout'[x] = zout[x]
  BY <1>5, <1>6, <1>7, Changes, SMTT(30)
<1>9. ZephyrTyped' /\ Shut'
  BY <1>1, <1>8, Changes DEF ZephyrTyped, ZephyrInv, Shut
<1>10. Zephyr!TypeOK' /\ Zephyr!KeepsSocket'
  <2>1. \A x \in Objects : sock'[x].in = sock[x].in /\ sock'[x].out = sock[x].out
    BY <1>5, <1>8
  <2> QED BY <1>1, <2>1, Settled
<1>11. Zephyr!ReadsCurrent' /\ Short'
  <2>1. \A x \in Objects : /\ zcur'[x] = zcur[x] /\ sock'[x].inPos = sock[x].inPos
                           /\ sock'[x].dataIn = sock[x].dataIn /\ sock'[x].remote = sock[x].remote
    BY <1>1, <1>5, <1>8
  <2> QED BY <2>1, ReadsKept
<1>12. Zephyr!SendsWritten'
  <2> SUFFICES ASSUME NEW x \in Objects, zout'[x].first
               PROVE  sock'[x].dataOut = zout'[x].data /\ (sock'[x].out # 0 => sock'[x].dest = zout'[x].to)
    BY DEF Zephyr!SendsWritten, Zephyr!None
  <2>1. zout[x].first => sock[x].dataOut = zout[x].data /\ (sock[x].out # 0 => sock[x].dest = zout[x].to)
    BY DEF ZephyrInv, Zephyr!SendsWritten, Zephyr!None
  <2>2. CASE x # o
    BY <1>8, <2>1, <2>2, SMTT(30)
  <2>3. CASE x = o
    BY <1>4, <1>5, <1>6, <1>8, <2>1, <2>3
  <2> QED BY <2>2, <2>3
<1> QED BY <1>9, <1>10, <1>11, <1>12, ZephyrParts

LEMMA Unbound ==
  \A r \in Sockets, b \in BOOLEAN : ~b /\ r.bound = FALSE => [r EXCEPT !.bound = b] = r
BY DEF Sockets

\* endPacket() gives an open socket its port.
LEMMA ZephyrEnds ==
  ASSUME ZephyrInv, NEW o \in Objects, Zephyr!EndPacket(o)
  PROVE  ZephyrInv'
<1> DEFINE f == sock[o].out
           b == fds[f].open
<1>1. f # 0 /\ fds' = [fds EXCEPT ![f].bound = b] /\ UNCHANGED <<sock, zcur, zout, slipped, zins, zouts>>
  BY DEF Zephyr!EndPacket, Zephyr!None
<1>2. f \in Zephyr!Fds
  BY <1>1, Changes, Numbers, SMTT(30) DEF Zephyr!Fds
<1>3. b \in BOOLEAN /\ fds[f] \in Sockets
  BY <1>2, Changes DEF Sockets
<1> HIDE DEF f
<1>4. fds' \in [Zephyr!Fds -> Sockets]
  BY <1>1, <1>2, <1>3, Changes, Zenon DEF Sockets
<1>5. /\ \A g \in Zephyr!Fds : g # f => fds'[g] = fds[g]
      /\ fds'[f].open = fds[f].open /\ fds'[f].owner = fds[f].owner
      /\ ~fds[f].open /\ fds[f] = Zephyr!Closed => fds'[f] = Zephyr!Closed
  <2>1. fds'[f] = [fds[f] EXCEPT !.bound = b] /\ \A g \in Zephyr!Fds : g # f => fds'[g] = fds[g]
    BY <1>1, <1>2, Changes
  <2>2. fds'[f].open = fds[f].open /\ fds'[f].owner = fds[f].owner
    BY <1>3, <2>1 DEF Sockets
  <2>3. ASSUME ~fds[f].open, fds[f] = Zephyr!Closed PROVE fds'[f] = Zephyr!Closed
    <3>1. ~b /\ fds[f].bound = FALSE
      BY <2>3 DEF Zephyr!Closed
    <3>2. fds'[f] = [fds[f] EXCEPT !.bound = b]
      BY <2>1
    <3> HIDE DEF b
    <3>3. fds'[f] = fds[f]
      BY <1>3, <3>1, <3>2, Unbound
    <3> QED BY <2>3, <3>3
  <2> QED BY <2>1, <2>2, <2>3
<1>6. ZephyrTyped'
  BY <1>1, <1>4, Changes DEF ZephyrTyped
<1>7. Shut'
  BY <1>5 DEF ZephyrInv, Shut
<1>8. Zephyr!TypeOK' /\ Zephyr!KeepsSocket'
  BY <1>1, <1>5, Settled
<1>9. Zephyr!ReadsCurrent' /\ Short' /\ Zephyr!SendsWritten'
  BY <1>1, ReadsKept, SendsKept
<1> QED BY <1>6, <1>7, <1>8, <1>9, ZephyrParts

\* available() of datagram d
Took(m, d, data) ==
  [m EXCEPT !.inPos = @ + Len(data), !.remote = d.from,
            !.dataIn = [i \in 1 .. BufSize |-> IF i <= Len(data) THEN data[i] ELSE @[i]]]

LEMMA ZephyrTakes ==
  ASSUME ZephyrInv, NEW o \in Objects, Zephyr!Available(o)
  PROVE  ZephyrInv'
<1> DEFINE f == IF Zephyr!Waits(sock[o].out) THEN sock[o].out ELSE sock[o].in
           d == Head(fds[f].q)
           data == Cut(d.data)
           e == Took(sock[o], d, data)
           c == IF sock[o].inPos = 0 THEN [due |-> data, from |-> d.from, clean |-> TRUE]
                ELSE [Zephyr!Untaken EXCEPT !.clean = FALSE]
<1>1. /\ Zephyr!Waits(f) /\ UNCHANGED <<zout, slipped, zins, zouts>>
      /\ fds' = [fds EXCEPT ![f].q = Tail(fds[f].q)]
      /\ sock' = [sock EXCEPT ![o] = e]
      /\ zcur' = [zcur EXCEPT ![o] = c]
  BY ZenonT(40) DEF Zephyr!Available, Took, Cut, Zephyr!Smaller
<1>2. f # 0 /\ fds[f].open /\ fds[f].q # << >>
  BY <1>1, ZenonT(40) DEF Zephyr!Waits, Zephyr!None
<1>3. f \in Zephyr!Fds /\ sock[o] \in Members
  BY <1>2, Changes, Numbers DEF Zephyr!Fds
<1>4. fds[f] \in Sockets /\ fds[f].q \in Seq(Waiting)
  BY <1>3, Changes DEF Sockets
<1> HIDE DEF f
<1>5. d \in Waiting /\ Tail(fds[f].q) \in Seq(Waiting)
  BY <1>2, <1>4, HeadTailProperties
<1> HIDE DEF d
<1>6. d.from \in Ends /\ d.data \in Seq(UnitSet)
  BY <1>5 DEF Waiting, Ends
<1>7. data \in Seq(UnitSet) /\ Len(data) \in Nat /\ Len(data) <= BufSize /\ BufSize \in Nat
  BY <1>6, CutFits, Numbers
<1> HIDE DEF data
<1>8. /\ e \in Members /\ e.in = sock[o].in /\ e.out = sock[o].out /\ e.dest = sock[o].dest
      /\ e.dataOut = sock[o].dataOut /\ e.remote = d.from /\ e.inPos = sock[o].inPos + Len(data)
      /\ e.dataIn = [i \in 1 .. BufSize |-> IF i <= Len(data) THEN data[i] ELSE sock[o].dataIn[i]]
  <2> DEFINE g == [i \in 1 .. BufSize |-> IF i <= Len(data) THEN data[i] ELSE sock[o].dataIn[i]]
  <2>1. \A i \in 1 .. Len(data) : data[i] \in UnitSet
    BY <1>7, ElementOfSeq
  <2>2. sock[o].inPos \in Nat /\ sock[o].dataIn \in [1 .. BufSize -> UnitSet]
    BY <1>3 DEF Members
  <2>3. g \in [1 .. BufSize -> UnitSet]
    BY <1>7, <2>1, <2>2
  <2>4. e = [sock[o] EXCEPT !.inPos = sock[o].inPos + Len(data), !.remote = d.from, !.dataIn = g]
    BY DEF Took
  <2> HIDE DEF g, e
  <2>5. sock[o].inPos + Len(data) \in Nat
    BY <1>7, <2>2
  <2>6. /\ e \in Members /\ e.in = sock[o].in /\ e.out = sock[o].out /\ e.dest = sock[o].dest
        /\ e.dataOut = sock[o].dataOut /\ e.remote = d.from /\ e.inPos = sock[o].inPos + Len(data)
        /\ e.dataIn = g
    BY <1>3, <1>6, <2>3, <2>4, <2>5, ZenonT(40) DEF Members
  <2> QED BY <2>6 DEF g
<1> HIDE DEF e
<1>9. c \in Dues /\ (c.due = << >> \/ (c.due = data /\ c.from = d.from /\ sock[o].inPos = 0))
  <2>1. << >> \in Seq(UnitSet) /\ 0 \in Ends
    BY EmptySeq DEF Ends
  <2> QED BY <1>6, <1>7, <2>1, Zenon DEF Dues, Zephyr!Untaken, Zephyr!Anyone
<1> HIDE DEF c
<1>10. /\ sock' \in [Objects -> Members] /\ sock'[o] = e /\ zcur' \in [Objects -> Dues] /\ zcur'[o] = c
       /\ \A x \in Objects : x # o => sock'[x] = sock[x] /\ zcur'[x] = zcur[x]
  BY <1>1, <1>8, <1>9, Changes
<1>11. /\ fds' \in [Zephyr!Fds -> Sockets]
       /\ \A g \in Zephyr!Fds : g # f => fds'[g] = fds[g]
       /\ fds'[f].open = fds[f].open /\ fds'[f].owner = fds[f].owner
  <2> DEFINE q == Tail(fds[f].q)
  <2>1. fds' = [fds EXCEPT ![f].q = q] /\ q \in Seq(Waiting)
    BY <1>1, <1>5
  <2> HIDE DEF q
  <2> QED BY <1>3, <1>4, <2>1, Changes, Zenon DEF Sockets
<1>12. ZephyrTyped'
  BY <1>1, <1>10, <1>11, Changes DEF ZephyrTyped
<1>13. Shut'
  BY <1>2, <1>11, Zenon DEF ZephyrInv, Shut
<1>14. Zephyr!TypeOK' /\ Zephyr!KeepsSocket'
  <2>1. \A x \in Objects : sock'[x].in = sock[x].in /\ sock'[x].out = sock[x].out
    BY <1>8, <1>10
  <2> QED BY <1>1, <1>11, <2>1, Settled
<1>15. Short'
  <2>1. Len(c.due) <= BufSize
    BY <1>7, <1>9, EmptySeq
  <2> QED BY <1>10, <2>1 DEF ZephyrInv, Short
<1>16. Zephyr!ReadsCurrent'
  <2> SUFFICES ASSUME NEW x \in Objects, zcur'[x].clean, zcur'[x].due # << >>
               PROVE  /\ sock'[x].inPos = Len(zcur'[x].due)
                      /\ SubSeq(sock'[x].dataIn, 1, Len(zcur'[x].due)) = zcur'[x].due
                      /\ sock'[x].remote = zcur'[x].from
    BY DEF Zephyr!ReadsCurrent, Zephyr!RemoteIP
  <2>1. CASE x # o
    BY <1>10, <2>1 DEF ZephyrInv, Zephyr!ReadsCurrent, Zephyr!RemoteIP
  <2>2. CASE x = o
    <3>1. c.due = data /\ c.from = d.from /\ sock[o].inPos = 0
      BY <1>9, <1>10, <2>2
    <3>2. e.inPos = Len(data)
      BY <1>7, <1>8, <3>1
    <3>3. SubSeq(e.dataIn, 1, Len(data)) = data
      <4>1. \A i \in 1 .. Len(data) : e.dataIn[i] = data[i] /\ data[i] \in UnitSet
        BY <1>7, <1>8, ElementOfSeq
      <4> QED BY <1>7, <4>1, Begins
    <3> QED BY <1>8, <1>10, <2>2, <3>1, <3>2, <3>3, ZenonT(40)
  <2> QED BY <2>1, <2>2
<1>17. Zephyr!SendsWritten'
  <2>1. \A x \in Objects : /\ zout'[x] = zout[x] /\ sock'[x].dataOut = sock[x].dataOut
                           /\ sock'[x].dest = sock[x].dest /\ sock'[x].out = sock[x].out
    BY <1>1, <1>8, <1>10
  <2> QED BY <2>1, SendsKept
<1> QED BY <1>12, <1>13, <1>14, <1>15, <1>16, <1>17, ZephyrParts

\* read() of n units, of an object that holds s of them and is owed c
Shifted(m, n) ==
  [m EXCEPT !.inPos = @ - n,
            !.dataIn = [i \in 1 .. BufSize |->
                          IF i + n <= (IF m.inPos < BufSize THEN m.inPos ELSE BufSize) THEN m.dataIn[i + n]
                          ELSE Zephyr!Junk]]
Owed(c, n) ==
  LET left == SubSeq(c.due, n + 1, Len(c.due))
  IN  IF left = << >> /\ c.clean THEN Zephyr!Untaken ELSE [c EXCEPT !.due = left]

LEMMA ZephyrReads ==
  ASSUME ZephyrInv, NEW o \in Objects, NEW n \in Nat, Zephyr!Read(o, n)
  PROVE  ZephyrInv'
<1> DEFINE m == sock[o]
           e == Shifted(m, n)
           c == Owed(zcur[o], n)
           left == SubSeq(zcur[o].due, n + 1, Len(zcur[o].due))
<1>1. m.inPos >= n /\ sock' = [sock EXCEPT ![o] = e] /\ zcur' = [zcur EXCEPT ![o] = c]
      /\ UNCHANGED <<fds, zout, slipped, zins, zouts>>
  BY DEF Zephyr!Read, Shifted, Owed, Zephyr!Smaller
<1>2. m \in Members /\ m.inPos \in Nat /\ n <= m.inPos /\ m.dataIn \in [1 .. BufSize -> UnitSet] /\ BufSize \in Nat
  <2>1. m \in Members
    BY Changes
  <2>2. m.inPos \in Nat /\ m.dataIn \in [1 .. BufSize -> UnitSet]
    BY <2>1 DEF Members
  <2> QED BY <1>1, <2>1, <2>2, Numbers
<1>3. /\ e \in Members /\ e.in = m.in /\ e.out = m.out /\ e.dest = m.dest /\ e.dataOut = m.dataOut
      /\ e.remote = m.remote /\ e.inPos = m.inPos - n
      /\ \A i \in 1 .. BufSize : i + n <= m.inPos /\ i + n <= BufSize => e.dataIn[i] = m.dataIn[i + n]
  <2> DEFINE top == IF m.inPos < BufSize THEN m.inPos ELSE BufSize
             g == [i \in 1 .. BufSize |-> IF i + n <= top THEN m.dataIn[i + n] ELSE Zephyr!Junk]
  <2>1. Zephyr!Junk \in UnitSet
    BY DEF Zephyr!Junk, UnitSet
  <2>2. g \in [1 .. BufSize -> UnitSet]
    BY <1>2, <2>1
  <2>3. \A i \in 1 .. BufSize : i + n <= m.inPos /\ i + n <= BufSize => g[i] = m.dataIn[i + n]
    BY <1>2
  <2>4. e = [m EXCEPT !.inPos = m.inPos - n, !.dataIn = g]
    BY DEF Shifted
  <2> HIDE DEF g, e, m
  <2>5. m.inPos - n \in Nat
    BY <1>2
  <2> QED BY <1>2, <2>2, <2>3, <2>4, <2>5, ZenonT(40) DEF Members
<1>4. zcur[o].due \in Seq(UnitSet) /\ zcur[o] \in Dues /\ Len(zcur[o].due) \in Nat /\ Len(zcur[o].due) <= BufSize
  <2>1. zcur[o].due \in Seq(UnitSet) /\ zcur[o] \in Dues
    BY Changes DEF Dues
  <2> QED BY <2>1, LenProperties DEF ZephyrInv, Short
<1>5. /\ left \in Seq(UnitSet) /\ Len(left) \in Nat /\ Len(left) <= Len(zcur[o].due)
      /\ left # << >> => Len(left) = Len(zcur[o].due) - n
      /\ \A i \in 1 .. Len(left) : left[i] = zcur[o].due[n + i]
  <2>1. /\ left \in Seq(UnitSet)
        /\ Len(left) = (IF n + 1 <= Len(zcur[o].due) THEN Len(zcur[o].due) - (n + 1) + 1 ELSE 0)
        /\ \A i \in 1 .. Len(zcur[o].due) - (n + 1) + 1 : left[i] = zcur[o].due[n + 1 + i - 1]
    <3>1. n + 1 \in Nat \ {0}
      BY <1>2
    <3>2. \A s \in Seq(UnitSet), k \in Nat \ {0} : Len(s) \in Nat =>
            /\ SubSeq(s, k, Len(s)) \in Seq(UnitSet)
            /\ Len(SubSeq(s, k, Len(s))) = (IF k <= Len(s) THEN Len(s) - k + 1 ELSE 0)
            /\ \A i \in 1 .. Len(s) - k + 1 : SubSeq(s, k, Len(s))[i] = s[k + i - 1]
      BY Part
    <3> DEFINE d == zcur[o].due
               k == n + 1
    <3>3. d \in Seq(UnitSet) /\ Len(d) \in Nat
      BY <1>4
    <3> HIDE DEF d, k
    <3>4. /\ SubSeq(d, k, Len(d)) \in Seq(UnitSet)
          /\ Len(SubSeq(d, k, Len(d))) = (IF k <= Len(d) THEN Len(d) - k + 1 ELSE 0)
          /\ \A i \in 1 .. Len(d) - k + 1 : SubSeq(d, k, Len(d))[i] = d[k + i - 1]
      BY <3>1, <3>2, <3>3 DEF k
    <3> QED BY Zenon, <3>4 DEF d, k, left
  <2> HIDE DEF left
  <2>2. left # << >> => Len(left) # 0
    BY <2>1, EmptySeq
  <2>3. \A i \in 1 .. Len(left) : left[i] = zcur[o].due[n + i]
    <3>1. TAKE i \in 1 .. Len(left)
    <3>2. i \in 1 .. Len(zcur[o].due) - (n + 1) + 1 /\ n + 1 + i - 1 = n + i
      BY <1>4, <2>1
    <3>3. left[i] = zcur[o].due[n + 1 + i - 1]
      BY <2>1, <3>2, Zenon
    <3> QED BY <3>2, <3>3
  <2> QED BY <1>4, <2>1, <2>2, <2>3, SMTT(30)
<1>6. /\ c \in Dues
      /\ c.due = left /\ (left # << >> => c.clean = zcur[o].clean /\ c.from = zcur[o].from)
  <2>1. /\ Zephyr!Untaken \in Dues /\ Zephyr!Untaken.due = << >>
    BY EmptySeq DEF Zephyr!Untaken, Zephyr!Anyone, Dues, Ends
  <2>2. CASE left = << >> /\ zcur[o].clean
    BY <2>1, <2>2, Zenon DEF Owed
  <2>3. CASE ~(left = << >> /\ zcur[o].clean)
    <3>1. c = [zcur[o] EXCEPT !.due = left]
      BY <2>3, SMTT(30) DEF Owed
    <3> HIDE DEF c, left
    <3> QED BY <1>4, <1>5, <3>1, SMTT(30) DEF Dues
  <2> QED BY <2>2, <2>3
<1> HIDE DEF m, e, c, left
<1>7. /\ sock' \in [Objects -> Members] /\ sock'[o] = e /\ zcur' \in [Objects -> Dues] /\ zcur'[o] = c
      /\ \A x \in Objects : x # o => sock'[x] = sock[x] /\ zcur'[x] = zcur[x]
  BY <1>1, <1>3, <1>6, Changes
<1>8. ZephyrTyped' /\ Shut'
  BY <1>1, <1>7, Changes DEF ZephyrTyped, ZephyrInv, Shut
<1>9. \A x \in Objects : /\ sock'[x].in = sock[x].in /\ sock'[x].out = sock[x].out
                         /\ sock'[x].dest = sock[x].dest /\ sock'[x].dataOut = sock[x].dataOut
  BY <1>3, <1>7 DEF m
<1>10. Zephyr!TypeOK' /\ Zephyr!KeepsSocket' /\ Zephyr!SendsWritten'
  BY <1>1, <1>9, Settled, SendsKept
<1>11. Short'
  BY <1>4, <1>5, <1>6, <1>7, Numbers, SMTT(30) DEF ZephyrInv, Short
<1>12. Zephyr!ReadsCurrent'
  <2> SUFFICES ASSUME NEW x \in Objects, zcur'[x].clean, zcur'[x].due # << >>
               PROVE  /\ sock'[x].inPos = Len(zcur'[x].due)
                      /\ SubSeq(sock'[x].dataIn, 1, Len(zcur'[x].due)) = zcur'[x].due
                      /\ sock'[x].remote = zcur'[x].from
    BY DEF Zephyr!ReadsCurrent, Zephyr!RemoteIP
  <2>1. CASE x # o
    BY <1>7, <2>1 DEF ZephyrInv, Zephyr!ReadsCurrent, Zephyr!RemoteIP
  <2>2. CASE x = o
    <3>1. left # << >> /\ zcur[o].clean /\ c.from = zcur[o].from
      BY <1>6, <1>7, <2>2
    <3>2. Len(left) = Len(zcur[o].due) - n /\ Len(left) # 0
      BY <1>5, <3>1, EmptySeq
    <3>3. zcur[o].due # << >>
      BY <1>2, <1>4, <1>5, <3>2, EmptySeq
    <3>4. /\ m.inPos = Len(zcur[o].due) /\ m.remote = zcur[o].from
          /\ SubSeq(m.dataIn, 1, Len(zcur[o].due)) = zcur[o].due
      BY <3>1, <3>3 DEF ZephyrInv, Zephyr!ReadsCurrent, Zephyr!RemoteIP, m
    <3>5. \A i \in 1 .. Len(zcur[o].due) : zcur[o].due[i] = m.dataIn[i]
      <4>1. \A i \in 1 .. Len(zcur[o].due) : m.dataIn[i] \in UnitSet
        BY <1>2, <1>4
      <4>2. \A i \in 1 .. Len(zcur[o].due) - 1 + 1 :
              SubSeq(m.dataIn, 1, Len(zcur[o].due))[i] = m.dataIn[1 + i - 1]
        BY <1>4, <4>1, SubSeqProperties
      <4>3. \A i \in 1 .. Len(zcur[o].due) : zcur[o].due[i] = m.dataIn[1 + i - 1]
        BY <1>4, <3>4, <4>2
      <4> QED BY <1>4, <4>3
    <3>6. \A i \in 1 .. Len(left) : e.dataIn[i] = left[i]
      <4> SUFFICES ASSUME NEW i \in 1 .. Len(left) PROVE e.dataIn[i] = left[i]
        OBVIOUS
      <4>1. n + i \in 1 .. Len(zcur[o].due) /\ i \in 1 .. BufSize /\ i + n <= m.inPos /\ i + n <= BufSize
        BY <1>2, <1>4, <1>5, <3>2, <3>4
      <4>2. e.dataIn[i] = m.dataIn[i + n]
        BY <1>3, <4>1
      <4>3. left[i] = zcur[o].due[n + i] /\ zcur[o].due[n + i] = m.dataIn[n + i] /\ n + i = i + n
        BY <1>5, <3>5, <4>1
      <4> QED BY <4>2, <4>3
    <3>7. SubSeq(e.dataIn, 1, Len(left)) = left
      BY <1>5, <3>6, Begins
    <3>8. e.inPos = Len(left)
      BY <1>3, <3>2, <3>4
    <3> QED BY <1>3, <1>6, <1>7, <2>2, <3>1, <3>4, <3>7, <3>8
  <2> QED BY <2>1, <2>2
<1> QED BY <1>8, <1>10, <1>11, <1>12, ZephyrParts

LEMMA ZephyrStarts == Zephyr!Init => ZephyrInv
<1> SUFFICES ASSUME Zephyr!Init PROVE ZephyrInv
  OBVIOUS
<1>1. << >> \in Seq(UnitSet) /\ Len(<< >>) = 0 /\ BufSize \in Nat /\ 0 \in 0 .. NFds /\ 0 \in Ends
  BY EmptySeq, Numbers DEF Ends
<1>2. fds \in [Zephyr!Fds -> Sockets] /\ Shut
  BY ClosedIsSocket DEF Zephyr!Init, Shut
<1>3. sock \in [Objects -> Members] /\ \A o \in Objects : sock[o].in = 0 /\ sock[o].out = 0 /\ sock[o].dataOut = << >>
  <2> DEFINE m == [in |-> 0, out |-> 0, dest |-> 0, remote |-> 0,
                   dataIn |-> [i \in 1 .. BufSize |-> Zephyr!Junk], inPos |-> 0, dataOut |-> << >>]
  <2>1. Zephyr!Junk \in UnitSet
    BY DEF Zephyr!Junk, UnitSet
  <2>2. m \in Members /\ m.in = 0 /\ m.out = 0 /\ m.dataOut = << >>
    BY <1>1, <2>1 DEF Members
  <2>3. sock = [o \in Objects |-> m]
    BY DEF Zephyr!Init, Zephyr!None, Zephyr!Anyone
  <2> HIDE DEF m
  <2> QED BY <2>2, <2>3
<1>4. /\ zcur \in [Objects -> Dues] /\ \A o \in Objects : zcur[o].due = << >>
      /\ zout \in [Objects -> Packets] /\ \A o \in Objects : zout[o].data = << >>
  BY <1>1 DEF Zephyr!Init, Zephyr!Untaken, Zephyr!Unwritten, Zephyr!Anyone, Dues, Packets
<1>5. ZephyrTyped
  BY <1>2, <1>3, <1>4, Zenon DEF Zephyr!Init, ZephyrTyped
<1>6. Zephyr!TypeOK /\ Zephyr!KeepsSocket
  BY <1>1, <1>3, ClosedIsSocket DEF Zephyr!Init, Zephyr!TypeOK, Zephyr!KeepsSocket, Zephyr!None, Zephyr!Closed, Zephyr!Nobody
<1>7. Zephyr!ReadsCurrent /\ Zephyr!SendsWritten /\ Short
  BY <1>1, <1>3, <1>4 DEF Zephyr!ReadsCurrent, Zephyr!SendsWritten, Short, Zephyr!None
<1> QED BY <1>2, <1>5, <1>6, <1>7 DEF ZephyrInv

LEMMA ZephyrStep == ZephyrInv /\ [Zephyr!Next]_zephyr => ZephyrInv'
<1> SUFFICES ASSUME ZephyrInv, [Zephyr!Next]_zephyr PROVE ZephyrInv'
  OBVIOUS
<1>1. CASE Zephyr!Arrive
  BY <1>1, ZephyrArrives
<1>2. ASSUME NEW o \in Objects, NEW port \in Ports, Zephyr!Begin(o, port) PROVE ZephyrInv'
  BY <1>2, ZephyrBegins
<1>3. ASSUME NEW o \in Objects, Zephyr!Stop(o) PROVE ZephyrInv'
  BY <1>3, ZephyrStops
<1>4. ASSUME NEW o \in Objects, NEW p \in Peers, Zephyr!BeginPacket(o, p) PROVE ZephyrInv'
  BY <1>4, ZephyrBeginsPacket
<1>5. ASSUME NEW o \in Objects, Zephyr!Write(o, << <<"out", zouts, Len(sock[o].dataOut) + 1>> >>) PROVE ZephyrInv'
  BY <1>5, ZephyrWrites
<1>6. ASSUME NEW o \in Objects, Zephyr!EndPacket(o) PROVE ZephyrInv'
  BY <1>6, ZephyrEnds
<1>7. ASSUME NEW o \in Objects, Zephyr!Available(o) PROVE ZephyrInv'
  BY <1>7, ZephyrTakes
<1>8. ASSUME NEW o \in Objects, NEW n \in Nat, Zephyr!Read(o, n) PROVE ZephyrInv'
  BY <1>8, ZephyrReads
<1>9. ASSUME NEW o \in Objects, Zephyr!Flush(o) PROVE ZephyrInv'
  BY <1>8, <1>9 DEF Zephyr!Flush
<1>10. CASE UNCHANGED zephyr
  <2>1. UNCHANGED <<fds, sock, zcur, zout, slipped, zins, zouts>>
    BY <1>10 DEF zephyr
  <2>2. ZephyrTyped' /\ Shut'
    BY <2>1 DEF ZephyrInv, ZephyrTyped, Shut
  <2>3. Zephyr!TypeOK' /\ Zephyr!KeepsSocket'
    BY <2>1, Settled
  <2>4. Zephyr!ReadsCurrent' /\ Short'
    BY <2>1, ReadsKept
  <2>5. Zephyr!SendsWritten'
    BY <2>1, SendsKept
  <2> QED BY <2>2, <2>3, <2>4, <2>5, ZephyrParts
<1>11. \A n \in 1 .. BufSize : n \in Nat
  BY Numbers
<1>12. ASSUME Zephyr!Next PROVE ZephyrInv'
  BY ZenonT(40), <1>1, <1>2, <1>3, <1>4, <1>5, <1>6, <1>7, <1>8, <1>9, <1>11, <1>12 DEF Zephyr!Next
<1> QED BY <1>10, <1>12

-----------------------------------------------------------------------------
(* The three builds, each on its own                                       *)

Inv == UipInv /\ LwipInv /\ ZephyrInv

LEMMA InvHolds == Spec => []Inv
<1>1. Init => Inv
  BY UipStarts, LwipStarts, ZephyrStarts DEF Init, Inv
<1>2. Inv /\ [Next]_<<build, udp, lwip, zephyr>> => Inv'
  <2> SUFFICES ASSUME Inv, [Next]_<<build, udp, lwip, zephyr>> PROVE Inv'
    OBVIOUS
  <2>1. /\ [Uip!Next]_udp /\ [Lwip!Next]_lwip /\ [Zephyr!Next]_zephyr
    BY DEF Next
  <2> QED BY <2>1, UipStep, LwipStep, ZephyrStep DEF Inv
<1> QED BY <1>1, <1>2, PTL DEF Spec

\* read() gives the sketch the packet it is reading, peek() shows what comes next of it, and
\* remoteIP() is who sent it (RF24Udp.cpp:469-540, :566), in each build.
THEOREM UdpReads == Spec => []ReadsCurrent
<1>1. Inv => ReadsCurrent
  BY UipReads DEF Inv, LwipInv, ZephyrInv, ReadsCurrent
<1> QED BY <1>1, InvHolds, PTL

\* What endPacket() and the polls after it send (RF24Udp.cpp:326-359, :684-734) is what the sketch wrote
\* since beginPacket(), it goes to the end beginPacket() named, and it goes once.
THEOREM UdpSends == Spec => []SendsWritten
<1>1. Inv => SendsWritten
  BY UipSends DEF Inv, LwipInv, ZephyrInv, SendsWritten
<1> QED BY <1>1, InvHolds, PTL

\* Every entry of the uIP table, every control block and every descriptor is in the hands of the
\* object that can release it, and none is lost (RF24Udp.cpp:78-171).
THEOREM UdpKeeps == Spec => []KeepsSocket
<1>1. Inv => KeepsSocket
  BY UipTypes DEF Inv, LwipInv, ZephyrInv, KeepsSocket
<1> QED BY <1>1, InvHolds, PTL
=============================================================================
