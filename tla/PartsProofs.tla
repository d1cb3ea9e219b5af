----------------------------- MODULE PartsProofs ----------------------------
(***************************************************************************)
(* What holds of the parts of the library for any addresses and any sizes  *)
(* of their tables: the ARP table as a cache, what the getters say, the    *)
(* tables of connections, the table of neighbours, and the routers' caches.*)
(***************************************************************************)
EXTENDS MCParts, FiniteSetTheorems, WellFoundedInduction, TLAPS

-----------------------------------------------------------------------------
(* Least and greatest elements.                                            *)

LEMMA Least ==
  ASSUME NEW S, S \subseteq Nat, S # {}
  PROVE  Min(S) \in S /\ \A y \in S : Min(S) <= y
<1> DEFINE R == OpToRel(<, Nat)
<1>1. \A x, y \in Nat : <<y, x>> \in R <=> y < x
  BY Zenon DEF OpToRel
<1>2. PICK x \in S : \A y \in S : ~(<<y, x>> \in R)
  <2>1. IsWellFoundedOn(R, Nat)
    BY NatLessThanWellFounded, Zenon
  <2> HIDE DEF R
  <2> QED BY <2>1, WFMin, Zenon
<1>3. ASSUME NEW y \in S PROVE x <= y
  <2> HIDE DEF R
  <2>1. x \in Nat /\ y \in Nat
    OBVIOUS
  <2>2. ~(<<y, x>> \in R)
    BY <1>2
  <2>3. ~(y < x)
    BY <1>1, <2>1, <2>2, Zenon
  <2> QED BY <2>1, <2>3
<1> QED BY <1>3, Zenon DEF Min

LEMMA Greatest ==
  ASSUME NEW S, S \subseteq Int, S # {}, NEW n \in Int, \A x \in S : x <= n
  PROVE  Max(S) \in S /\ \A y \in S : y <= Max(S)
<1> DEFINE T == {n - x : x \in S}
<1>1. T \subseteq Nat /\ T # {}
  <2>1. \A x \in S : n - x \in Nat
    OBVIOUS
  <2> QED BY <2>1, Zenon
<1>2. Min(T) \in T /\ \A y \in T : Min(T) <= y
  BY <1>1, Least, Zenon
<1>3. PICK x \in S : Min(T) = n - x
  BY <1>2
<1>4. \A y \in S : y <= x
  <2> SUFFICES ASSUME NEW y \in S PROVE y <= x
    OBVIOUS
  <2>1. n - y \in T
    OBVIOUS
  <2>2. n - x <= n - y
    BY <1>2, <1>3, <2>1
  <2> QED BY <2>2
<1>5. \E z \in S : \A y \in S : z >= y
  BY <1>4
<1>6. Max(S) \in S /\ \A y \in S : Max(S) >= y
  BY <1>5, Zenon DEF Max
<1> QED BY <1>6

LEMMA MinOfTwo == ASSUME NEW a \in Nat, NEW b \in Nat PROVE Min({a, b}) = IF a <= b THEN a ELSE b
<1> DEFINE S == {a, b}
<1>1. S \subseteq Nat /\ S # {}
  OBVIOUS
<1>2. Min(S) \in S /\ \A y \in S : Min(S) <= y
  <2> HIDE DEF S
  <2> QED BY <1>1, Least, Zenon
<1>3. Min(S) \in {a, b} /\ Min(S) <= a /\ Min(S) <= b
  BY <1>2
<1> DEFINE m == Min(S)
<1> HIDE DEF m
<1>4. m \in {a, b} /\ m <= a /\ m <= b
  BY <1>3 DEF m
<1>5. m = IF a <= b THEN a ELSE b
  BY <1>4
<1> QED BY <1>5 DEF m

-----------------------------------------------------------------------------
(* The ARP table.                                                          *)

\* An entry whose time leaves room for MaxAge more calls of the timer before
\* the clock wraps is as old as the clock says, and not yet too old.
InTime ==
  \A i \in Entries : LET e == arp_table[i] IN
    e.ip # Zero /\ e.time + MaxAge < ClockRange
      => arptime = e.time + e.age /\ e.age < MaxAge

ArpInv == ArpTypeOK /\ InTime

-----------------------------------------------------------------------------
(* Looking up and replacing an entry.                                      *)

LEMMA ArpConstants ==
  /\ Entries \subseteq Nat /\ 1 \in Entries
  /\ ClockRange \in Nat /\ MaxAge \in Nat \ {0} /\ MaxAge < ClockRange
  /\ Zero \notin Ips /\ Hosts \subseteq Ips /\ Cached \subseteq Ips /\ Zero \notin Cached
  /\ \A s \in Senders : s[1] \in Ips \cup {Zero} /\ s[2] \in Macs
<1>1. Zero \notin Ips /\ Cached \subseteq Ips /\ Zero \notin Cached
  BY Zenon DEF Ips, Cached
<1>2. \A s \in Senders : s[1] \in Ips \cup {Zero} /\ s[2] \in Macs
  BY Zenon DEF Ips, Macs
<1>3. Hosts \subseteq Ips
  BY ArpAssumption, Zenon DEF Ips
<1> QED BY <1>1, <1>2, <1>3, ArpAssumption DEF Entries

LEMMA SendersArePairs == \A s \in Senders : <<s[1], s[2]>> \in Senders
BY ArpAssumption, Zenon

LEMMA SlotIsEntry ==
  ASSUME ArpTypeOK, NEW ip
  PROVE  /\ Slot(ip) \in Entries
         /\ \A i \in Entries : ip \in Cached /\ arp_table[i].ip = ip => i = Slot(ip)
<1> DEFINE same == {i \in Entries : arp_table[i].ip = ip /\ ip \in Cached}
           free == {i \in Entries : arp_table[i].ip = Zero}
<1>1. CASE same # {}
  <2>1. Min(same) \in same
    BY <1>1, ArpConstants, Least, Zenon
  <2>2. Slot(ip) = Min(same)
    BY <1>1 DEF Slot
  <2>3. ASSUME NEW i \in Entries, ip \in Cached, arp_table[i].ip = ip
        PROVE  i = Slot(ip)
    <3>1. Matches(arp_table[i].ip) = {i}
      BY <2>3 DEF ArpTypeOK
    <3>2. Slot(ip) \in Matches(ip)
      BY <2>1, <2>2 DEF Matches
    <3> QED BY <3>1, <3>2, <2>3
  <2> QED BY <2>1, <2>2, <2>3
<1>2. CASE same = {} /\ free # {}
  <2>1. Min(free) \in free
    BY <1>2, ArpConstants, Least, Zenon
  <2> QED BY <1>2, <2>1 DEF Slot
<1>3. CASE same = {} /\ free = {}
  <2>1. Oldest \in Entries
    <3> DEFINE D == {0} \cup {arptime - arp_table[i].time : i \in Entries}
               those == {i \in Entries : arptime - arp_table[i].time = Max(D)}
    <3>1. \A i \in Entries : arp_table[i].time \in 0 .. ClockRange - 1
      BY DEF ArpTypeOK, ArpEntries
    <3>2. D \subseteq Int /\ D # {} /\ \A x \in D : x <= ClockRange
      <4>1. \A i \in Entries : /\ arptime - arp_table[i].time \in Int
                               /\ arptime - arp_table[i].time <= ClockRange
        BY <3>1, ArpConstants DEF ArpTypeOK
      <4>2. \A x \in D : x = 0 \/ \E i \in Entries : x = arptime - arp_table[i].time
        OBVIOUS
      <4> HIDE DEF D
      <4>3. \A x \in D : x \in Int /\ x <= ClockRange
        BY <4>1, <4>2, ArpConstants
      <4>4. D # {}
        BY DEF D
      <4> QED BY <4>3, <4>4
    <3>3. Max(D) \in D
      <4> HIDE DEF D
      <4>1. \A n \in Int : (\A x \in D : x <= n) => Max(D) \in D
        BY <3>2, Greatest, Zenon
      <4> QED BY <3>2, <4>1, ArpConstants
    <3>4. CASE Max(D) = 0
      BY <3>4, ArpConstants DEF Oldest
    <3>5. CASE Max(D) # 0
      <4>1. those # {} /\ those \subseteq Nat
        BY <3>3, <3>5, ArpConstants, Zenon
      <4>2. Min(those) \in those
        BY <4>1, Least, Zenon
      <4>3. Oldest = Min(those)
        BY <3>5 DEF Oldest
      <4> QED BY <4>2, <4>3
    <3> QED BY <3>4, <3>5
  <2>2. Slot(ip) = Oldest
    BY <1>3 DEF Slot
  <2> QED BY <1>3, <2>1, <2>2
<1> QED BY <1>1, <1>2, <1>3

\* What a table gives for an address.
In(T, ip) == {i \in Entries : T[i].ip = ip}
Look(T, ip) == IF In(T, ip) = {} THEN NoMac ELSE T[Min(In(T, ip))].mac
OneEach(T) == \A i \in Entries : T[i].ip \in Cached => In(T, T[i].ip) = {i}

LEMMA LookCases ==
  ASSUME NEW T, OneEach(T), NEW ip \in Cached
  PROVE  /\ \A i \in Entries : T[i].ip = ip => Look(T, ip) = T[i].mac
         /\ (\A i \in Entries : T[i].ip # ip) => Look(T, ip) = NoMac
<1>1. ASSUME NEW i \in Entries, T[i].ip = ip PROVE Look(T, ip) = T[i].mac
  <2>1. In(T, ip) = {i}
    BY <1>1 DEF OneEach
  <2>2. Min({i}) = i
    <3>1. Min({i}) \in {i}
      BY ArpConstants, Least
    <3> QED BY <3>1
  <2> QED BY <2>1, <2>2 DEF Look
<1>2. ASSUME \A i \in Entries : T[i].ip # ip PROVE Look(T, ip) = NoMac
  BY <1>2 DEF Look, In
<1> QED BY <1>1, <1>2

LEMMA FoundIsLook ==
  /\ \A ip : Found(ip) = Look(arp_table, ip)
  /\ ArpTypeOK => OneEach(arp_table)
  /\ OneEach(arp_table) => \A i \in Entries : arp_table[i].ip \in Cached => Matches(arp_table[i].ip) = {i}
BY DEF Found, Look, Matches, In, OneEach, ArpTypeOK

\* Putting an entry into the slot found for its address keeps one entry for
\* each, and changes what the table gives for that address and for the one
\* the slot was taken from.
LEMMA PutEntry ==
  ASSUME ArpTypeOK, NEW e, NEW T, T = [arp_table EXCEPT ![Slot(e.ip)] = e]
  PROVE  /\ \A i \in Entries : T[i] = IF i = Slot(e.ip) THEN e ELSE arp_table[i]
         /\ OneEach(T)
<1> DEFINE k == Slot(e.ip)
           A == arp_table
<1>1. k \in Entries /\ \A i \in Entries : e.ip \in Cached /\ A[i].ip = e.ip => i = k
  BY SlotIsEntry
<1>2. OneEach(A)
  BY FoundIsLook
<1>3. \A i \in Entries : T[i] = IF i = k THEN e ELSE A[i]
  BY <1>1 DEF ArpTypeOK
<1> HIDE DEF k, A
<1>4. \A i, j \in Entries : A[i].ip \in Cached /\ A[j].ip = A[i].ip => j = i
  BY <1>2 DEF OneEach, In
<1>5. \A i, j \in Entries : T[i].ip \in Cached /\ T[j].ip = T[i].ip => j = i
  BY <1>1, <1>3, <1>4
<1>6. OneEach(T)
  BY <1>5 DEF OneEach, In
<1> QED BY <1>3, <1>6 DEF k, A

LEMMA PutLook ==
  ASSUME ArpTypeOK, NEW e, NEW T, T = [arp_table EXCEPT ![Slot(e.ip)] = e],
         NEW x \in Cached
  PROVE  Look(T, x) = IF x = e.ip THEN e.mac
                      ELSE IF x = arp_table[Slot(e.ip)].ip THEN NoMac
                      ELSE Look(arp_table, x)
<1> DEFINE k == Slot(e.ip)
           A == arp_table
<1>1. k \in Entries /\ \A i \in Entries : e.ip \in Cached /\ A[i].ip = e.ip => i = k
  BY SlotIsEntry
<1>2. OneEach(A)
  BY FoundIsLook
<1>3. OneEach(T) /\ \A i \in Entries : T[i] = IF i = k THEN e ELSE A[i]
  BY PutEntry, ZenonT(40)
<1> HIDE DEF k, A
<1>4. CASE x = e.ip
  <2>1. T[k] = e /\ T[k].ip = x
    BY <1>1, <1>3, <1>4
  <2>2. \A i \in Entries : T[i].ip = x => Look(T, x) = T[i].mac
    BY <1>3, LookCases, ZenonT(40)
  <2> QED BY <1>1, <1>4, <2>1, <2>2, Zenon
<1>5. CASE x # e.ip /\ x = A[k].ip
  <2>1. \A i, j \in Entries : A[i].ip \in Cached /\ A[j].ip = A[i].ip => j = i
    BY <1>2 DEF OneEach, In
  <2>2. \A i \in Entries : T[i].ip # x
    BY <2>1, <1>1, <1>3, <1>5
  <2> QED BY <1>3, <1>5, <2>2, LookCases, ZenonT(40) DEF k, A
<1>6. CASE x # e.ip /\ x # A[k].ip
  <2>1. CASE \E i \in Entries : A[i].ip = x
    <3> PICK i \in Entries : A[i].ip = x
      BY <2>1
    <3>1. T[i] = A[i] /\ T[i].ip = x
      BY <1>3, <1>6
    <3>2. Look(T, x) = T[i].mac
      BY <3>1, <1>3, LookCases, ZenonT(40)
    <3>3. Look(A, x) = A[i].mac
      BY <1>2, LookCases
    <3> QED BY <1>6, <3>1, <3>2, <3>3 DEF k, A
  <2>2. CASE \A i \in Entries : A[i].ip # x
    <3>1. \A i \in Entries : T[i].ip # x
      BY <2>2, <1>3, <1>6
    <3>2. Look(T, x) = NoMac /\ Look(A, x) = NoMac
      BY <2>2, <3>1, <1>2, <1>3, LookCases, Zenon
    <3> QED BY <1>6, <3>2 DEF k, A
  <2> QED BY <2>1, <2>2
<1> QED BY <1>4, <1>5, <1>6 DEF k, A

-----------------------------------------------------------------------------
(* The invariant.                                                          *)

LEMMA ClockTick ==
  ASSUME NEW n \in 0 .. ClockRange - 1
  PROVE  (n + 1) % ClockRange = IF n = ClockRange - 1 THEN 0 ELSE n + 1
<1>1. ClockRange \in Nat \ {0}
  BY ArpConstants
<1>2. CASE n = ClockRange - 1
  BY <1>1, <1>2
<1>3. CASE n + 1 < ClockRange
  BY <1>1, <1>3
<1> QED BY <1>1, <1>2, <1>3

LEMMA ArpInvInit == ArpInit => ArpInv
<1> SUFFICES ASSUME ArpInit PROVE ArpInv
  OBVIOUS
<1>1. Free \in ArpEntries
  BY ArpConstants DEF Free, ArpEntries
<1>2. \A i \in Entries : arp_table[i] = Free /\ arp_table[i].ip = Zero
  BY DEF ArpInit, Free
<1>3. ArpTypeOK
  BY <1>1, <1>2, ArpConstants DEF ArpInit, ArpTypeOK
<1> QED BY <1>2, <1>3 DEF ArpInv, InTime

LEMMA UpdateStep ==
  ASSUME ArpInv, NEW s \in Senders, Update(s[1], s[2]), UNCHANGED <<arptime, router>>
  PROVE  ArpInv'
<1> DEFINE k == Slot(s[1])
           e == [ip |-> s[1], mac |-> s[2], time |-> arptime, age |-> 0]
<1>t. ArpTypeOK
  BY DEF ArpInv
<1>1. k \in Entries
  BY <1>t, SlotIsEntry
<1>2. e \in ArpEntries
  BY <1>t, ArpConstants DEF ArpTypeOK, ArpEntries
<1>3. arp_table' = [arp_table EXCEPT ![k] = e]
  BY DEF Update
<1>4. \A i \in Entries : arp_table'[i] = IF i = k THEN e ELSE arp_table[i]
  BY <1>1, <1>3, <1>t DEF ArpTypeOK
<1>5. OneEach(arp_table')
  BY <1>3, <1>t, PutEntry, Zenon
<1>6. ArpTypeOK'
  <2>1. \A i \in Entries : arp_table'[i].ip \in Cached => Matches(arp_table[i].ip)' = {i}
    BY <1>5 DEF OneEach, In, Matches
  <2>2. \A i \in Entries : arp_table'[i].ip # Zero => <<arp_table'[i].ip, arp_table'[i].mac>> \in Senders
    <3> SUFFICES ASSUME NEW i \in Entries, arp_table'[i].ip # Zero
                 PROVE  <<arp_table'[i].ip, arp_table'[i].mac>> \in Senders
      OBVIOUS
    <3>1. CASE i = k
      BY <1>4, <3>1, SendersArePairs
    <3>2. CASE i # k
      <4>1. arp_table'[i] = arp_table[i]
        BY <1>4, <3>2
      <4> QED BY <4>1, <1>t, Zenon DEF ArpTypeOK
    <3> QED BY <3>1, <3>2
  <2> HIDE DEF k, e
  <2> QED BY <1>1, <1>2, <1>3, <1>t, <2>1, <2>2 DEF ArpTypeOK
<1>7. InTime'
  <2> SUFFICES ASSUME NEW i \in Entries, arp_table'[i].ip # Zero,
                      arp_table'[i].time + MaxAge < ClockRange
               PROVE  /\ arptime' = arp_table'[i].time + arp_table'[i].age
                      /\ arp_table'[i].age < MaxAge
    BY DEF InTime
  <2>1. CASE i = k
    BY <2>1, <1>4, <1>t, ArpConstants DEF ArpTypeOK, ArpEntries
  <2>2. CASE i # k
    BY <2>2, <1>4 DEF ArpInv, InTime
  <2> QED BY <2>1, <2>2
<1> QED BY <1>6, <1>7 DEF ArpInv

\* What a call of the timer does to an entry.
LEMMA TimerEntry ==
  ASSUME ArpInv, Timer, NEW i \in Entries
  PROVE  /\ arp_table'[i].ip = IF Expired(arp_table[i]) THEN Zero ELSE arp_table[i].ip
         /\ arp_table'[i].mac = arp_table[i].mac /\ arp_table'[i].time = arp_table[i].time
         /\ arp_table'[i] \in ArpEntries
         /\ arp_table'[i].ip # Zero /\ arp_table[i].age + 1 < MaxAge
              => arp_table'[i].age = arp_table[i].age + 1
<1> DEFINE e == arp_table[i]
<1>1. e \in ArpEntries
  BY SMTT(30) DEF ArpInv, ArpTypeOK
<1>2. arp_table'[i] = IF Expired(e) THEN [e EXCEPT !.ip = Zero, !.age = 0]
                      ELSE IF e.ip = Zero THEN e
                      ELSE [e EXCEPT !.age = Min({@ + 1, MaxAge})]
  BY Zenon DEF Timer
<1>3. /\ Min({e.age + 1, MaxAge}) \in 0 .. MaxAge
      /\ e.age + 1 < MaxAge => Min({e.age + 1, MaxAge}) = e.age + 1
  <2> DEFINE S == {e.age + 1, MaxAge}
  <2>1. S \subseteq Nat /\ S # {}
    BY <1>1, ArpConstants DEF ArpEntries
  <2>2. Min(S) \in S /\ \A y \in S : Min(S) <= y
    <3> HIDE DEF S
    <3> QED BY <2>1, Least, Zenon
  <2> QED BY <1>1, <2>2, ArpConstants DEF ArpEntries
<1> HIDE DEF e
<1>4. CASE Expired(e)
  <2>1. arp_table'[i] = [e EXCEPT !.ip = Zero, !.age = 0]
    BY <1>2, <1>4
  <2>2. /\ arp_table'[i].ip = Zero /\ arp_table'[i].mac = e.mac
        /\ arp_table'[i].time = e.time
        /\ arp_table'[i] \in ArpEntries
    <3>1. \A r \in ArpEntries : LET q == [r EXCEPT !.ip = Zero, !.age = 0] IN
            q \in ArpEntries /\ q.ip = Zero /\ q.mac = r.mac /\ q.time = r.time
      <4> SUFFICES ASSUME NEW r \in ArpEntries
                   PROVE  LET q == [r EXCEPT !.ip = Zero, !.age = 0] IN
                          q \in ArpEntries /\ q.ip = Zero /\ q.mac = r.mac /\ q.time = r.time
        BY Zenon
      <4> DEFINE p == [r EXCEPT !.ip = Zero]
                 q == [p EXCEPT !.age = 0]
      <4>1. p \in ArpEntries /\ p.ip = Zero /\ p.mac = r.mac /\ p.time = r.time
        BY DEF ArpEntries
      <4>2. 0 \in 0 .. MaxAge
        BY ArpConstants
      <4>3. q \in ArpEntries /\ q.ip = p.ip /\ q.mac = p.mac /\ q.time = p.time
        <5> HIDE DEF p
        <5> QED BY <4>1, <4>2 DEF ArpEntries
      <4>4. [r EXCEPT !.ip = Zero, !.age = 0] = q
        OBVIOUS
      <4> QED BY <4>1, <4>3, <4>4
    <3> QED BY <2>1, <3>1, <1>1, Zenon
  <2> QED BY <1>4, <2>2, SMTT(30) DEF e
<1>5. CASE ~Expired(e) /\ e.ip = Zero
  BY <1>1, <1>2, <1>5 DEF e
<1>6. CASE ~Expired(e) /\ e.ip # Zero
  <2>1. \A r \in ArpEntries : LET q == [r EXCEPT !.age = Min({@ + 1, MaxAge})] IN
          /\ q.ip = r.ip /\ q.mac = r.mac /\ q.time = r.time
          /\ q.age = Min({r.age + 1, MaxAge})
          /\ Min({r.age + 1, MaxAge}) \in 0 .. MaxAge => q \in ArpEntries
    BY DEF ArpEntries
  <2>2. arp_table'[i] = [e EXCEPT !.age = Min({@ + 1, MaxAge})]
    BY <1>2, <1>6
  <2> QED BY <1>1, <1>3, <1>6, <2>1, <2>2 DEF e
<1> QED BY <1>4, <1>5, <1>6

\* An entry expires when it is old enough, unless the clock wraps before.
LEMMA ExpiresInTime ==
  ASSUME ArpInv, Timer, NEW i \in Entries, arp_table[i].ip # Zero
  PROVE  /\ Expired(arp_table[i]) <=> /\ arp_table[i].age + 1 >= MaxAge
                                     /\ arp_table[i].time + MaxAge < ClockRange
         /\ arp_table[i].time + MaxAge < ClockRange
              => arptime' = arp_table[i].time + arp_table[i].age + 1
<1> DEFINE e == arp_table[i]
<1>1. /\ e.time \in 0 .. ClockRange - 1 /\ e.age \in 0 .. MaxAge
      /\ arptime \in 0 .. ClockRange - 1
  BY SMTT(30) DEF ArpInv, ArpTypeOK, ArpEntries
<1>2. arptime' = IF arptime = ClockRange - 1 THEN 0 ELSE arptime + 1
  BY <1>1, ClockTick, Zenon DEF Timer
<1>3. Expired(e) <=> arptime' - e.time >= MaxAge
  BY DEF Expired
<1>4. e.time + MaxAge < ClockRange => arptime = e.time + e.age /\ e.age < MaxAge
  BY DEF ArpInv, InTime
<1> HIDE DEF e
<1>5. CASE e.time + MaxAge < ClockRange
  <2>1. arptime' = e.time + e.age + 1
    BY <1>1, <1>2, <1>4, <1>5, ArpConstants
  <2>2. arptime' - e.time >= MaxAge <=> e.age + 1 >= MaxAge
    BY <2>1, <1>1, ArpConstants
  <2> QED BY <1>3, <1>5, <2>1, <2>2 DEF e
<1>6. CASE ~(e.time + MaxAge < ClockRange)
  <2>1. ~(arptime' - e.time >= MaxAge)
    BY <1>1, <1>2, <1>6, ArpConstants
  <2> QED BY <1>3, <1>6, <2>1 DEF e
<1> QED BY <1>5, <1>6, SMTT(30)

LEMMA TimerStep == ASSUME ArpInv, Timer PROVE ArpInv'
<1>t. ArpTypeOK
  BY DEF ArpInv
<1>1. \A i \in Entries : arp_table'[i].ip # Zero => arp_table'[i].ip = arp_table[i].ip
  BY TimerEntry
<1>2. OneEach(arp_table')
  <2>1. OneEach(arp_table) /\ Zero \notin Cached
    BY <1>t, FoundIsLook, ArpConstants
  <2> QED BY <1>1, <2>1 DEF OneEach, In
<1>3. ArpTypeOK'
  <2>1. \A i \in Entries : arp_table'[i].ip \in Cached => Matches(arp_table[i].ip)' = {i}
    BY <1>2 DEF OneEach, In, Matches
  <2>2. arp_table' \in [Entries -> ArpEntries]
    <3>1. \A i \in Entries : arp_table'[i] \in ArpEntries
      BY TimerEntry, SMTT(30)
    <3>2. arp_table' = [i \in Entries |-> arp_table'[i]]
      BY ZenonT(40) DEF Timer
    <3> QED BY <3>1, <3>2
  <2>3. arptime' \in 0 .. ClockRange - 1
    <3>1. arptime \in 0 .. ClockRange - 1 /\ arptime' = (arptime + 1) % ClockRange
      BY <1>t, ZenonT(40) DEF Timer, ArpTypeOK
    <3>2. arptime' = IF arptime = ClockRange - 1 THEN 0 ELSE arptime + 1
      BY <3>1, ClockTick, SMTT(30)
    <3> QED BY <3>1, <3>2, ArpConstants, SMTT(30)
  <2>4. router' = router
    BY Zenon DEF Timer
  <2>5. \A i \in Entries : arp_table'[i].ip # Zero => <<arp_table'[i].ip, arp_table'[i].mac>> \in Senders
    BY <1>1, <1>t, TimerEntry, SMTT(30) DEF ArpTypeOK
  <2> QED BY <1>t, <2>1, <2>2, <2>3, <2>4, <2>5, SMTT(30) DEF ArpTypeOK
<1>4. InTime'
  <2> SUFFICES ASSUME NEW i \in Entries, arp_table'[i].ip # Zero,
                      arp_table'[i].time + MaxAge < ClockRange
               PROVE  /\ arptime' = arp_table'[i].time + arp_table'[i].age
                      /\ arp_table'[i].age < MaxAge
    BY DEF InTime
  <2>1. arp_table'[i].time = arp_table[i].time /\ arp_table[i].ip # Zero
        /\ ~Expired(arp_table[i])
    BY <1>1, TimerEntry
  <2>2. /\ ~(arp_table[i].age + 1 >= MaxAge)
        /\ arptime' = arp_table[i].time + arp_table[i].age + 1
    BY <2>1, ExpiresInTime
  <2>3. arp_table[i].age \in 0 .. MaxAge /\ arp_table[i].time \in 0 .. ClockRange - 1
    BY <1>t DEF ArpTypeOK, ArpEntries
  <2>4. arp_table'[i].age = arp_table[i].age + 1
    BY <2>2, <2>3, ArpConstants, TimerEntry
  <2> QED BY <2>1, <2>2, <2>3, <2>4, ArpConstants
<1> QED BY <1>3, <1>4 DEF ArpInv

LEMMA ArpInvStep == ArpInv /\ [ArpNext]_arpVars => ArpInv'
<1> SUFFICES ASSUME ArpInv, [ArpNext]_arpVars PROVE ArpInv'
  OBVIOUS
<1>1. ASSUME UNCHANGED <<arp_table, arptime, router>> PROVE ArpInv'
  BY <1>1 DEF ArpInv, ArpTypeOK, InTime, Matches
<1>2. ASSUME IpIn PROVE ArpInv'
  <2>1. PICK s \in Senders :
          /\ IF s[1] \in Hosts THEN Update(s[1], s[2]) ELSE UNCHANGED <<arp_table, last>>
          /\ UNCHANGED <<arptime, router, sent>>
    BY <1>2 DEF IpIn
  <2> QED BY <1>1, <2>1, UpdateStep
<1>3. ASSUME ArpIn PROVE ArpInv'
  BY <1>1, <1>3, UpdateStep DEF ArpIn
<1>4. CASE Timer \/ Out \/ UNCHANGED arpVars
  BY <1>1, <1>4, TimerStep DEF Out, arpVars
<1> QED BY <1>2, <1>3, <1>4 DEF ArpNext

\* The table keeps its type, every entry is what one frame said, and no address is in it twice but
\* those of which one half is zero.
THEOREM ArpTypeCorrect == ArpSpec => []ArpTypeOK
<1>1. ArpInv => ArpTypeOK
  BY DEF ArpInv
<1> QED BY <1>1, ArpInvInit, ArpInvStep, PTL DEF ArpSpec

LEMMA AgesHold == ArpInv => Ages
<1> SUFFICES ASSUME ArpInv, Timer, NEW i \in Entries, arp_table[i].ip # Zero
             PROVE  (arp_table'[i].ip = Zero)
                      = /\ arp_table[i].age + 1 >= MaxAge
                        /\ arp_table[i].time + MaxAge < ClockRange
  BY Zenon DEF Ages
<1>1. arp_table'[i].ip = Zero <=> Expired(arp_table[i])
  BY TimerEntry
<1> QED BY <1>1, ExpiresInTime, Zenon

\* An entry goes when it has been there for MaxAge calls of the timer, and
\* one heard of too late in the clock's range stays.
THEOREM ArpAgesOut == ArpSpec => AgesOut
<1>1. ArpInv /\ [ArpNext]_arpVars => [Ages]_arpVars
  BY AgesHold
<1> QED BY <1>1, ArpInvInit, ArpInvStep, PTL DEF ArpSpec, AgesOut

-----------------------------------------------------------------------------
(* The table as a cache.                                                   *)

LEMMA UpdateRefines ==
  ASSUME ArpInv, NEW s \in Senders, Update(s[1], s[2])
  PROVE  Cache!Hear \/ Cache!Forget
<1> DEFINE ip == s[1]
           mac == s[2]
           k == Slot(ip)
           known == [x \in Cached |-> Found(x)]
           e == [ip |-> ip, mac |-> mac, time |-> arptime, age |-> 0]
<1>1. arp_table' = [arp_table EXCEPT ![k] = e] /\ e.ip = ip /\ e.mac = mac
  BY DEF Update
<1>2. \A x \in Cached : known'[x] = Look(arp_table', x) /\ known[x] = Look(arp_table, x)
  BY DEF Found, Look, Matches, In
<1>3. \A x \in Cached : Look(arp_table', x) = IF x = ip THEN mac
                         ELSE IF x = arp_table[k].ip THEN NoMac ELSE Look(arp_table, x)
  <2> SUFFICES ASSUME NEW x \in Cached
               PROVE  Look(arp_table', x) = IF x = ip THEN mac
                         ELSE IF x = arp_table[k].ip THEN NoMac ELSE Look(arp_table, x)
    OBVIOUS
  <2>1. ArpTypeOK
    BY DEF ArpInv
  <2>2. arp_table' = [arp_table EXCEPT ![Slot(e.ip)] = e]
    BY <1>1
  <2>3. Look(arp_table', x) = IF x = e.ip THEN e.mac
                              ELSE IF x = arp_table[Slot(e.ip)].ip THEN NoMac
                              ELSE Look(arp_table, x)
    <3> HIDE DEF e, known
    <3> QED BY <2>1, <2>2, PutLook, ZenonT(40)
  <2> QED BY <1>1, <2>3
<1> DEFINE gone == {x \in Cached : x = arp_table[k].ip}
<1>4. CASE ip \in Cached
  <2>1. ip \in Cached /\ mac \in Macs /\ gone \in SUBSET Cached
    BY <1>4, ArpConstants
  <2>2. last' = [ip |-> ip, mac |-> mac]
    BY <1>4 DEF Update
  <2>3. known' = [x \in Cached |-> IF x = ip THEN mac
                                ELSE IF x \in gone THEN NoMac ELSE known[x]]
    BY <1>2, <1>3
  <2> QED BY <2>1, <2>2, <2>3, ZenonT(40) DEF Cache!Hear
<1>5. CASE ip \notin Cached
  <2>1. gone \in SUBSET Cached
    OBVIOUS
  <2>2. last' = last
    BY <1>5 DEF Update
  <2>3. known' = [x \in Cached |-> IF x \in gone THEN NoMac ELSE known[x]]
    BY <1>2, <1>3, <1>5, ArpConstants
  <2> QED BY <2>1, <2>2, <2>3, Zenon DEF Cache!Forget
<1> QED BY <1>4, <1>5

LEMMA TimerRefines == ASSUME ArpInv, Timer PROVE Cache!Forget
<1> DEFINE known == [x \in Cached |-> Found(x)]
           gone == {x \in Cached : \A i \in Entries : arp_table'[i].ip # x}
<1>1. ArpTypeOK /\ ArpTypeOK'
  BY TimerStep DEF ArpInv
<1>2. OneEach(arp_table) /\ OneEach(arp_table')
  BY <1>1 DEF ArpTypeOK, OneEach, Matches, In
<1>3. \A x \in Cached : known'[x] = Look(arp_table', x) /\ known[x] = Look(arp_table, x)
  BY DEF Found, Look, Matches, In
<1>4. ASSUME NEW x \in Cached
      PROVE  Look(arp_table', x) = IF x \in gone THEN NoMac ELSE Look(arp_table, x)
  <2>1. x # Zero
    BY ArpConstants
  <2>2. CASE x \in gone
    BY <2>1, <2>2, <1>2, LookCases
  <2>3. CASE x \notin gone
    <3> PICK i \in Entries : arp_table'[i].ip = x
      BY <2>3
    <3>1. arp_table[i].ip = x /\ arp_table'[i].mac = arp_table[i].mac
      BY <2>1, TimerEntry
    <3>2. Look(arp_table', x) = arp_table'[i].mac
      BY <2>1, <1>2, LookCases
    <3>3. Look(arp_table, x) = arp_table[i].mac
      BY <2>1, <3>1, <1>2, LookCases
    <3> QED BY <2>3, <3>1, <3>2, <3>3
  <2> QED BY <2>2, <2>3
<1>5. known' = [x \in Cached |-> IF x \in gone THEN NoMac ELSE known[x]]
  <2> HIDE DEF gone
  <2> QED BY <1>3, <1>4, SMTT(30)
<1>6. last' = last /\ gone \in SUBSET Cached
  BY Zenon DEF Timer
<1> QED BY <1>5, <1>6, Zenon DEF Cache!Forget

\* For every address with no zero half the table knows the link address
\* heard last, or none, whatever was replaced, timed out or heard from who
\* has no address yet or one with a zero half.
THEOREM ArpRefines == ArpSpec => IsCache
<1> DEFINE known == [ip \in Cached |-> Found(ip)]
<1>1. ArpInit => Cache!Init
  <2> SUFFICES ASSUME ArpInit PROVE Cache!Init
    OBVIOUS
  <2>1. \A ip \in Cached : Found(ip) = NoMac
    BY ArpConstants DEF ArpInit, Found, Matches, Free
  <2> QED BY <2>1 DEF Cache!Init, ArpInit
<1>2. ArpInv /\ [ArpNext]_arpVars
        => [Cache!Hear \/ Cache!Forget]_<<last, known>>
  <2> SUFFICES ASSUME ArpInv, [ArpNext]_arpVars
               PROVE  Cache!Hear \/ Cache!Forget \/ UNCHANGED <<last, known>>
    OBVIOUS
  <2>1. ASSUME UNCHANGED <<arp_table, last>> PROVE UNCHANGED <<last, known>>
    BY <2>1 DEF Found, Matches
  <2>2. ASSUME IpIn PROVE Cache!Hear \/ Cache!Forget \/ UNCHANGED <<last, known>>
    <3>1. PICK s \in Senders :
            IF s[1] \in Hosts THEN Update(s[1], s[2]) ELSE UNCHANGED <<arp_table, last>>
      BY <2>2 DEF IpIn
    <3> HIDE DEF known
    <3> QED BY <2>1, <3>1, UpdateRefines
  <2>3. ASSUME ArpIn PROVE Cache!Hear \/ Cache!Forget \/ UNCHANGED <<last, known>>
    <3> HIDE DEF known
    <3> QED BY <2>1, <2>3, UpdateRefines DEF ArpIn
  <2>4. CASE Out \/ UNCHANGED arpVars
    BY <2>1, <2>4 DEF Out, arpVars
  <2>5. CASE Timer
    BY <2>5, TimerRefines
  <2> HIDE DEF known
  <2> QED BY <2>2, <2>3, <2>4, <2>5 DEF ArpNext
<1> QED BY <1>1, <1>2, ArpInvInit, ArpInvStep, PTL DEF ArpSpec, IsCache, Cache!Spec

-----------------------------------------------------------------------------
(* Configuration.                                                          *)

AskedIps == [net : Nets \cup {0}, host : HostNumbers \cup {0, 1}]
Asked == [ip : AskedIps, dns : DnsServers \cup {"none", DefaultDns},
          gateway : AskedIps, mask : Masks \cup {NoMask, DefaultMask}]
TableEntries == [ip : AskedIps, mask : Masks \cup {NoMask, DefaultMask}]

\* Why the getters agree: what they read is what was asked for, and of the
\* entries of Zephyr's table none has the address with another netmask.
AsAsked ==
  whole =>
    /\ ifGateway = asked.gateway /\ dnsServerAddress = asked.dns
    /\ node = asked.ip.host
    /\ stack # "zephyr" => ifUp = TRUE /\ ifAddrs = {[ip |-> asked.ip, mask |-> asked.mask]}
    /\ stack = "zephyr" =>
         /\ iface = TRUE /\ ethLocalIP = asked.ip
         /\ \A a \in ifAddrs : a.ip = asked.ip => a.mask = asked.mask
         /\ (\A a \in ifAddrs : a.ip # asked.ip) => Cardinality(ifAddrs) = MaxAddrs

SetupInv ==
  /\ asked \in Asked /\ ifAddrs \subseteq TableEntries
  /\ AsAsked
  /\ multicastRelay => radioChannel = RF24_Channel

-----------------------------------------------------------------------------
(* What begin() is given is an address, a server, a gateway and a netmask. *)
LEMMA BeginsAsked == ASSUME NEW c \in Begins PROVE c \in Asked
<1>1. PICK ip \in SketchIps, dns \in DnsServers, gateway \in SketchIps, mask \in Masks :
        c \in Overloads(ip, dns, gateway, mask)
  BY DEF Begins
<1> DEFINE four  == [ip |-> ip, dns |-> dns, gateway |-> gateway, mask |-> mask]
           three == [four EXCEPT !.mask = DefaultMask]
           two   == [three EXCEPT !.gateway = [ip EXCEPT !.host = 1]]
           one   == [two EXCEPT !.dns = DefaultDns]
<1>2. ip \in AskedIps /\ gateway \in AskedIps /\ [ip EXCEPT !.host = 1] \in AskedIps
  BY DEF SketchIps, AskedIps
<1>3. four \in Asked
  BY <1>2 DEF Asked
<1>4. three \in Asked
  BY <1>3 DEF Asked
<1>5. two \in Asked
  BY <1>2, <1>4, Zenon DEF Asked
<1>6. one \in Asked
  BY <1>5, Zenon DEF Asked
<1> QED
  BY <1>1, <1>3, <1>4, <1>5, <1>6 DEF Overloads

(* Adding an address to Zephyr's table and then setting its netmask leaves *)
(* no entry of that address with another netmask, and leaves the address   *)
(* out only when the table is full.                                        *)
LEMMA TableHasMask ==
  ASSUME NEW t \in SUBSET TableEntries, NEW c \in Asked,
         NEW u, u = SetNetmask(AddrAdd(t, c.ip), c.ip, c.mask)
  PROVE  /\ u \subseteq TableEntries
         /\ \A a \in u : a.ip = c.ip => a.mask = c.mask
         /\ (\A a \in u : a.ip # c.ip) => Cardinality(u) = MaxAddrs
<1> DEFINE v == AddrAdd(t, c.ip)
<1>1. c.ip \in AskedIps /\ c.mask \in Masks \cup {NoMask, DefaultMask}
  BY DEF Asked
<1>2. v \subseteq TableEntries
  BY <1>1 DEF AddrAdd, TableEntries
<1>3. \A a \in v : /\ a.ip \in AskedIps /\ a.mask \in Masks \cup {NoMask, DefaultMask}
                   /\ [a EXCEPT !.mask = c.mask] \in TableEntries
                   /\ [a EXCEPT !.mask = c.mask].ip = a.ip
                   /\ [a EXCEPT !.mask = c.mask].mask = c.mask
  BY <1>1, <1>2 DEF TableEntries
<1>4. (\A a \in v : a.ip # c.ip) => v = t /\ Cardinality(t) = MaxAddrs
  <2>1. [ip |-> c.ip, mask |-> NoMask].ip = c.ip
    OBVIOUS
  <2> QED
    BY <2>1, Zenon DEF AddrAdd
<1> HIDE DEF v
<1>5. u = {IF a.ip = c.ip THEN [a EXCEPT !.mask = c.mask] ELSE a : a \in v}
  BY DEF SetNetmask, v
<1>6. u \subseteq TableEntries /\ \A a \in u : a.ip = c.ip => a.mask = c.mask
  BY <1>2, <1>3, <1>5, Zenon
<1>7. ASSUME \A a \in u : a.ip # c.ip
      PROVE  Cardinality(u) = MaxAddrs
  <2>1. \A a \in v : a.ip # c.ip
    BY <1>3, <1>5, <1>7, ZenonT(40)
  <2>2. u = v
    BY <2>1, <1>5
  <2> QED
    BY <2>1, <2>2, <1>4
<1> QED
  BY <1>6, <1>7

LEMMA SetupInitInv == SetupInit => SetupInv
<1> SUFFICES ASSUME SetupInit PROVE SetupInv
  OBVIOUS
<1>1. NoIp \in AskedIps
  BY DEF NoIp, AskedIps
<1>2. asked \in Asked
  BY <1>1 DEF SetupInit, Asked
<1>3. multicastRelay => radioChannel = RF24_Channel
  BY DEF SetupInit
<1> QED
  BY <1>2, <1>3 DEF SetupInit, SetupInv, AsAsked

(* begin(), whatever it finds and wherever it gives up.                    *)
LEMMA ConfigureKeeps ==
  ASSUME SetupInv, NEW c \in Begins, configure(c), UNCHANGED channelVars
  PROVE  SetupInv'
<1>1. c \in Asked
  BY BeginsAsked
<1>2. c.ip \in AskedIps /\ c.mask \in Masks \cup {NoMask, DefaultMask}
  BY <1>1 DEF Asked
<1>3. (multicastRelay => radioChannel = RF24_Channel)'
  BY DEF SetupInv, channelVars
<1>4. CASE /\ stack # "zephyr"
           /\ ifAddrs' = {[ip |-> c.ip, mask |-> c.mask]} /\ ifGateway' = c.gateway /\ ifUp' = TRUE
           /\ dnsServerAddress' = c.dns /\ asked' = c /\ whole' = TRUE
  <2>1. stack' # "zephyr" /\ node' = c.ip.host
    BY <1>4 DEF configure
  <2>2. ifAddrs' \subseteq TableEntries
    BY <1>2, <1>4 DEF TableEntries
  <2>3. AsAsked'
    BY <1>4, <2>1 DEF AsAsked
  <2> QED
    BY <1>1, <1>3, <1>4, <2>2, <2>3 DEF SetupInv
<1>5. CASE /\ whole' = FALSE /\ UNCHANGED <<ifAddrs, asked>>
  BY <1>3, <1>5 DEF SetupInv, AsAsked
<1>6. CASE stack = "zephyr" /\ iface /\ ifAddrs' = ZephyrAddrs(c) /\ whole' = FALSE
           /\ UNCHANGED asked
  <2>1. ifAddrs' \subseteq TableEntries
    <3>1. ifAddrs \in SUBSET TableEntries
      BY DEF SetupInv
    <3> QED
      BY <1>1, <1>6, <3>1, TableHasMask DEF ZephyrAddrs
  <2> QED
    BY <1>3, <1>6, <2>1 DEF SetupInv, AsAsked
<1>7. CASE /\ stack = "zephyr" /\ iface /\ ifAddrs' = ZephyrAddrs(c) /\ ifGateway' = c.gateway
           /\ ethLocalIP' = c.ip /\ dnsServerAddress' = c.dns /\ asked' = c /\ whole' = TRUE
  <2>1. ifAddrs \in SUBSET TableEntries
    BY DEF SetupInv
  <2>2. /\ ifAddrs' \subseteq TableEntries
        /\ \A a \in ifAddrs' : a.ip = c.ip => a.mask = c.mask
        /\ (\A a \in ifAddrs' : a.ip # c.ip) => Cardinality(ifAddrs') = MaxAddrs
    BY <1>1, <1>7, <2>1, TableHasMask DEF ZephyrAddrs
  <2>3. stack' = "zephyr" /\ node' = c.ip.host
    BY <1>7 DEF configure
  <2>4. iface' = TRUE
    BY <1>7 DEF configure
  <2>5. AsAsked'
    BY <1>7, <2>2, <2>3, <2>4 DEF AsAsked
  <2> QED
    BY <1>1, <1>3, <1>7, <2>2, <2>5 DEF SetupInv
<1> QED
  BY <1>4, <1>5, <1>6, <1>7, Zenon DEF configure

LEMMA GatewayKeeps == ASSUME SetupInv, set_gateway PROVE SetupInv'
<1>1. PICK gwIP \in SketchIps : ifGateway' = gwIP /\ asked' = [asked EXCEPT !.gateway = gwIP]
  BY DEF set_gateway
<1>2. gwIP \in AskedIps
  BY DEF SketchIps, AskedIps
<1>3. asked \in Asked
  BY DEF SetupInv
<1>4. /\ asked' \in Asked
      /\ asked'.gateway = gwIP /\ asked'.ip = asked.ip
      /\ asked'.dns = asked.dns /\ asked'.mask = asked.mask
  BY <1>1, <1>2, <1>3 DEF Asked
<1>5. UNCHANGED <<stack, ifAddrs, ifUp, iface, ethLocalIP, dnsServerAddress, node, whole>>
      /\ UNCHANGED channelVars
  BY DEF set_gateway
<1>6. AsAsked'
  BY <1>1, <1>4, <1>5 DEF SetupInv, AsAsked
<1> QED
  BY <1>4, <1>5, <1>6 DEF SetupInv, channelVars

LEMMA SetupKeeps == SetupInv /\ [SetupNext]_setupVars => SetupInv'
<1> SUFFICES ASSUME SetupInv, [SetupNext]_setupVars PROVE SetupInv'
  OBVIOUS
<1>1. CASE begin
  BY <1>1, ConfigureKeeps DEF begin
<1>2. CASE set_gateway
  BY <1>2, GatewayKeeps
<1>3. CASE setMac
  BY <1>3 DEF SetupInv, AsAsked, setMac, addressVars
<1>4. CASE setChannel
  BY <1>4 DEF SetupInv, AsAsked, setChannel, addressVars
<1>5. CASE UNCHANGED setupVars
  BY <1>5 DEF SetupInv, AsAsked, setupVars
<1> QED
  BY <1>1, <1>2, <1>3, <1>4, <1>5 DEF SetupNext

(* What the getters say is what they read.                                 *)
LEMMA SetupSays == SetupInv => SetupAgrees
<1> SUFFICES ASSUME SetupInv, whole
             PROVE  /\ localIP = asked.ip /\ gatewayIP = asked.gateway
                    /\ dnsServerAddress = asked.dns /\ node = asked.ip.host
                    /\ \/ subnetMask = asked.mask
                       \/ /\ stack = "zephyr" /\ Cardinality(ifAddrs) = MaxAddrs
                          /\ \A a \in ifAddrs : a.ip # asked.ip
  BY DEF SetupInv, SetupAgrees
<1>1. AsAsked
  BY DEF SetupInv
<1>2. CASE stack # "zephyr"
  <2>1. ifUp = TRUE /\ ifAddrs = {[ip |-> asked.ip, mask |-> asked.mask]}
    BY <1>1, <1>2 DEF AsAsked
  <2>2. Only = [ip |-> asked.ip, mask |-> asked.mask]
    BY <2>1 DEF Only
  <2>3. localIP = asked.ip /\ subnetMask = asked.mask
    BY <1>2, <2>1, <2>2 DEF localIP, subnetMask
  <2> QED
    BY <1>1, <1>2, <2>1, <2>3 DEF AsAsked, gatewayIP
<1>3. CASE stack = "zephyr"
  <2>1. /\ iface = TRUE /\ ethLocalIP = asked.ip
        /\ \A a \in ifAddrs : a.ip = asked.ip => a.mask = asked.mask
        /\ (\A a \in ifAddrs : a.ip # asked.ip) => Cardinality(ifAddrs) = MaxAddrs
    BY <1>1, <1>3 DEF AsAsked
  <2>2. localIP = asked.ip
    BY <1>3, <2>1 DEF localIP
  <2>3. CASE \E a \in ifAddrs : a.ip = asked.ip
    <3> DEFINE a == CHOOSE a \in ifAddrs : a.ip = asked.ip
    <3>1. a \in ifAddrs /\ a.ip = asked.ip
      BY <2>3
    <3>2. subnetMask = a.mask
      BY <1>3, <2>2, <2>3 DEF subnetMask
    <3>3. subnetMask = asked.mask
      BY <2>1, <3>1, <3>2
    <3> QED
      BY <1>1, <1>3, <2>1, <2>2, <3>3 DEF AsAsked, gatewayIP
  <2>4. CASE \A a \in ifAddrs : a.ip # asked.ip
    BY <1>1, <1>3, <2>1, <2>2, <2>4 DEF AsAsked, gatewayIP
  <2> QED
    BY <2>3, <2>4
<1> QED
  BY <1>2, <1>3

(* After a begin() that went through, whatever came before, every getter    *)
(* says what the sketch asked for.                                         *)
THEOREM GettersAgree == SetupSpec => []SetupAgrees
BY SetupInitInv, SetupKeeps, SetupSays, PTL DEF SetupSpec

-----------------------------------------------------------------------------
(* The tables of connections and user data.                                *)

States == {"CLOSED", "SYN_RCVD", "SYN_SENT", "ESTABLISHED", "LAST_ACK", "FIN_WAIT", "TIME_WAIT"}
Ephemeral == InitPort .. EndPort - 1
Times == 0 .. TimeWait
Conn == [st : States, lport : Nat, remote : Remotes \cup {None}, timer : Times, appstate : Slots \cup {None}]
Data == [state : {"free", "connected", "close", "remote closed"}, packets_in : BOOLEAN, lport : Nat]

ConnTyped ==
  /\ uip_conns \in [Slots -> Conn] /\ all_data \in [Slots -> Data]
  /\ lastport \in Ephemeral /\ client \in Slots \cup {None} /\ connecting \in Slots \cup {None}

\* Only a connection that has data to carry has user data.
Bare == {"CLOSED", "SYN_SENT", "SYN_RCVD", "TIME_WAIT", "FIN_WAIT"}
BareHaveNone == \A i \in Slots : uip_conns[i].st \in Bare => uip_conns[i].appstate = None

\* What connect() finds when it looks at its connection
Awaited == connecting # None => uip_conns[connecting].st \in {"SYN_SENT", "ESTABLISHED", "CLOSED"}

ConnInv == ConnTyped /\ OneMatches /\ DataServeOne /\ BareHaveNone /\ Awaited

-----------------------------------------------------------------------------
(* The local port of a new connection.                                     *)

\* The n-th port that uip_connect() tries
Tried(port, n) == IF port + n < EndPort THEN port + n ELSE FirstPort + (port + n - EndPort)

LEMMA PortNumbers ==
  /\ NConns \in Nat \ {0} /\ InitPort \in Nat \ {0} /\ FirstPort \in Nat \ {0} /\ EndPort \in Nat \ {0}
  /\ InitPort < FirstPort /\ EndPort - FirstPort > NConns
BY ConnsAssumption

LEMMA IndexNumbers == (\A i \in Slots : i \in Nat) /\ \A p \in ServerPorts \cup (InitPort .. EndPort - 1) : p \in Nat
<1>1. \A i \in Slots : i \in Nat
  BY PortNumbers DEF Slots
<1>2. \A p \in InitPort .. EndPort - 1 : p \in Nat
  BY PortNumbers
<1>3. \A p \in ServerPorts : p \in Nat
  BY ConnsAssumption
<1> QED BY <1>1, <1>2, <1>3

LEMMA NextTried ==
  ASSUME NEW port \in Ephemeral
  PROVE  /\ NextPort(port) = Tried(port, 1)
         /\ \A n \in 2 .. NConns + 1 : NextPort(Tried(port, n - 1)) = Tried(port, n)
<1>1. port \in Int /\ port < EndPort /\ port >= InitPort
  BY PortNumbers DEF Ephemeral
<1>2. NextPort(port) = Tried(port, 1)
  BY <1>1, PortNumbers DEF NextPort, Tried
<1>3. ASSUME NEW n \in 2 .. NConns + 1 PROVE NextPort(Tried(port, n - 1)) = Tried(port, n)
  <2> DEFINE t == Tried(port, n - 1)
  <2>1. t = IF port + n - 1 < EndPort THEN port + n - 1 ELSE FirstPort + (port + n - 1 - EndPort)
    BY <1>1, PortNumbers DEF Tried
  <2>2. t \in Int
    BY <1>1, <2>1, PortNumbers
  <2> HIDE DEF t
  <2>3. NextPort(t) = IF t + 1 < EndPort THEN t + 1 ELSE FirstPort
    BY <2>2, PortNumbers DEF NextPort
  <2> QED BY <1>1, <2>1, <2>2, <2>3, PortNumbers DEF Tried
<1> QED BY <1>2, <1>3

\* Of NConns + 1 ports tried no two are the same, as there are more between 4096 and 31999.
LEMMA TriedDiffer ==
  ASSUME NEW port \in Ephemeral
  PROVE  /\ \A n \in 1 .. NConns + 1 : Tried(port, n) \in Ephemeral
         /\ \A m, n \in 1 .. NConns + 1 : Tried(port, m) = Tried(port, n) => m = n
BY ConnsAssumption DEF Tried, Ephemeral

LEMMA TriedInTurn ==
  ASSUME NEW port \in Ephemeral, NEW f,
         f = [n \in 1 .. NConns + 1 |-> IF n = 1 THEN NextPort(port) ELSE NextPort(f[n - 1])]
  PROVE  \A n \in 1 .. NConns + 1 : f[n] = Tried(port, n)
<1> DEFINE bad == {n \in 1 .. NConns + 1 : f[n] # Tried(port, n)}
<1>1. NConns \in Nat
  BY ConnsAssumption
<1>2. NextPort(port) = Tried(port, 1)
  BY NextTried
<1>3. \A n \in 2 .. NConns + 1 : NextPort(Tried(port, n - 1)) = Tried(port, n)
  BY NextTried
<1>4. \A n \in 1 .. NConns + 1 : f[n] = IF n = 1 THEN NextPort(port) ELSE NextPort(f[n - 1])
  BY Zenon
<1>5. ASSUME bad # {} PROVE FALSE
  <2> DEFINE m == Min(bad)
  <2>1. bad \subseteq Nat
    BY <1>1
  <2>2. m \in bad /\ \A n \in bad : m <= n
    BY <1>5, <2>1, Least, Zenon
  <2> HIDE DEF m
  <2>3. m \in 1 .. NConns + 1 /\ f[m] # Tried(port, m)
    BY <2>2
  <2>4. m # 1
    BY <1>2, <1>4, <2>3
  <2>5. m - 1 \in 1 .. NConns + 1 /\ m \in 2 .. NConns + 1
    BY <1>1, <2>3, <2>4
  <2>6. m - 1 \notin bad
    BY <2>2, <2>3
  <2>7. f[m - 1] = Tried(port, m - 1)
    BY <2>5, <2>6
  <2>8. f[m] = NextPort(f[m - 1])
    BY <1>4, <2>3, <2>4
  <2> QED BY <1>3, <2>3, <2>5, <2>7, <2>8
<1> QED BY <1>5

\* uip_connect() takes a port no connection of the table uses.
LEMMA PortIsFree ==
  ASSUME ConnTyped, NEW port \in Ephemeral
  PROVE  /\ LocalPort(port) \in Ephemeral
         /\ \A i \in Slots : uip_conns[i].st # "CLOSED" => uip_conns[i].lport # LocalPort(port)
<1> DEFINE Turns == 1 .. NConns + 1
           InUse(p) == \E i \in Slots : uip_conns[i].st # "CLOSED" /\ uip_conns[i].lport = p
           after == CHOOSE f : f = [n \in 1 .. NConns + 1 |-> IF n = 1 THEN NextPort(port) ELSE NextPort(f[n - 1])]
           free == {n \in Turns : ~InUse(after[n])}
           closed == [n \in Turns |-> Tried(port, n)]
<1>1. NConns \in Nat \ {0}
  BY ConnsAssumption
<1>2. closed = [n \in 1 .. NConns + 1 |-> IF n = 1 THEN NextPort(port) ELSE NextPort(closed[n - 1])]
  <2>1. \A n \in Turns : Tried(port, n) = IF n = 1 THEN NextPort(port) ELSE NextPort(closed[n - 1])
    <3> SUFFICES ASSUME NEW n \in Turns
                 PROVE  Tried(port, n) = IF n = 1 THEN NextPort(port) ELSE NextPort(closed[n - 1])
      OBVIOUS
    <3>1. CASE n = 1
      BY <3>1, NextTried
    <3>2. CASE n # 1
      <4>1. n - 1 \in Turns
        BY <3>2, <1>1
      <4>2. closed[n - 1] = Tried(port, n - 1)
        BY <4>1
      <4>3. NextPort(Tried(port, n - 1)) = Tried(port, n)
        BY <3>2, <1>1, NextTried
      <4> QED BY <3>2, <4>2, <4>3
    <3> QED BY <3>1, <3>2
  <2> DEFINE next(n) == IF n = 1 THEN NextPort(port) ELSE NextPort(closed[n - 1])
  <2>2. \A n \in Turns : Tried(port, n) = next(n)
    BY <2>1
  <2>3. [n \in Turns |-> Tried(port, n)] = [n \in Turns |-> next(n)]
    <3> HIDE DEF next
    <3> QED BY <2>2, Zenon
  <2> QED BY <2>3, Zenon
<1>3. after = [n \in 1 .. NConns + 1 |-> IF n = 1 THEN NextPort(port) ELSE NextPort(after[n - 1])]
  <2> HIDE DEF closed
  <2> QED BY <1>2, Zenon
<1>4. \A n \in Turns : after[n] = Tried(port, n)
  <2> HIDE DEF after
  <2> QED BY <1>3, TriedInTurn, Zenon
<1>5. LocalPort(port) = after[Min(free)]
  BY DEF LocalPort
<1> HIDE DEF after
<1>6. free # {}
  <2> SUFFICES ASSUME free = {} PROVE FALSE
    OBVIOUS
  <2>1. \A n \in Turns : InUse(Tried(port, n))
    BY <1>4
  <2> DEFINE user == [n \in Turns |-> CHOOSE i \in Slots : /\ uip_conns[i].st # "CLOSED"
                                                           /\ uip_conns[i].lport = Tried(port, n)]
  <2>2. \A n \in Turns : user[n] \in Slots /\ uip_conns[user[n]].lport = Tried(port, n)
    BY <2>1
  <2>3. user \in [Turns -> Slots]
    BY <2>2
  <2>4. /\ IsFiniteSet(Turns) /\ IsFiniteSet(Slots)
        /\ Cardinality(Turns) = NConns + 1 /\ Cardinality(Slots) = NConns
    BY <1>1, FS_Interval DEF Slots
  <2>5. Cardinality(Slots) < Cardinality(Turns)
    BY <1>1, <2>4
  <2> HIDE DEF user, Turns
  <2>6. PICK m, n \in Turns : m # n /\ user[m] = user[n]
    BY <2>3, <2>4, <2>5, FS_PigeonHole
  <2>7. Tried(port, m) = Tried(port, n)
    BY <2>2, <2>6
  <2> QED BY <2>6, <2>7, TriedDiffer DEF Turns
<1>7. Min(free) \in free
  BY <1>1, <1>6, Least
<1>8. LocalPort(port) \in Ephemeral
  BY <1>4, <1>5, <1>7, TriedDiffer
<1> QED BY <1>5, <1>7, <1>8, Zenon

-----------------------------------------------------------------------------
(* What a step does to one connection, and to the data it has.             *)

\* The tables after a step that did something to connection i
TablesAfter(i) ==
  /\ uip_conns' \in [Slots -> Conn] /\ all_data' \in [Slots -> Data]
  /\ OneMatches' /\ DataServeOne' /\ BareHaveNone'
  /\ \A j \in Slots \ {i} : uip_conns'[j] = uip_conns[j]

Carries(k) == all_data[k].state \in {"connected", "close"}

LEMMA BecomesIs ==
  ASSUME ConnTyped, NEW i \in Slots, NEW st \in States, NEW app \in Slots \cup {None}
  PROVE  /\ Becomes(i, st, app) \in [Slots -> Conn]
         /\ \A j \in Slots \ {i} : Becomes(i, st, app)[j] = uip_conns[j]
         /\ Becomes(i, st, app)[i].st = st /\ Becomes(i, st, app)[i].appstate = app
         /\ Becomes(i, st, app)[i].lport = uip_conns[i].lport
         /\ Becomes(i, st, app)[i].remote = uip_conns[i].remote
<1> DEFINE zero == 0
<1>1. zero \in Times /\ uip_conns \in [Slots -> Conn]
  BY ConnsAssumption DEF ConnTyped, Times
<1>2. Becomes(i, st, app) = [uip_conns EXCEPT ![i].st = st, ![i].appstate = app, ![i].timer = zero]
  BY DEF Becomes
<1> DEFINE e == [uip_conns[i] EXCEPT !.st = st, !.appstate = app, !.timer = zero]
<1>3. Becomes(i, st, app) = [uip_conns EXCEPT ![i] = e]
  BY <1>2, Zenon
<1> HIDE DEF zero
<1>4. /\ e \in Conn /\ e.st = st /\ e.appstate = app
      /\ e.lport = uip_conns[i].lport /\ e.remote = uip_conns[i].remote
  BY <1>1, Zenon DEF Conn
<1> HIDE DEF e
<1> QED BY <1>1, <1>3, <1>4

LEMMA OneKept ==
  ASSUME OneMatches,
         \A j \in Slots : uip_conns'[j].st # "CLOSED" =>
           /\ uip_conns[j].st # "CLOSED"
           /\ uip_conns'[j].lport = uip_conns[j].lport /\ uip_conns'[j].remote = uip_conns[j].remote
  PROVE  OneMatches'
BY DEF OneMatches

LEMMA ServedKept ==
  ASSUME DataServeOne, BareHaveNone',
         \A j \in Slots : uip_conns'[j].appstate = uip_conns[j].appstate,
         \A k \in Slots : Carries(k)' <=> Carries(k)
  PROVE  DataServeOne'
BY DEF DataServeOne, BareHaveNone, Bare, Serves, Carries

\* Connection i gives its data up.
LEMMA ServedLess ==
  ASSUME ConnTyped, DataServeOne, BareHaveNone', NEW i \in Slots,
         uip_conns'[i].appstate = None,
         \A j \in Slots \ {i} : uip_conns'[j].appstate = uip_conns[j].appstate,
         \A k \in Slots : Carries(k)' <=> (Carries(k) /\ k # uip_conns[i].appstate)
  PROVE  DataServeOne'
<1>1. None \notin Slots
  BY DEF None, Slots
<1>2. \A j \in Slots, k \in Slots : Serves(j, k)' <=> (j # i /\ Serves(j, k))
  BY <1>1 DEF Serves
<1>3. ASSUME NEW k \in Slots
      PROVE  IF Carries(k)' THEN \E j \in Slots : Serves(j, k)' /\ \A l \in Slots : Serves(l, k)' => l = j
             ELSE \A j \in Slots : ~Serves(j, k)'
  <2>1. IF Carries(k) THEN \E j \in Slots : Serves(j, k) /\ \A l \in Slots : Serves(l, k) => l = j
        ELSE \A j \in Slots : ~Serves(j, k)
    BY DEF DataServeOne, Carries
  <2>2. Carries(k)' <=> (Carries(k) /\ ~Serves(i, k))
    BY DEF Serves
  <2> QED BY <1>2, <2>1, <2>2
<1> QED BY <1>3 DEF DataServeOne, BareHaveNone, Bare, Serves, Carries

\* Connection i takes free data.
LEMMA ServedMore ==
  ASSUME ConnTyped, DataServeOne, BareHaveNone', NEW i \in Slots, NEW d \in Slots,
         uip_conns[i].appstate = None, ~Carries(d), uip_conns'[i].appstate = d,
         \A j \in Slots \ {i} : uip_conns'[j].appstate = uip_conns[j].appstate,
         \A k \in Slots : Carries(k)' <=> (Carries(k) \/ k = d)
  PROVE  DataServeOne'
<1>1. None \notin Slots
  BY DEF None, Slots
<1>2. \A j \in Slots, k \in Slots : Serves(j, k)' <=> ((j # i /\ Serves(j, k)) \/ (j = i /\ k = d))
  BY <1>1 DEF Serves
<1>3. ASSUME NEW k \in Slots
      PROVE  IF Carries(k)' THEN \E j \in Slots : Serves(j, k)' /\ \A l \in Slots : Serves(l, k)' => l = j
             ELSE \A j \in Slots : ~Serves(j, k)'
  <2>1. IF Carries(k) THEN \E j \in Slots : Serves(j, k) /\ \A l \in Slots : Serves(l, k) => l = j
        ELSE \A j \in Slots : ~Serves(j, k)
    BY DEF DataServeOne, Carries
  <2>2. ~Serves(i, k)
    BY <1>1 DEF Serves
  <2> QED BY <1>2, <2>1, <2>2
<1> QED BY <1>3 DEF DataServeOne, BareHaveNone, Bare, Serves, Carries

-----------------------------------------------------------------------------
(* The events of serialip_appcall().                                       *)

LEMMA EndedKeeps ==
  ASSUME ConnInv, NEW i \in Slots, uip_conns[i].st # "CLOSED",
         NEW st \in {"CLOSED", "LAST_ACK", "TIME_WAIT"}, Ended(i, st)
  PROVE  TablesAfter(i) /\ uip_conns'[i].st = st
<1> DEFINE k == uip_conns[i].appstate
<1>1. /\ uip_conns' \in [Slots -> Conn] /\ \A j \in Slots \ {i} : uip_conns'[j] = uip_conns[j]
      /\ uip_conns'[i].st = st /\ uip_conns'[i].appstate = None
      /\ uip_conns'[i].lport = uip_conns[i].lport /\ uip_conns'[i].remote = uip_conns[i].remote
  <2>1. uip_conns' = Becomes(i, st, None) /\ st \in States /\ ConnTyped
    BY Zenon DEF Ended, ConnInv, States
  <2> QED BY <2>1, BecomesIs
<1>2. OneMatches'
  BY <1>1, OneKept DEF ConnInv
<1>3. BareHaveNone'
  BY <1>1 DEF ConnInv, BareHaveNone
<1>4. /\ all_data' \in [Slots -> Data]
      /\ \A d \in Slots : all_data'[d].state = IF d # k THEN all_data[d].state
                                               ELSE IF all_data[d].packets_in THEN "remote closed" ELSE "free"
  <2>1. k \in Slots \cup {None} /\ uip_conns[i].lport \in Nat /\ all_data \in [Slots -> Data]
    BY DEF ConnInv, ConnTyped, Conn
  <2>2. CASE k = None
    <3>1. all_data' = all_data /\ \A d \in Slots : d # k
      BY <2>2 DEF Ended, None, Slots
    <3> QED BY <2>1, <3>1, Zenon
  <2>3. CASE k # None /\ all_data[k].packets_in
    <3>1. all_data' = [all_data EXCEPT ![k].state = "remote closed", ![k].lport = uip_conns[i].lport]
      BY <2>3, Zenon DEF Ended
    <3> QED BY <2>1, <2>3, <3>1, ZenonT(40) DEF Data
  <2>4. CASE k # None /\ ~all_data[k].packets_in
    <3>1. all_data' = [all_data EXCEPT ![k] = NoData]
      BY <2>4 DEF Ended
    <3>2. NoData \in Data /\ NoData.state = "free"
      BY DEF NoData, Data
    <3> QED BY <2>1, <2>4, <3>1, <3>2, Zenon
  <2> QED BY <2>2, <2>3, <2>4, Zenon
<1>5. \A d \in Slots : Carries(d)' <=> (Carries(d) /\ d # k)
  BY <1>4, Zenon DEF Carries
<1>6. DataServeOne'
  BY <1>1, <1>3, <1>5, ServedLess DEF ConnInv
<1> QED BY <1>1, <1>2, <1>3, <1>4, <1>6, Zenon DEF TablesAfter

LEMMA ConnectedKeeps ==
  ASSUME ConnInv, NEW i \in Slots, uip_conns[i].st \in {"SYN_SENT", "SYN_RCVD"}, NEW data \in BOOLEAN,
         Connected(i, data)
  PROVE  TablesAfter(i) /\ uip_conns'[i].st = "ESTABLISHED"
<1> DEFINE free == {d \in Slots : all_data[d].state = "free"}
           k == Min(free)
<1>1. uip_conns[i].appstate = None
  BY DEF ConnInv, BareHaveNone, Bare
<1>2. CASE free = {}
  <2>1. uip_conns' = Becomes(i, "ESTABLISHED", None) /\ all_data' = all_data
    BY <1>2 DEF Connected
  <2>2. /\ uip_conns' \in [Slots -> Conn] /\ \A j \in Slots \ {i} : uip_conns'[j] = uip_conns[j]
        /\ uip_conns'[i].st = "ESTABLISHED" /\ uip_conns'[i].appstate = None
        /\ uip_conns'[i].lport = uip_conns[i].lport /\ uip_conns'[i].remote = uip_conns[i].remote
    BY <2>1, BecomesIs DEF ConnInv, States
  <2>3. OneMatches'
    BY <2>2, OneKept DEF ConnInv
  <2>4. BareHaveNone'
    BY <2>2 DEF ConnInv, BareHaveNone
  <2>5. DataServeOne'
    BY <1>1, <2>1, <2>2, <2>4, ServedKept DEF ConnInv, Carries
  <2> QED BY <2>1, <2>2, <2>3, <2>4, <2>5 DEF TablesAfter, ConnInv, ConnTyped
<1>3. CASE free # {}
  <2>1. k \in free
    <3>1. free \subseteq Nat
      BY DEF Slots
    <3> QED BY <1>3, <3>1, Least
  <2>2. /\ uip_conns' = Becomes(i, "ESTABLISHED", k)
        /\ all_data' = [all_data EXCEPT ![k] = [state |-> "connected", packets_in |-> data, lport |-> 0]]
    BY <1>3 DEF Connected
  <2> HIDE DEF k
  <2>3. /\ uip_conns' \in [Slots -> Conn] /\ \A j \in Slots \ {i} : uip_conns'[j] = uip_conns[j]
        /\ uip_conns'[i].st = "ESTABLISHED" /\ uip_conns'[i].appstate = k
        /\ uip_conns'[i].lport = uip_conns[i].lport /\ uip_conns'[i].remote = uip_conns[i].remote
    BY <2>1, <2>2, BecomesIs DEF ConnInv, States
  <2>4. OneMatches'
    BY <2>3, OneKept DEF ConnInv
  <2>5. BareHaveNone'
    BY <2>3 DEF ConnInv, BareHaveNone, Bare
  <2>6. /\ all_data' \in [Slots -> Data]
        /\ \A d \in Slots : all_data'[d].state = IF d # k THEN all_data[d].state ELSE "connected"
    <3>1. all_data \in [Slots -> Data]
      BY DEF ConnInv, ConnTyped
    <3> QED BY <2>1, <2>2, <3>1, Zenon DEF Data
  <2>7. ~Carries(k) /\ \A d \in Slots : Carries(d)' <=> (Carries(d) \/ d = k)
    BY <2>1, <2>6 DEF Carries
  <2>8. DataServeOne'
    BY <1>1, <2>1, <2>3, <2>5, <2>7, ServedMore DEF ConnInv
  <2> QED BY <2>3, <2>4, <2>5, <2>6, <2>8 DEF TablesAfter
<1> QED BY <1>2, <1>3

LEMMA NewDataKeeps ==
  ASSUME ConnInv, NEW i \in Slots, uip_conns[i].st = "ESTABLISHED",
         NEW st \in {"ESTABLISHED", "LAST_ACK"}, NewData(i, st)
  PROVE  TablesAfter(i) /\ uip_conns'[i].st = st
<1> DEFINE k == uip_conns[i].appstate
<1>1. k \in Slots \cup {None} /\ all_data \in [Slots -> Data]
  BY DEF ConnInv, ConnTyped, Conn
<1>2. /\ uip_conns' \in [Slots -> Conn] /\ \A j \in Slots \ {i} : uip_conns'[j] = uip_conns[j]
      /\ uip_conns'[i].st = st /\ uip_conns'[i].appstate = k
      /\ uip_conns'[i].lport = uip_conns[i].lport /\ uip_conns'[i].remote = uip_conns[i].remote
  <2>1. uip_conns' = Becomes(i, st, k) /\ st \in States /\ ConnTyped
    BY DEF NewData, ConnInv, States
  <2> QED BY <1>1, <2>1, BecomesIs
<1>3. OneMatches'
  BY <1>2, OneKept DEF ConnInv
<1>4. BareHaveNone'
  BY <1>2 DEF ConnInv, BareHaveNone, Bare
<1>5. all_data' \in [Slots -> Data] /\ \A d \in Slots : all_data'[d].state = all_data[d].state
  <2>1. \/ all_data' = all_data
        \/ k # None /\ all_data' = [all_data EXCEPT ![k].packets_in = TRUE]
    BY DEF NewData
  <2> DEFINE yes == TRUE
  <2>2. yes \in BOOLEAN
    OBVIOUS
  <2>3. \/ all_data' = all_data
        \/ k # None /\ all_data' = [all_data EXCEPT ![k].packets_in = yes]
    BY <2>1
  <2> HIDE DEF yes
  <2>4. CASE all_data' = all_data
    BY <1>1, <2>4
  <2>5. CASE k # None /\ all_data' = [all_data EXCEPT ![k].packets_in = yes]
    <3>1. k \in Slots
      BY <1>1, <2>5
    <3>2. all_data'[k] = [all_data[k] EXCEPT !.packets_in = yes]
      BY <1>1, <2>5, <3>1
    <3>3. all_data[k] \in Data
      BY <1>1, <3>1
    <3>4. all_data'[k] \in Data /\ all_data'[k].state = all_data[k].state
      BY <2>2, <3>2, <3>3, Zenon DEF Data
    <3>5. \A d \in Slots : d # k => all_data'[d] = all_data[d]
      BY <1>1, <2>5, <3>1
    <3>6. all_data' = [d \in Slots |-> all_data'[d]]
      BY <1>1, <2>5, <3>1, Zenon
    <3> QED BY <1>1, <3>4, <3>5, <3>6
  <2> QED BY <2>3, <2>4, <2>5
<1>6. DataServeOne'
  BY <1>2, <1>4, <1>5, ServedKept DEF ConnInv, Carries
<1> QED BY <1>2, <1>3, <1>4, <1>5, <1>6 DEF TablesAfter

LEMMA PolledKeeps ==
  ASSUME ConnInv, NEW i \in Slots, uip_conns[i].st # "CLOSED", Polled(i)
  PROVE  TablesAfter(i) /\ uip_conns'[i].st = "FIN_WAIT"
<1> DEFINE k == uip_conns[i].appstate
<1>1. k \in Slots /\ all_data \in [Slots -> Data]
  BY DEF ConnInv, ConnTyped, Conn, Polled
<1>2. /\ uip_conns' \in [Slots -> Conn] /\ \A j \in Slots \ {i} : uip_conns'[j] = uip_conns[j]
      /\ uip_conns'[i].st = "FIN_WAIT" /\ uip_conns'[i].appstate = None
      /\ uip_conns'[i].lport = uip_conns[i].lport /\ uip_conns'[i].remote = uip_conns[i].remote
  BY BecomesIs DEF Polled, ConnInv, States
<1>3. OneMatches'
  BY <1>2, OneKept DEF ConnInv
<1>4. BareHaveNone'
  BY <1>2 DEF ConnInv, BareHaveNone
<1>5. /\ all_data' \in [Slots -> Data]
      /\ \A d \in Slots : all_data'[d].state = IF d # k THEN all_data[d].state ELSE "free"
  <2>1. NoData \in Data /\ NoData.state = "free"
    BY DEF NoData, Data
  <2>2. all_data' = [all_data EXCEPT ![k] = NoData]
    BY DEF Polled
  <2> QED BY <1>1, <2>1, <2>2
<1>6. \A d \in Slots : Carries(d)' <=> (Carries(d) /\ d # k)
  BY <1>5 DEF Carries
<1>7. DataServeOne'
  BY <1>2, <1>4, <1>6, ServedLess DEF ConnInv
<1> QED BY <1>2, <1>3, <1>4, <1>5, <1>7 DEF TablesAfter

-----------------------------------------------------------------------------
(* The ways a connection comes into the table.                             *)

LEMMA UnusedIs ==
  ASSUME ConnTyped, Unused # None
  PROVE  Unused \in Slots /\ uip_conns[Unused].st \in {"CLOSED", "TIME_WAIT"}
<1> DEFINE closed  == {i \in Slots : uip_conns[i].st = "CLOSED"}
           waiting == {i \in Slots : uip_conns[i].st = "TIME_WAIT"}
           longest == {i \in waiting : \A j \in waiting : uip_conns[j].timer <= uip_conns[i].timer}
<1>1. closed \subseteq Nat /\ waiting \subseteq Nat /\ longest \subseteq Nat
  BY DEF Slots
<1>2. CASE closed # {}
  <2>1. Min(closed) \in closed
    BY <1>1, <1>2, Least
  <2> QED BY <1>2, <2>1, SMTT(30) DEF Unused
<1>3. CASE closed = {} /\ waiting # {}
  <2> DEFINE timers == {uip_conns[i].timer : i \in waiting}
  <2>1. \A i \in Slots : uip_conns[i].timer \in 0 .. TimeWait
    BY DEF ConnTyped, Conn, Times
  <2>2. timers \subseteq Int /\ timers # {} /\ \A t \in timers : t <= TimeWait
    BY <1>3, <2>1, ConnsAssumption
  <2>3. TimeWait \in Int
    BY ConnsAssumption
  <2>4. Max(timers) \in timers /\ \A t \in timers : t <= Max(timers)
    <3> HIDE DEF timers
    <3> QED BY <2>2, <2>3, Greatest, Zenon
  <2>5. PICK i \in waiting : Max(timers) = uip_conns[i].timer
    BY <2>4, Zenon
  <2>6. \A j \in waiting : uip_conns[j].timer <= uip_conns[i].timer
    BY <2>4, <2>5
  <2>7. longest # {}
    BY <2>5, <2>6
  <2>8. Min(longest) \in longest
    BY <1>1, <2>7, Least, Zenon
  <2> QED BY <1>3, <2>8 DEF Unused
<1>4. CASE closed = {} /\ waiting = {}
  BY <1>4 DEF Unused
<1> QED BY <1>2, <1>3, <1>4

LEMMA OpenedKeeps ==
  ASSUME ConnInv, NEW i \in Slots, uip_conns[i].st \in {"CLOSED", "TIME_WAIT"},
         NEW st \in {"SYN_SENT", "SYN_RCVD"}, NEW lport \in Nat, NEW remote \in Remotes,
         uip_conns' = Opened(i, st, lport, remote),
         all_data' \in [Slots -> Data], \A k \in Slots : Carries(k)' <=> Carries(k),
         \A j \in Slots : uip_conns[j].st # "CLOSED" => <<uip_conns[j].lport, uip_conns[j].remote>> # <<lport, remote>>
  PROVE  TablesAfter(i) /\ uip_conns'[i].st = st
<1>1. uip_conns \in [Slots -> Conn] /\ uip_conns[i].appstate = None
  BY DEF ConnInv, ConnTyped, BareHaveNone, Bare
<1>2. /\ uip_conns' \in [Slots -> Conn] /\ \A j \in Slots \ {i} : uip_conns'[j] = uip_conns[j]
      /\ uip_conns'[i].st = st /\ uip_conns'[i].appstate = None
      /\ uip_conns'[i].lport = lport /\ uip_conns'[i].remote = remote
  <2> DEFINE zero == 0
  <2>1. zero \in Times /\ st \in States /\ remote \in Remotes \cup {None}
    BY ConnsAssumption DEF States, Times
  <2>2. uip_conns' = [uip_conns EXCEPT ![i].st = st, ![i].lport = lport, ![i].remote = remote, ![i].timer = zero]
    BY DEF Opened
  <2> DEFINE e == [uip_conns[i] EXCEPT !.st = st, !.lport = lport, !.remote = remote, !.timer = zero]
  <2>3. uip_conns' = [uip_conns EXCEPT ![i] = e]
    BY <2>2, Zenon
  <2> HIDE DEF zero
  <2>4. /\ e \in Conn /\ e.st = st /\ e.appstate = uip_conns[i].appstate
        /\ e.lport = lport /\ e.remote = remote
    BY <1>1, <2>1, ZenonT(40) DEF Conn
  <2> HIDE DEF e
  <2> QED BY <1>1, <2>3, <2>4
<1>3. OneMatches'
  BY <1>2 DEF OneMatches, ConnInv
<1>4. BareHaveNone'
  BY <1>2 DEF ConnInv, BareHaveNone
<1>5. DataServeOne'
  BY <1>1, <1>2, <1>4, ServedKept DEF ConnInv
<1> QED BY <1>2, <1>3, <1>4, <1>5 DEF TablesAfter

-----------------------------------------------------------------------------
(* uip_periodic() and uip_input().                                         *)

\* A connection that connect() waits for goes to one of the states it looks for.
Expected(i) == uip_conns[i].st = "SYN_SENT" => uip_conns'[i].st \in {"SYN_SENT", "ESTABLISHED", "CLOSED"}

LEMMA PeriodicKeeps ==
  ASSUME ConnInv, NEW i \in Slots, Periodic(i)
  PROVE  TablesAfter(i) /\ Expected(i)
<1> DEFINE st == uip_conns[i].st
<1>1. CASE /\ st = "TIME_WAIT" /\ uip_conns[i].timer + 1 < TimeWait
           /\ uip_conns' = [uip_conns EXCEPT ![i].timer = @ + 1] /\ UNCHANGED all_data
  <2>1. uip_conns \in [Slots -> Conn]
    BY DEF ConnInv, ConnTyped
  <2>2. /\ uip_conns' \in [Slots -> Conn] /\ \A j \in Slots \ {i} : uip_conns'[j] = uip_conns[j]
        /\ uip_conns'[i].st = uip_conns[i].st /\ uip_conns'[i].appstate = uip_conns[i].appstate
        /\ uip_conns'[i].lport = uip_conns[i].lport /\ uip_conns'[i].remote = uip_conns[i].remote
    <3> DEFINE next == uip_conns[i].timer + 1
    <3>1. next \in Times
      BY <1>1, <2>1, ConnsAssumption DEF Conn, Times
    <3>2. uip_conns' = [uip_conns EXCEPT ![i].timer = next]
      BY <1>1, Zenon
    <3> HIDE DEF next
    <3> QED BY <2>1, <3>1, <3>2 DEF Conn
  <2>3. OneMatches'
    BY <2>2, OneKept DEF ConnInv
  <2>4. BareHaveNone'
    BY <2>2 DEF ConnInv, BareHaveNone
  <2>5. DataServeOne'
    BY <1>1, <2>2, <2>4, ServedKept DEF ConnInv, Carries
  <2> QED BY <1>1, <2>2, <2>3, <2>4, <2>5 DEF TablesAfter, Expected, ConnInv, ConnTyped
<1>2. CASE /\ st \in {"TIME_WAIT", "FIN_WAIT"}
           /\ uip_conns' = Becomes(i, "CLOSED", uip_conns[i].appstate) /\ UNCHANGED all_data
  <2>1. uip_conns[i].appstate = None
    BY <1>2 DEF ConnInv, BareHaveNone, Bare
  <2>2. /\ uip_conns' \in [Slots -> Conn] /\ \A j \in Slots \ {i} : uip_conns'[j] = uip_conns[j]
        /\ uip_conns'[i].st = "CLOSED" /\ uip_conns'[i].appstate = None
    <3>1. ConnTyped /\ "CLOSED" \in States
      BY DEF ConnInv, States
    <3> QED BY <1>2, <2>1, <3>1, BecomesIs
  <2>3. OneMatches'
    BY <2>2, OneKept DEF ConnInv
  <2>4. BareHaveNone'
    BY <2>2 DEF ConnInv, BareHaveNone
  <2>5. DataServeOne'
    BY <1>2, <2>1, <2>2, <2>4, ServedKept DEF ConnInv, Carries
  <2> QED BY <1>2, <2>2, <2>3, <2>4, <2>5 DEF TablesAfter, Expected, ConnInv, ConnTyped
<1>3. CASE st # "CLOSED" /\ Ended(i, "CLOSED")
  BY <1>3, EndedKeeps DEF Expected
<1>4. CASE st = "ESTABLISHED" /\ Polled(i)
  BY <1>4, PolledKeeps DEF Expected
<1> QED BY <1>1, <1>2, <1>3, <1>4 DEF Periodic

LEMMA ReachedKeeps ==
  ASSUME ConnInv, NEW i \in Slots, uip_conns[i].st # "CLOSED", NEW kind, Reached(i, kind)
  PROVE  TablesAfter(i) /\ Expected(i)
<1> DEFINE st == uip_conns[i].st
<1>1. CASE Ended(i, "CLOSED")
  BY <1>1, EndedKeeps DEF Expected
<1>2. CASE st \in {"SYN_RCVD", "SYN_SENT"} /\ \E data \in BOOLEAN : Connected(i, data)
  BY <1>2, ConnectedKeeps DEF Expected
<1>3. CASE st = "ESTABLISHED" /\ (NewData(i, "ESTABLISHED") \/ NewData(i, "LAST_ACK"))
  BY <1>3, NewDataKeeps DEF Expected
<1>4. CASE st = "ESTABLISHED" /\ Ended(i, "LAST_ACK")
  BY <1>4, EndedKeeps DEF Expected
<1>5. CASE st = "FIN_WAIT" /\ Ended(i, "TIME_WAIT")
  BY <1>5, EndedKeeps DEF Expected
<1> QED
  <2>1. (kind = "DATA") \in BOOLEAN /\ FALSE \in BOOLEAN
    OBVIOUS
  <2> QED BY <2>1, <1>1, <1>2, <1>3, <1>4, <1>5, Zenon DEF Reached

\* A SYN that no connection is for
LEMMA FoundListenKeeps ==
  ASSUME ConnInv, NEW from \in Remotes, NEW to \in Nat,
         \A i \in Slots : ~IsFor(i, from, to), FoundListen(from, to)
  PROVE  TablesAfter(Unused) /\ Unused \in Slots /\ uip_conns[Unused].st # "SYN_SENT"
<1>1. Unused \in Slots /\ uip_conns[Unused].st \in {"CLOSED", "TIME_WAIT"}
  BY UnusedIs DEF FoundListen, ConnInv
<1>2. /\ uip_conns' = Opened(Unused, "SYN_RCVD", to, from)
      /\ all_data' \in [Slots -> Data] /\ \A k \in Slots : Carries(k)' <=> Carries(k)
  BY DEF FoundListen, ConnInv, ConnTyped, Carries
<1>3. \A j \in Slots : uip_conns[j].st # "CLOSED" => <<uip_conns[j].lport, uip_conns[j].remote>> # <<to, from>>
  BY DEF IsFor
<1>4. TablesAfter(Unused)
  <2> DEFINE i == Unused
  <2>1. i \in Slots /\ uip_conns[i].st \in {"CLOSED", "TIME_WAIT"} /\ uip_conns' = Opened(i, "SYN_RCVD", to, from)
    BY <1>1, <1>2
  <2> HIDE DEF i
  <2>2. TablesAfter(i)
    BY <1>2, <1>3, <2>1, OpenedKeeps
  <2> QED BY <2>2 DEF i
<1> QED BY <1>1, <1>4

LEMMA TickKeeps == ASSUME ConnInv, Tick PROVE ConnInv'
<1>1. ASSUME NEW i \in Slots, TablesAfter(i), Expected(i) \/ uip_conns[i].st # "SYN_SENT",
             UNCHANGED <<uip_listenports, lastport, client, connecting>>
      PROVE  ConnInv'
  <2>1. ConnTyped'
    BY <1>1 DEF TablesAfter, ConnInv, ConnTyped
  <2>2. Awaited'
    BY <1>1, Zenon DEF TablesAfter, Expected, Tick, Unresolved, Awaited, ConnInv, ConnTyped, None
  <2> QED BY <1>1, <2>1, <2>2 DEF TablesAfter, ConnInv
<1>2. CASE \E i \in Slots : Periodic(i)
  <2>1. PICK i \in Slots : Periodic(i)
    BY <1>2
  <2> QED BY <1>1, <2>1, PeriodicKeeps DEF Periodic
<1>3. CASE \E from \in Remotes, to \in ServerPorts \cup (InitPort .. EndPort - 1),
              kind \in {"SYN", "SYN ACK", "ACK", "DATA", "FIN", "DATA FIN", "RST"} : Segment(from, to, kind)
  <2>1. PICK from \in Remotes, to \in ServerPorts \cup (InitPort .. EndPort - 1),
             kind \in {"SYN", "SYN ACK", "ACK", "DATA", "FIN", "DATA FIN", "RST"} : Segment(from, to, kind)
    BY <1>3, Zenon
  <2> DEFINE those == {i \in Slots : IsFor(i, from, to)}
  <2>2. CASE those # {}
    <3>1. Min(those) \in those
      <4>1. those \subseteq Nat
        BY IndexNumbers, Zenon
      <4> QED BY <2>2, <4>1, Least, Zenon
    <3>2. Reached(Min(those), kind) /\ UNCHANGED <<uip_listenports, lastport, client, connecting>>
      BY <2>1, <2>2, Zenon DEF Segment
    <3> DEFINE i == Min(those)
    <3>3. i \in Slots /\ uip_conns[i].st # "CLOSED" /\ Reached(i, kind)
      BY <3>1, <3>2, Zenon DEF IsFor
    <3> HIDE DEF i
    <3>4. TablesAfter(i) /\ Expected(i)
      BY <3>3, ReachedKeeps, Zenon
    <3> QED BY <1>1, <3>2, <3>3, <3>4, Zenon
  <2>3. CASE those = {}
    <3>1. FoundListen(from, to) /\ UNCHANGED <<uip_listenports, lastport, client, connecting>>
      BY <2>1, <2>3, Zenon DEF Segment
    <3>2. to \in Nat
      BY IndexNumbers, Zenon
    <3>3. \A i \in Slots : ~IsFor(i, from, to)
      BY <2>3, Zenon
    <3>4. TablesAfter(Unused) /\ Unused \in Slots /\ uip_conns[Unused].st # "SYN_SENT"
      BY <3>1, <3>2, <3>3, FoundListenKeeps, Zenon
    <3> DEFINE i == Unused
    <3>5. TablesAfter(i) /\ i \in Slots /\ uip_conns[i].st # "SYN_SENT"
      BY <3>4, Zenon
    <3> HIDE DEF i
    <3> QED BY <1>1, <3>1, <3>5, Zenon
  <2> QED BY <2>2, <2>3, Zenon
<1> QED BY <1>2, <1>3, Zenon DEF Tick

-----------------------------------------------------------------------------
(* The sketch's calls.                                                     *)

LEMMA StoppedIs ==
  ASSUME ConnTyped
  PROVE  Stopped \in [Slots -> Data] /\ \A k \in Slots : Stopped[k].state \in {"connected", "close"} <=> Carries(k)
<1>1. all_data \in [Slots -> Data]
  BY DEF ConnTyped
<1>2. CASE client = None \/ all_data[client].state = "free"
  BY <1>1, <1>2, Zenon DEF Stopped, Carries
<1>3. CASE client # None /\ all_data[client].state = "remote closed"
  <2>1. NoData \in Data /\ NoData.state = "free"
    BY DEF NoData, Data
  <2>2. client \in Slots /\ Stopped = [all_data EXCEPT ![client] = NoData]
    BY <1>3, Zenon DEF Stopped, ConnTyped
  <2> QED BY <1>1, <1>3, <2>1, <2>2, Zenon DEF Carries
<1>4. CASE client # None /\ all_data[client].state \notin {"free", "remote closed"}
  <2> DEFINE no == FALSE
             d == [all_data[client] EXCEPT !.packets_in = no, !.state = "close"]
  <2>1. client \in Slots
    BY <1>4, Zenon DEF ConnTyped
  <2>2. no \in BOOLEAN /\ all_data[client] \in Data
    BY <1>1, <2>1
  <2>3. Stopped = [all_data EXCEPT ![client] = d]
    BY <1>4, Zenon DEF Stopped
  <2> HIDE DEF no
  <2>4. d \in Data /\ d.state = "close"
    BY <2>2, Zenon DEF Data
  <2>5. Carries(client)
    BY <1>4, <2>2, Zenon DEF Carries, Data
  <2> HIDE DEF d
  <2> QED BY <1>1, <2>1, <2>3, <2>4, <2>5 DEF Carries
<1> QED BY <1>2, <1>3, <1>4, Zenon

\* Calls that leave the connections alone, and which data carry something
LEMMA QuietKeeps ==
  ASSUME ConnInv, connecting = None, connecting' = connecting, uip_conns' = uip_conns, lastport' = lastport,
         client' \in Slots \cup {None}, all_data' \in [Slots -> Data],
         \A k \in Slots : Carries(k)' <=> Carries(k)
  PROVE  ConnInv'
<1>1. ConnTyped'
  BY DEF ConnInv, ConnTyped
<1>2. OneMatches'
  BY OneKept DEF ConnInv
<1>3. BareHaveNone'
  BY DEF ConnInv, BareHaveNone
<1>4. DataServeOne'
  BY <1>3, ServedKept DEF ConnInv
<1>5. Awaited'
  BY DEF Awaited
<1> QED BY <1>1, <1>2, <1>3, <1>4, <1>5 DEF ConnInv

LEMMA ListenKeeps == ASSUME ConnInv, NEW port, Listen(port) \/ Unlisten(port) PROVE ConnInv'
<1>1. /\ connecting = None /\ connecting' = connecting /\ uip_conns' = uip_conns /\ lastport' = lastport
      /\ client' = client /\ all_data' = all_data
  BY DEF Listen, Unlisten
<1> QED BY <1>1, QuietKeeps DEF ConnInv, ConnTyped, Carries

LEMMA AcceptKeeps == ASSUME ConnInv, NEW port, Accept(port) PROVE ConnInv'
<1>1. /\ connecting = None /\ connecting' = connecting /\ uip_conns' = uip_conns /\ lastport' = lastport
      /\ client' = Min(Offered(port)) /\ Offered(port) # {} /\ all_data' = all_data
  BY DEF Accept
<1>2. Offered(port) \subseteq Slots
  BY Zenon DEF Offered
<1>3. Offered(port) \subseteq Nat
  BY <1>2, IndexNumbers
<1>4. client' \in Slots
  BY <1>1, <1>2, <1>3, Least
<1> QED BY <1>1, <1>4, QuietKeeps DEF ConnInv, ConnTyped, Carries

LEMMA ReadKeeps == ASSUME ConnInv, Read PROVE ConnInv'
<1>1. all_data \in [Slots -> Data] /\ client \in Slots
  BY Zenon DEF ConnInv, ConnTyped, Read
<1>2. all_data' \in [Slots -> Data] /\ \A k \in Slots : Carries(k)' <=> Carries(k)
  <2>1. CASE all_data[client].state = "remote closed"
    <3>1. NoData \in Data /\ NoData.state = "free"
      BY DEF NoData, Data
    <3>2. all_data' = [all_data EXCEPT ![client] = NoData]
      BY <2>1, Zenon DEF Read
    <3> QED BY <1>1, <2>1, <3>1, <3>2, Zenon DEF Carries
  <2>2. CASE all_data[client].state # "remote closed"
    <3> DEFINE no == FALSE
               d == [all_data[client] EXCEPT !.packets_in = no]
    <3>1. no \in BOOLEAN /\ all_data[client] \in Data
      BY <1>1
    <3>2. all_data' = [all_data EXCEPT ![client] = d]
      BY <2>2, Zenon DEF Read
    <3> HIDE DEF no
    <3>3. d \in Data /\ d.state = all_data[client].state
      BY <3>1, Zenon DEF Data
    <3> HIDE DEF d
    <3> QED BY <1>1, <3>2, <3>3 DEF Carries
  <2> QED BY <2>1, <2>2, Zenon
<1>3. /\ connecting = None /\ connecting' = connecting /\ uip_conns' = uip_conns /\ lastport' = lastport
      /\ client' \in {client, None}
  BY Zenon DEF Read
<1> QED BY <1>1, <1>2, <1>3, QuietKeeps

LEMMA StopKeeps == ASSUME ConnInv, Stop PROVE ConnInv'
<1>1. /\ connecting = None /\ connecting' = connecting /\ uip_conns' = uip_conns /\ lastport' = lastport
      /\ client' = None /\ all_data' = Stopped
  BY DEF Stop
<1>2. all_data' \in [Slots -> Data] /\ \A k \in Slots : Carries(k)' <=> Carries(k)
  BY <1>1, StoppedIs DEF Carries, ConnInv
<1> QED BY <1>1, <1>2, QuietKeeps

LEMMA ConnectKeeps == ASSUME ConnInv, NEW remote \in Remotes, Connect(remote) PROVE ConnInv'
<1>1. all_data' \in [Slots -> Data] /\ \A k \in Slots : Carries(k)' <=> Carries(k)
  BY StoppedIs DEF Carries, ConnInv, Connect
<1>2. lastport' \in Ephemeral /\ \A i \in Slots : uip_conns[i].st # "CLOSED" => uip_conns[i].lport # lastport'
  <2>1. ConnTyped /\ lastport \in Ephemeral /\ lastport' = LocalPort(lastport)
    BY DEF Connect, ConnInv, ConnTyped
  <2> QED BY <2>1, PortIsFree
<1>3. CASE Unused = None
  <2>1. uip_conns' = uip_conns /\ connecting' = None /\ client' = None
    BY <1>3 DEF Connect
  <2>2. OneMatches'
    BY <2>1, OneKept DEF ConnInv
  <2>3. BareHaveNone'
    BY <2>1 DEF ConnInv, BareHaveNone
  <2>4. DataServeOne'
    BY <1>1, <2>1, <2>3, ServedKept DEF ConnInv
  <2>5. ConnTyped' /\ Awaited'
    BY <1>1, <1>2, <2>1 DEF ConnInv, ConnTyped, Awaited
  <2> QED BY <2>2, <2>3, <2>4, <2>5 DEF ConnInv
<1>4. CASE Unused # None
  <2> DEFINE i == Unused
             lport == lastport'
  <2>1. i \in Slots /\ uip_conns[i].st \in {"CLOSED", "TIME_WAIT"}
    BY <1>4, UnusedIs DEF ConnInv
  <2>2. uip_conns' = Opened(i, "SYN_SENT", lport, remote) /\ connecting' = i /\ client' = None
    BY <1>4 DEF Connect
  <2>3. lport \in Nat
    BY <1>2, IndexNumbers DEF Ephemeral
  <2>4. \A j \in Slots : uip_conns[j].st # "CLOSED" => <<uip_conns[j].lport, uip_conns[j].remote>> # <<lport, remote>>
    BY <1>2
  <2> HIDE DEF i, lport
  <2>5. TablesAfter(i) /\ uip_conns'[i].st = "SYN_SENT"
    BY <1>1, <2>1, <2>2, <2>3, <2>4, OpenedKeeps
  <2>6. ConnTyped' /\ Awaited'
    BY <1>1, <1>2, <2>1, <2>2, <2>5 DEF ConnInv, ConnTyped, Awaited, TablesAfter
  <2> QED BY <2>5, <2>6 DEF ConnInv, TablesAfter
<1> QED BY <1>3, <1>4

LEMMA ReturnKeeps == ASSUME ConnInv, ConnectReturn PROVE ConnInv'
<1> DEFINE i == connecting
<1>1. i \in Slots /\ uip_conns[i].st \in {"SYN_SENT", "ESTABLISHED", "CLOSED"} /\ uip_conns \in [Slots -> Conn]
  BY DEF ConnectReturn, ConnInv, ConnTyped, Awaited
<1>2. connecting' = None /\ lastport' = lastport /\ all_data' = all_data
  BY DEF ConnectReturn
<1>3. CASE uip_conns[i].st = "ESTABLISHED"
  <2>1. uip_conns' = uip_conns /\ client' = uip_conns[i].appstate
    BY <1>3 DEF ConnectReturn
  <2>2. ConnTyped' /\ Awaited'
    BY <1>1, <1>2, <2>1 DEF ConnInv, ConnTyped, Awaited, Conn
  <2>3. OneMatches'
    BY <2>1, OneKept DEF ConnInv
  <2>4. BareHaveNone'
    BY <2>1 DEF ConnInv, BareHaveNone
  <2>5. DataServeOne'
    BY <1>2, <2>1, <2>4, ServedKept DEF ConnInv, Carries
  <2> QED BY <2>2, <2>3, <2>4, <2>5 DEF ConnInv
<1>4. CASE uip_conns[i].st # "ESTABLISHED"
  <2> DEFINE e == [uip_conns[i] EXCEPT !.st = "CLOSED"]
  <2>1. uip_conns' = [uip_conns EXCEPT ![i] = e] /\ client' = None
    BY <1>4, Zenon DEF ConnectReturn
  <2>2. /\ e \in Conn /\ e.st = "CLOSED" /\ e.appstate = uip_conns[i].appstate
        /\ e.lport = uip_conns[i].lport /\ e.remote = uip_conns[i].remote
    BY <1>1 DEF Conn, States
  <2>3. uip_conns[i].appstate = None
    BY <1>1, <1>4 DEF ConnInv, BareHaveNone, Bare
  <2> HIDE DEF e, i
  <2>4. /\ uip_conns' \in [Slots -> Conn] /\ \A j \in Slots \ {i} : uip_conns'[j] = uip_conns[j]
        /\ uip_conns'[i] = e
    BY <1>1, <2>1, <2>2
  <2>5. OneMatches'
    BY <2>2, <2>4, OneKept DEF ConnInv
  <2>6. BareHaveNone'
    BY <2>2, <2>3, <2>4 DEF ConnInv, BareHaveNone
  <2>7. DataServeOne'
    BY <1>2, <2>2, <2>3, <2>4, <2>6, ServedKept DEF ConnInv, Carries
  <2>8. ConnTyped' /\ Awaited'
    BY <1>2, <2>1, <2>4 DEF ConnInv, ConnTyped, Awaited
  <2> QED BY <2>5, <2>6, <2>7, <2>8 DEF ConnInv
<1> QED BY <1>3, <1>4

LEMMA ConnStarts == ConnsInit => ConnInv
<1> SUFFICES ASSUME ConnsInit PROVE ConnInv
  OBVIOUS
<1>1. NoConn \in Conn /\ NoData \in Data
  <2>1. 0 \in Times
    BY ConnsAssumption DEF Times
  <2> QED BY <2>1 DEF NoConn, NoData, Conn, Data, States, None
<1>2. InitPort \in Ephemeral
  BY PortNumbers DEF Ephemeral
<1>3. ConnTyped
  BY <1>1, <1>2 DEF ConnsInit, ConnTyped
<1>4. None \notin Slots
  BY DEF None, Slots
<1>5. OneMatches /\ DataServeOne /\ BareHaveNone /\ Awaited
  BY <1>4 DEF ConnsInit, NoConn, NoData, OneMatches, DataServeOne, BareHaveNone, Awaited, Serves
<1> QED BY <1>3, <1>5 DEF ConnInv

LEMMA ConnStep == ConnInv /\ [ConnsNext]_connVars => ConnInv'
<1> SUFFICES ASSUME ConnInv, [ConnsNext]_connVars PROVE ConnInv'
  OBVIOUS
<1>1. CASE Tick
  BY <1>1, TickKeeps
<1>2. CASE \E port \in ServerPorts : Listen(port) \/ Unlisten(port) \/ Accept(port)
  BY <1>2, ListenKeeps, AcceptKeeps
<1>3. CASE Read
  BY <1>3, ReadKeeps
<1>4. CASE Stop
  BY <1>4, StopKeeps
<1>5. CASE ConnectReturn
  BY <1>5, ReturnKeeps
<1>6. CASE \E remote \in Remotes : Connect(remote)
  BY <1>6, ConnectKeeps
<1>7. CASE UNCHANGED connVars
  BY <1>7 DEF connVars, ConnInv, ConnTyped, OneMatches, DataServeOne, Serves, BareHaveNone, Awaited
<1> QED BY <1>1, <1>2, <1>3, <1>4, <1>5, <1>6, <1>7 DEF ConnsNext, Sketch

\* With any number of connections, ports and other ends a segment is for one connection, whichever
\* way the connections came into the table, and connected user data serve exactly one.
THEOREM ConnsHold == ConnsSpec => []ConnsApart
<1>1. ConnInv => ConnsApart
  BY DEF ConnInv, ConnsApart
<1> QED BY <1>1, ConnStarts, ConnStep, PTL DEF ConnsSpec

-----------------------------------------------------------------------------
(* The table of neighbours.                                                *)

EntryTimes == 0 .. MaxTime
Entry == [ip : Known \cup {NullIp}, addr : {p[2] : p \in Pairs} \cup {NullAddr}, time : EntryTimes]
Fresh == {i \in Places : entries[i].time = 0}

\* The IP addresses some link address begins like
Mistakable == {ReadAs[p[2]] : p \in Pairs}

\* While no more were heard of than there are entries, everyone is in one that is fresh.
NeighborInv ==
  /\ entries \in [Places -> Entry] /\ calls \in 0 .. NEntries + 1
  /\ \A i \in Places : entries[i].ip # NullIp => <<entries[i].ip, entries[i].addr>> \in Pairs
  /\ calls <= NEntries =>
       /\ Cardinality(Fresh) <= calls
       /\ \A ip \in touched \ Mistakable : \E i \in Fresh : entries[i].ip = ip

LEMMA NeighborNumbers ==
  /\ NEntries \in Nat \ {0} /\ MaxTime \in Nat \ {0} /\ NullIp \notin Known
  /\ \A i \in Places : i \in Nat
  /\ \A t \in EntryTimes : t \in Nat /\ t <= MaxTime
  /\ 0 \in EntryTimes /\ MaxTime \in EntryTimes /\ 1 \in Places
<1>1. NEntries \in Nat \ {0} /\ MaxTime \in Nat \ {0}
  BY NeighborAssumption
<1>2. NullIp \notin Known
  BY PartsAssumption, Zenon DEF Known
<1> QED BY <1>1, <1>2 DEF Places, EntryTimes

LEMMA PairsAre == \A p \in Pairs : <<p[1], p[2]>> \in Pairs /\ p[1] \in Known /\ p[1] # NullIp
<1>1. \A p \in Pairs : p = <<p[1], p[2]>>
  BY PartsAssumption, Zenon
<1>2. \A p \in Pairs : p[1] \in Known
  BY Zenon DEF Known
<1> QED BY <1>1, <1>2, NeighborNumbers, Zenon

\* An entry that is fresh is one of the first NEntries, and if all are, there are as many.
LEMMA FreshOnes ==
  /\ IsFiniteSet(Places) /\ Cardinality(Places) = NEntries
  /\ \A S \in SUBSET Places : IsFiniteSet(S) /\ Cardinality(S) \in Nat /\ Cardinality(S) <= NEntries
<1>1. NEntries \in Nat /\ 1 \in Int /\ NEntries \in Int
  BY NeighborNumbers
<1>2. IsFiniteSet(1 .. NEntries) /\ Cardinality(1 .. NEntries) = IF 1 > NEntries THEN 0 ELSE NEntries - 1 + 1
  BY <1>1, FS_Interval
<1>3. IsFiniteSet(Places) /\ Cardinality(Places) = NEntries
  BY <1>1, <1>2, NeighborNumbers DEF Places
<1>4. ASSUME NEW S \in SUBSET Places
      PROVE  IsFiniteSet(S) /\ Cardinality(S) \in Nat /\ Cardinality(S) <= NEntries
  <2>1. IsFiniteSet(S) /\ Cardinality(S) <= Cardinality(Places)
    BY <1>3, FS_Subset, SMTT(30)
  <2> QED BY <1>3, <2>1, FS_CardinalityType
<1> QED BY <1>3, <1>4

\* Where an entry is put: not where a neighbour was heard of in this period, unless that is one
\* whose IP address the link address begins like.
LEMMA PlaceIs ==
  ASSUME NeighborInv, NEW addr
  PROVE  /\ Place(addr) \in Places
         /\ calls < NEntries => entries[Place(addr)].time # 0 \/ entries[Place(addr)].ip = ReadAs[addr]
<1> DEFINE these == {i \in Places : entries[i].time = MaxTime \/ entries[i].ip = ReadAs[addr]}
           times == {entries[i].time : i \in Places}
           oldest == Max(times)
           those == {i \in Places : entries[i].time = oldest}
           set == IF these # {} THEN these ELSE those
<1>1. Place(addr) = Min(set)
  BY Zenon DEF Place
<1>2. \A i \in Places : entries[i].time \in EntryTimes
  BY DEF NeighborInv, Entry
<1>3. entries[1].time \in times
  BY NeighborNumbers
<1>4. times \subseteq Int /\ times # {} /\ \A t \in times : t <= MaxTime
  <2>1. \A t \in EntryTimes : t \in Int /\ t <= MaxTime
    BY NeighborNumbers
  <2>2. times \subseteq EntryTimes
    BY <1>2
  <2> HIDE DEF times
  <2> QED BY <1>3, <2>1, <2>2
<1>5. oldest \in times /\ \A t \in times : t <= oldest
  <2>1. MaxTime \in Int
    BY NeighborNumbers
  <2> HIDE DEF times
  <2> QED BY <1>4, <2>1, Greatest, Zenon
<1>6. PICK m \in Places : entries[m].time = oldest
  BY <1>5, Zenon
<1>7. \A i \in Places : entries[i].time <= oldest
  BY <1>5
<1> HIDE DEF oldest
<1>8. set \subseteq Places /\ set # {}
  BY <1>6
<1>9. set \subseteq Nat
  BY <1>8, NeighborNumbers
<1> DEFINE s == Min(set)
<1>10. s \in set
  <2> HIDE DEF set
  <2> QED BY <1>8, <1>9, Least, Zenon
<1> HIDE DEF s
<1>11. s \in Places /\ (s \in these \/ entries[s].time = oldest)
  BY <1>8, <1>10
<1>12. ASSUME calls < NEntries, entries[s].time = 0 PROVE entries[s].ip = ReadAs[addr]
  <2>1. CASE s \in these
    BY <1>12, <2>1, NeighborNumbers
  <2>2. CASE entries[s].time = oldest
    <3>1. \A i \in Places : entries[i].time = 0
      BY <1>2, <1>7, <1>12, <2>2, NeighborNumbers
    <3>2. Fresh = Places
      BY <3>1 DEF Fresh
    <3>3. Cardinality(Fresh) = NEntries
      BY <3>2, FreshOnes
    <3>4. calls \in Int /\ calls <= NEntries
      BY <1>12, NeighborNumbers DEF NeighborInv
    <3> QED BY <1>12, <3>3, <3>4, NeighborNumbers DEF NeighborInv
  <2> QED BY <1>11, <2>1, <2>2
<1> QED BY <1>1, <1>11, <1>12, Zenon DEF s

LEMMA NeighborStarts == NeighborInit => NeighborInv
<1> SUFFICES ASSUME NeighborInit PROVE NeighborInv
  OBVIOUS
<1> DEFINE e == [ip |-> NullIp, addr |-> NullAddr, time |-> MaxTime]
<1>1. e \in Entry /\ e.time # 0 /\ e.ip = NullIp
  BY NeighborNumbers DEF Entry
<1>2. entries = [i \in Places |-> e] /\ touched = {} /\ calls = 0
  BY DEF NeighborInit
<1> HIDE DEF e
<1>3. entries \in [Places -> Entry] /\ \A i \in Places : entries[i] = e
  BY <1>1, <1>2
<1>4. Fresh = {}
  BY <1>1, <1>3 DEF Fresh
<1>5. Cardinality(Fresh) = 0
  BY <1>4, FS_EmptySet
<1> QED BY <1>1, <1>2, <1>3, <1>5, NeighborNumbers DEF NeighborInv

\* uip_neighbor_periodic(): nobody is fresh.
LEMMA AgesKeep == ASSUME NeighborInv, NeighborPeriodic PROVE NeighborInv'
<1> DEFINE later(i) == Min({entries[i].time + 1, MaxTime})
<1>1. \A i \in Places : entries[i] \in Entry /\ entries[i].time \in EntryTimes
  BY DEF NeighborInv, Entry
<1>2. \A i \in Places : later(i) \in EntryTimes /\ later(i) # 0
  <2> SUFFICES ASSUME NEW i \in Places PROVE later(i) \in EntryTimes /\ later(i) # 0
    OBVIOUS
  <2>1. entries[i].time \in Nat /\ entries[i].time + 1 \in Nat /\ MaxTime \in Nat
    <3>1. entries[i].time \in Nat
      BY <1>1, NeighborNumbers, Zenon
    <3>2. MaxTime \in Nat
      BY NeighborNumbers
    <3> QED BY <3>1, <3>2
  <2>2. later(i) = IF entries[i].time + 1 <= MaxTime THEN entries[i].time + 1 ELSE MaxTime
    BY <2>1, MinOfTwo
  <2> HIDE DEF later
  <2> QED BY <2>1, <2>2, NeighborNumbers DEF EntryTimes
<1> HIDE DEF later
<1>3. entries' = [i \in Places |-> [entries[i] EXCEPT !.time = later(i)]] /\ touched' = {} /\ calls' = 0
  BY DEF NeighborPeriodic, later
<1>4. \A i \in Places : LET e == [entries[i] EXCEPT !.time = later(i)] IN
        e \in Entry /\ e.time = later(i) /\ e.ip = entries[i].ip /\ e.addr = entries[i].addr
  BY <1>1, <1>2 DEF Entry
<1>5. /\ entries' \in [Places -> Entry]
      /\ \A i \in Places : /\ entries'[i].time = later(i)
                           /\ entries'[i].ip = entries[i].ip /\ entries'[i].addr = entries[i].addr
  BY <1>3, <1>4, Zenon
<1>6. Fresh' = {}
  BY <1>2, <1>5 DEF Fresh
<1>7. Cardinality(Fresh') = 0
  BY <1>6, FS_EmptySet
<1>8. \A i \in Places : entries'[i].ip # NullIp => <<entries'[i].ip, entries'[i].addr>> \in Pairs
  BY <1>5 DEF NeighborInv
<1>9. calls' \in 0 .. NEntries + 1 /\ calls' <= NEntries /\ Cardinality(Fresh') <= calls'
  BY <1>3, <1>7, NeighborNumbers
<1>10. touched' \ Mistakable = {}
  BY <1>3
<1> QED BY <1>5, <1>8, <1>9, <1>10 DEF NeighborInv

\* An entry that was not fresh, or a mistakable one, becomes that of a neighbour who was heard of.
LEMMA TouchKeeps ==
  ASSUME NeighborInv, NEW s \in Places, NEW e \in Entry, entries' = [entries EXCEPT ![s] = e],
         e.time = 0, <<e.ip, e.addr>> \in Pairs,
         calls < NEntries => entries[s].time # 0 \/ entries[s].ip \in Mistakable \/ entries[s].ip = e.ip,
         Touch(e.ip)
  PROVE  NeighborInv'
<1>1. calls \in Nat /\ calls <= NEntries + 1 /\ NEntries \in Nat
  BY NeighborNumbers DEF NeighborInv
<1>2. touched' = touched \cup {e.ip} /\ calls' = Min({calls + 1, NEntries + 1})
  BY DEF Touch
<1>3. calls' = IF calls + 1 <= NEntries + 1 THEN calls + 1 ELSE NEntries + 1
  <2>1. calls + 1 \in Nat /\ NEntries + 1 \in Nat
    BY <1>1
  <2> QED BY <1>2, <2>1, MinOfTwo
<1>4. calls' \in 0 .. NEntries + 1 /\ (calls' <= NEntries => calls < NEntries /\ calls' = calls + 1)
  BY <1>1, <1>3
<1>5. /\ entries' \in [Places -> Entry] /\ entries'[s] = e
      /\ \A i \in Places : i # s => entries'[i] = entries[i]
  BY DEF NeighborInv
<1>6. \A i \in Places : entries'[i].ip # NullIp => <<entries'[i].ip, entries'[i].addr>> \in Pairs
  BY <1>5 DEF NeighborInv
<1>7. Fresh' = Fresh \cup {s}
  BY <1>5 DEF Fresh
<1>8. ASSUME calls' <= NEntries
      PROVE  /\ Cardinality(Fresh') <= calls'
             /\ \A ip \in touched' \ Mistakable : \E i \in Fresh' : entries'[i].ip = ip
  <2>1. calls < NEntries /\ calls' = calls + 1 /\ calls <= NEntries
    BY <1>1, <1>4, <1>8
  <2>2. Cardinality(Fresh) <= calls /\ \A ip \in touched \ Mistakable : \E i \in Fresh : entries[i].ip = ip
    BY <2>1 DEF NeighborInv
  <2>3. Cardinality(Fresh') <= calls'
    <3>1. Fresh \in SUBSET Places
      BY DEF Fresh
    <3>2. IsFiniteSet(Fresh) /\ Cardinality(Fresh) \in Nat
      BY <3>1, FreshOnes
    <3>3. Cardinality(Fresh \cup {s}) = IF s \in Fresh THEN Cardinality(Fresh) ELSE Cardinality(Fresh) + 1
      BY <3>2, FS_AddElement, Zenon
    <3> QED BY <1>1, <1>7, <2>1, <2>2, <3>2, <3>3
  <2>4. ASSUME NEW ip \in touched' \ Mistakable PROVE \E i \in Fresh' : entries'[i].ip = ip
    <3>1. CASE ip = e.ip
      BY <1>5, <1>7, <3>1
    <3>2. CASE ip # e.ip
      <4>1. PICK i \in Fresh : entries[i].ip = ip
        BY <1>2, <2>2, <2>4, <3>2
      <4>2. entries[i].time = 0 /\ i \in Places
        BY DEF Fresh
      <4>3. i # s
        BY <2>1, <2>4, <3>2, <4>1, <4>2
      <4> QED BY <1>5, <1>7, <4>1, <4>2, <4>3
    <3> QED BY <3>1, <3>2
  <2> QED BY <2>3, <2>4
<1> QED BY <1>4, <1>5, <1>6, <1>8 DEF NeighborInv

LEMMA AddKeeps == ASSUME NeighborInv, NEW p \in Pairs, NeighborAdd(p[1], p[2]) PROVE NeighborInv'
<1> DEFINE s == Place(p[2])
           e == [ip |-> p[1], addr |-> p[2], time |-> 0]
<1>1. e \in Entry /\ e.ip = p[1] /\ e.addr = p[2] /\ e.time = 0
  BY PairsAre, NeighborNumbers, Zenon DEF Entry
<1>2. entries' = [entries EXCEPT ![s] = e] /\ Touch(e.ip)
  BY DEF NeighborAdd
<1>3. s \in Places /\ (calls < NEntries => entries[s].time # 0 \/ entries[s].ip = ReadAs[p[2]])
  BY PlaceIs, Zenon
<1>4. ReadAs[p[2]] \in Mistakable
  BY Zenon DEF Mistakable
<1>5. <<e.ip, e.addr>> \in Pairs
  BY <1>1, PairsAre
<1> HIDE DEF s, e
<1> QED BY <1>1, <1>2, <1>3, <1>4, <1>5, TouchKeeps, Zenon

LEMMA UpdateKeeps == ASSUME NeighborInv, NEW ip \in Known, NeighborUpdate(ip) PROVE NeighborInv'
<1>1. PICK i \in find_entry(ip) : entries' = [entries EXCEPT ![i].time = 0] /\ Touch(ip)
  BY Zenon DEF NeighborUpdate
<1>2. i \in Places /\ entries[i].ip = ip /\ entries[i] \in Entry
  BY DEF find_entry, NeighborInv
<1> DEFINE e == [entries[i] EXCEPT !.time = 0]
<1>3. e \in Entry /\ e.time = 0 /\ e.ip = ip /\ e.addr = entries[i].addr
  BY <1>2, NeighborNumbers DEF Entry
<1>4. entries' = [entries EXCEPT ![i] = e]
  BY <1>1
<1>5. <<e.ip, e.addr>> \in Pairs
  <2>1. entries[i].ip # NullIp
    BY <1>2, NeighborNumbers, Zenon
  <2>2. <<entries[i].ip, entries[i].addr>> \in Pairs
    BY <1>2, <2>1, Zenon DEF NeighborInv
  <2> HIDE DEF e
  <2> QED BY <1>2, <1>3, <2>2
<1> HIDE DEF e
<1>6. Touch(e.ip) /\ entries[i].ip = e.ip
  BY <1>1, <1>2, <1>3
<1> QED BY <1>2, <1>3, <1>4, <1>5, <1>6, TouchKeeps, Zenon

LEMMA NeighborKeeps == NeighborInv /\ [NeighborNext]_neighborVars => NeighborInv'
<1> SUFFICES ASSUME NeighborInv, [NeighborNext]_neighborVars PROVE NeighborInv'
  OBVIOUS
<1>1. CASE NeighborPeriodic
  BY <1>1, AgesKeep
<1>2. CASE \E p \in Pairs : NeighborAdd(p[1], p[2])
  BY <1>2, AddKeeps
<1>3. CASE \E ip \in Known : NeighborUpdate(ip)
  BY <1>3, UpdateKeeps
<1>4. CASE UNCHANGED neighborVars
  BY <1>4 DEF neighborVars, NeighborInv, Fresh
<1> QED BY <1>1, <1>2, <1>3, <1>4, Zenon DEF NeighborNext

LEMMA NeighborSays == NeighborInv => NeighborsFound
<1> SUFFICES ASSUME NeighborInv PROVE NeighborsFound
  OBVIOUS
<1>1. ASSUME NEW ip \in Known, NEW addr \in NeighborLookup(ip) PROVE <<ip, addr>> \in Pairs
  <2>1. PICK i \in Places : entries[i].ip = ip /\ addr = entries[i].addr
    BY <1>1, Zenon DEF NeighborLookup, find_entry
  <2>2. entries[i].ip # NullIp
    BY <2>1, NeighborNumbers, Zenon
  <2>3. <<entries[i].ip, entries[i].addr>> \in Pairs
    BY <2>2, Zenon DEF NeighborInv
  <2> QED BY <2>1, <2>3
<1>2. ASSUME calls <= NEntries, NEW ip \in touched \ Mistakable PROVE NeighborLookup(ip) # {}
  <2> DEFINE those == {i \in Places : entries[i].ip = ip}
             first == Min(those)
  <2>1. PICK i \in Places : entries[i].ip = ip
    BY <1>2 DEF NeighborInv, Fresh
  <2>2. those \subseteq Nat /\ those # {}
    BY <2>1, NeighborNumbers
  <2>3. first \in those /\ \A j \in those : first <= j
    <3> HIDE DEF those
    <3> QED BY <2>2, Least, Zenon
  <2> HIDE DEF first
  <2>4. first \in Places /\ entries[first].ip = ip /\ first \in Nat
    BY <2>2, <2>3
  <2>5. ASSUME NEW j \in 1 .. first - 1 PROVE entries[j].ip # ip
    <3>1. j \in Places /\ j < first
      BY <2>4, NeighborNumbers DEF Places
    <3> QED BY <2>3, <2>4, <3>1, NeighborNumbers
  <2>6. first \in find_entry(ip)
    BY <2>4, <2>5, Zenon DEF find_entry
  <2>7. entries[first].addr \in NeighborLookup(ip)
    BY <2>6, Zenon DEF NeighborLookup
  <2> QED BY <2>7
<1> QED BY <1>1, <1>2, Zenon DEF NeighborsFound, Mistakable

\* Entries of the two tables of addresses go when they should and not before, and what is looked up
\* there was heard of.
THEOREM TablesAge == ArpSpec /\ NeighborInit /\ [][NeighborNext]_neighborVars => EntriesAge
<1>1. ArpInv /\ NeighborInv' => [Ages /\ NeighborsFound']_<<arpVars, neighborVars>>
  <2>1. NeighborInv' => NeighborsFound'
    BY NeighborSays, PTL
  <2> QED BY <2>1, AgesHold
<1> QED BY <1>1, ArpInvInit, ArpInvStep, NeighborStarts, NeighborKeeps, PTL DEF ArpSpec, EntriesAge

-----------------------------------------------------------------------------
(* Forwarding.                                                             *)

FwPlaces == 1 .. CacheSize

\* A packet has the fields that tell it from others.
KeyFields == {"id", "src", "dst", "proto"}
IsPacket(p) == \A x \in KeyFields : x \in DOMAIN p

\* A cache has its places; their times are numbers.
IsCacheOf(cache) ==
  /\ cache = [i \in FwPlaces |-> cache[i]]
  /\ \A i \in FwPlaces : cache[i].timer \in Nat

\* What a router has passed on and not forgotten is in its cache.
FwInv ==
  /\ fwcache = [r \in Routers |-> fwcache[r]] /\ \A r \in Routers : IsCacheOf(fwcache[r])
  /\ \A f \in air : f.to \in Routers /\ IsPacket(f.packet)
  /\ \A x \in heard : x = <<x[1], x[2]>> /\ x[1] \in Routers
  /\ \A x \in heard \ forgotten : x[2] \in ForwardPart!Keys(fwcache[x[1]])
  /\ again = {}

LEMMA FwConstants == CacheSize \in Nat \ {0} /\ FwTime \in Nat \ {0} /\ Ttl \in Nat
BY PartsAssumption

\* fwcache_register() uses one of the places.
LEMMA SlotInCache ==
  ASSUME NEW cache, IsCacheOf(cache)
  PROVE  ForwardPart!Slot(cache) \in FwPlaces
<1> DEFINE free == {i \in 1 .. CacheSize : cache[i].timer = 0}
           oldest == {i \in 1 .. CacheSize : \A j \in 1 .. CacheSize : cache[i].timer <= cache[j].timer}
           timers == {cache[i].timer : i \in 1 .. CacheSize}
<1>1. (\A i \in 1 .. CacheSize : i \in Nat /\ i <= CacheSize) /\ CacheSize \in Int /\ 1 \in 1 .. CacheSize
  <2>1. CacheSize \in Nat \ {0}
    BY FwConstants
  <2>2. (\A i \in 1 .. CacheSize : i \in Nat /\ i <= CacheSize) /\ CacheSize \in Int
    BY <2>1
  <2>3. 1 \in 1 .. CacheSize
    BY <2>1
  <2> QED BY <2>2, <2>3
<1>2. \A i \in 1 .. CacheSize : cache[i].timer \in Nat
  BY Zenon DEF IsCacheOf, FwPlaces
<1>3. ForwardPart!Slot(cache) = IF free # {} THEN Min(free) ELSE Max(oldest)
  BY Zenon DEF ForwardPart!Slot, ForwardPart!Min, ForwardPart!Max, Min, Max
<1>4. free \subseteq 1 .. CacheSize /\ oldest \subseteq 1 .. CacheSize
  OBVIOUS
<1>5. timers \subseteq Nat /\ cache[1].timer \in timers
  BY <1>1, <1>2
<1>6. \A i \in 1 .. CacheSize : (\A t \in timers : cache[i].timer <= t) => i \in oldest
  BY Zenon
<1>7. \A t \in timers : \E i \in 1 .. CacheSize : t = cache[i].timer
  BY Zenon
<1> HIDE DEF free, oldest, timers
<1>8. CASE free # {}
  <2>1. free \subseteq Nat
    BY <1>1, <1>4
  <2>2. Min(free) \in free
    BY <1>8, <2>1, Least, Zenon
  <2> QED BY <1>3, <1>4, <1>8, <2>2, Zenon DEF FwPlaces
<1>9. CASE free = {}
  <2>1. PICK i \in 1 .. CacheSize : Min(timers) = cache[i].timer /\ \A t \in timers : Min(timers) <= t
    BY <1>5, <1>7, Least, Zenon
  <2>2. i \in oldest
    BY <1>6, <2>1, Zenon
  <2>3. oldest \subseteq Int /\ oldest # {} /\ \A j \in oldest : j <= CacheSize
    BY <1>1, <1>4, <2>2
  <2>4. Max(oldest) \in oldest
    BY <1>1, <2>3, Greatest, Zenon
  <2> QED BY <1>3, <1>4, <1>9, <2>4, Zenon DEF FwPlaces
<1> QED BY <1>8, <1>9

\* What is registered is in the cache then.
LEMMA RegisteredIs ==
  ASSUME NEW cache, IsCacheOf(cache), NEW p
  PROVE  /\ IsCacheOf(ForwardPart!Registered(cache, p))
         /\ ForwardPart!Key(p) \in ForwardPart!Keys(ForwardPart!Registered(cache, p))
<1> DEFINE s == ForwardPart!Slot(cache)
           e == [timer |-> FwTime, packet |-> p]
           new == ForwardPart!Registered(cache, p)
<1>1. s \in FwPlaces
  BY SlotInCache
<1>2. new = [cache EXCEPT ![s] = e]
  BY DEF ForwardPart!Registered
<1>3. e.timer \in Nat \ {0} /\ e.packet = p
  BY FwConstants
<1> HIDE DEF s, e, new
<1>4. new[s] = e /\ (\A i \in FwPlaces : i # s => new[i] = cache[i]) /\ new = [i \in FwPlaces |-> new[i]]
  BY <1>1, <1>2 DEF IsCacheOf
<1>5. IsCacheOf(new)
  BY <1>3, <1>4 DEF IsCacheOf
<1>6. ForwardPart!Key(p) \in ForwardPart!Keys(new)
  <2>1. s \in {j \in 1 .. CacheSize : new[j].timer # 0}
    BY <1>1, <1>3, <1>4 DEF FwPlaces
  <2>2. ForwardPart!Key(new[s].packet) \in ForwardPart!Keys(new)
    BY <2>1 DEF ForwardPart!Keys
  <2> QED BY <1>3, <1>4, <2>2
<1> QED BY <1>5, <1>6 DEF new

\* Whatever changes a cache, what it still does not have is forgotten.
LEMMA NewCacheKeeps ==
  ASSUME FwInv, NEW r \in Routers, NEW cache, IsCacheOf(cache), ForwardPart!NewCache(r, cache),
         NEW more, \A k \in more : k \in ForwardPart!Keys(cache),
         heard' = heard \cup {<<r, k>> : k \in more},
         again' = again, \A f \in air' : f.to \in Routers /\ IsPacket(f.packet)
  PROVE  FwInv'
<1>1. fwcache' = [fwcache EXCEPT ![r] = cache]
  BY DEF ForwardPart!NewCache
<1>2. /\ fwcache' = [q \in Routers |-> fwcache'[q]] /\ fwcache'[r] = cache
      /\ \A q \in Routers : q # r => fwcache'[q] = fwcache[q]
  BY <1>1 DEF FwInv
<1>3. \A q \in Routers : IsCacheOf(fwcache[q])'
  BY <1>2 DEF FwInv, IsCacheOf
<1>4. \A x \in heard' : x = <<x[1], x[2]>> /\ x[1] \in Routers
  BY DEF FwInv
<1>5. \A x \in heard' \ forgotten' : x[2] \in ForwardPart!Keys(fwcache'[x[1]])
  <2> SUFFICES ASSUME NEW x \in heard', x \notin forgotten'
               PROVE  x[2] \in ForwardPart!Keys(fwcache'[x[1]])
    OBVIOUS
  <2>1. forgotten' = (forgotten \cup {<<r, k>> : k \in ForwardPart!Keys(fwcache[r])})
                       \ {<<r, k>> : k \in ForwardPart!Keys(cache)}
    BY DEF ForwardPart!NewCache
  <2>2. x = <<x[1], x[2]>> /\ x[1] \in Routers
    BY <1>4
  <2>3. CASE x[1] = r
    <3> SUFFICES ASSUME x[2] \notin ForwardPart!Keys(cache) PROVE FALSE
      BY <1>2, <2>3
    <3>1. x \in heard
      BY <2>2
    <3>2. x \notin {<<r, k>> : k \in ForwardPart!Keys(cache)}
      BY <2>2
    <3>3. x \notin forgotten /\ x \notin {<<r, k>> : k \in ForwardPart!Keys(fwcache[r])}
      BY <2>1, <3>2
    <3>4. x[2] \in ForwardPart!Keys(fwcache[r])
      BY <2>3, <3>1, <3>3 DEF FwInv
    <3> QED BY <2>2, <2>3, <3>3, <3>4
  <2>4. CASE x[1] # r
    <3>1. x \in heard /\ x \notin forgotten
      BY <2>1, <2>2, <2>4
    <3> QED BY <1>2, <2>2, <2>4, <3>1 DEF FwInv
  <2> QED BY <2>3, <2>4
<1> QED BY <1>2, <1>3, <1>4, <1>5 DEF FwInv

\* What is made of a packet is one.
LEMMA OlderIs ==
  ASSUME NEW p, IsPacket(p)
  PROVE  IsPacket(ForwardPart!Older(p)) /\ ForwardPart!Key(ForwardPart!Older(p)) = ForwardPart!Key(p)
<1>1. \A t, s : IsPacket([p EXCEPT !.ttl = t, !.sum = s])
  BY DEF IsPacket
<1>2. \A t, s : ForwardPart!Key([p EXCEPT !.ttl = t, !.sum = s]) = ForwardPart!Key(p)
  BY DEF ForwardPart!Key, IsPacket, KeyFields
<1> QED BY <1>1, <1>2, Zenon DEF ForwardPart!Older

LEMMA ExceededIs ==
  ASSUME NEW r, NEW p, IsPacket(p)
  PROVE  IsPacket(ForwardPart!TimeExceeded(r, p))
<1>1. \A s, d, x, t, u : IsPacket([p EXCEPT !.src = s, !.dst = d, !.proto = x, !.ttl = t, !.sum = u])
  BY DEF IsPacket
<1> QED BY <1>1, Zenon DEF ForwardPart!TimeExceeded

LEMMA FramesGoTo ==
  ASSUME NEW r, NEW p, IsPacket(p)
  PROVE  \A f \in ForwardPart!Frames(r, p) : f.to \in Routers /\ IsPacket(f.packet)
BY DEF ForwardPart!Frames

-----------------------------------------------------------------------------
\* What is not known is not among what a router has passed on and not forgotten.
LEMMA UnknownIsNew ==
  ASSUME FwInv, NEW r \in Routers, NEW p, ~ForwardPart!Known(r, p)
  PROVE  <<r, ForwardPart!Key(p)>> \notin heard \ forgotten
BY DEF FwInv, ForwardPart!Known

\* uip_fw_output() and what the caller notes
LEMMA OutputKeeps ==
  ASSUME FwInv, NEW r \in Routers, NEW p, IsPacket(p), NEW rest \in SUBSET air, ForwardPart!Output(r, p, rest),
         again' = again,
         heard' = heard \/ heard' = heard \cup {<<r, ForwardPart!Key(p)>>}
  PROVE  FwInv'
<1> DEFINE cache == ForwardPart!Registered(fwcache[r], p)
           more == IF heard' = heard THEN {} ELSE {ForwardPart!Key(p)}
<1>1. IsCacheOf(cache) /\ ForwardPart!Key(p) \in ForwardPart!Keys(cache)
  BY RegisteredIs DEF FwInv
<1>2. ForwardPart!NewCache(r, cache) /\ air' = rest \cup ForwardPart!Frames(r, p)
  BY DEF ForwardPart!Output
<1>3. \A f \in air' : f.to \in Routers /\ IsPacket(f.packet)
  BY <1>2, FramesGoTo DEF FwInv
<1>4. \A k \in more : k \in ForwardPart!Keys(cache)
  BY <1>1
<1>5. heard' = heard \cup {<<r, k>> : k \in more}
  BY SMTT(30)
<1> HIDE DEF cache, more
<1> QED BY <1>1, <1>2, <1>3, <1>4, <1>5, NewCacheKeeps

\* A packet that is dropped or handed up changes no cache.
LEMMA DroppedKeeps ==
  ASSUME FwInv, air' \subseteq air, UNCHANGED <<fwcache, heard, forgotten, again>>
  PROVE  FwInv'
BY DEF FwInv, IsCacheOf, IsPacket, ForwardPart!Keys, ForwardPart!Key

LEMMA ReceiveKeeps == ASSUME FwInv, ForwardPart!Receive PROVE FwInv'
<1> PICK f \in air :
      LET r == f.to  p == f.packet  rest == air \ {f} IN
      \/ air' = rest /\ UNCHANGED <<fwcache, forgotten, heard, again>>
      \/ /\ ~ForwardPart!Known(r, p) /\ ForwardPart!Local(r, p)
         /\ air' = rest /\ UNCHANGED <<fwcache, forgotten, heard>>
      \/ ForwardPart!Output(r, ForwardPart!Older(ForwardPart!TimeExceeded(r, p)), rest) /\ UNCHANGED <<heard, again>>
      \/ /\ ~ForwardPart!Known(r, p) /\ ForwardPart!Output(r, ForwardPart!Older(p), rest)
         /\ \/ ForwardPart!Local(r, p) /\ heard' = heard \cup {<<r, ForwardPart!Key(p)>>}
            \/ UNCHANGED <<heard, again>>
  BY Zenon DEF ForwardPart!Receive
<1> DEFINE r == f.to
           p == f.packet
           rest == air \ {f}
<1>1. r \in Routers /\ IsPacket(p) /\ rest \in SUBSET air
  BY DEF FwInv
<1>2. ForwardPart!Local(r, p) /\ ~ForwardPart!Known(r, p) => again' = again
  BY <1>1, UnknownIsNew, Zenon DEF ForwardPart!Local
<1>3. IsPacket(ForwardPart!Older(p)) /\ ForwardPart!Key(ForwardPart!Older(p)) = ForwardPart!Key(p)
  BY <1>1, OlderIs, Zenon
<1>4. IsPacket(ForwardPart!Older(ForwardPart!TimeExceeded(r, p)))
  BY <1>1, ExceededIs, OlderIs, Zenon
<1>5. \/ air' = rest /\ UNCHANGED <<fwcache, forgotten, heard, again>>
      \/ ForwardPart!Output(r, ForwardPart!Older(ForwardPart!TimeExceeded(r, p)), rest) /\ UNCHANGED <<heard, again>>
      \/ /\ ForwardPart!Output(r, ForwardPart!Older(p), rest) /\ again' = again
         /\ heard' = heard \/ heard' = heard \cup {<<r, ForwardPart!Key(ForwardPart!Older(p))>>}
  BY <1>2, <1>3, Zenon
<1> HIDE DEF r, p, rest
<1>6. CASE air' = rest /\ UNCHANGED <<fwcache, forgotten, heard, again>>
  <2>1. air' \subseteq air
    BY <1>1, <1>6
  <2> QED BY <1>6, <2>1, DroppedKeeps, Zenon
<1> DEFINE m == ForwardPart!Older(ForwardPart!TimeExceeded(r, p))
           o == ForwardPart!Older(p)
<1> HIDE DEF m, o
<1>7. CASE ForwardPart!Output(r, m, rest) /\ UNCHANGED <<heard, again>>
  BY <1>1, <1>4, <1>7, OutputKeeps, Zenon DEF m
<1>8. CASE /\ ForwardPart!Output(r, o, rest) /\ again' = again
           /\ heard' = heard \/ heard' = heard \cup {<<r, ForwardPart!Key(o)>>}
  BY <1>1, <1>3, <1>8, OutputKeeps, Zenon DEF o
<1> QED BY <1>5, <1>6, <1>7, <1>8, Zenon DEF m, o

\* The second half of a segment is not taken for the first one, so both are registered; the first
\* may be forgotten for the second, which has the same key.
LEMMA SendKeeps == ASSUME FwInv, ForwardPart!SendPacket PROVE FwInv'
<1> PICK r \in Routers, dst \in ForwardPart!Destinations, proto \in {"tcp", "icmp", "udp"}, full \in BOOLEAN :
       LET p == [id |-> sentCount', src |-> r, dst |-> dst, proto |-> proto, ttl |-> Ttl, sum |-> conf.first, half |-> 0]
           first == [p EXCEPT !.half = 1]
           second == [p EXCEPT !.half = 2]
       IN  /\ r # dst /\ (dst = "all" <=> proto = "udp") /\ (full => proto = "tcp")
           /\ IF full
              THEN /\ ForwardPart!NewCache(r, ForwardPart!Registered(ForwardPart!Registered(fwcache[r], first), second))
                   /\ air' = air \cup ForwardPart!Frames(r, first) \cup ForwardPart!Frames(r, second)
              ELSE ForwardPart!Output(r, p, air)
           /\ heard' = IF dst = "all" THEN heard \cup {<<r, ForwardPart!Key(p)>>} ELSE heard
  BY Zenon DEF ForwardPart!SendPacket
<1>1. again' = again
  BY Zenon DEF ForwardPart!SendPacket
<1> DEFINE p == [id |-> sentCount', src |-> r, dst |-> dst, proto |-> proto, ttl |-> Ttl, sum |-> conf.first, half |-> 0]
           first == [p EXCEPT !.half = 1]
           second == [p EXCEPT !.half = 2]
<1>2. IsPacket(p)
  BY DEF IsPacket, KeyFields
<1>3. IsPacket(first) /\ IsPacket(second)
  <2>1. \A q, h : IsPacket(q) => IsPacket([q EXCEPT !.half = h])
    BY DEF IsPacket
  <2> HIDE DEF p
  <2> QED BY <1>2, <2>1, SMTT(30)
<1> HIDE DEF p, first, second
<1>4. CASE ~full
  <2>1. ForwardPart!Output(r, p, air)
    BY <1>4, Zenon DEF p
  <2>2. heard' = heard \/ heard' = heard \cup {<<r, ForwardPart!Key(p)>>}
    BY Zenon DEF p
  <2>3. air \in SUBSET air
    OBVIOUS
  <2> QED BY <1>1, <1>2, <2>1, <2>2, <2>3, OutputKeeps, Zenon
<1>5. CASE full
  <2> DEFINE one == ForwardPart!Registered(fwcache[r], first)
             two == ForwardPart!Registered(one, second)
  <2>1. IsCacheOf(fwcache[r])
    BY Zenon DEF FwInv
  <2>2. IsCacheOf(one) /\ IsCacheOf(two)
    BY <2>1, RegisteredIs, Zenon
  <2>3. /\ ForwardPart!NewCache(r, two)
        /\ air' = air \cup ForwardPart!Frames(r, first) \cup ForwardPart!Frames(r, second)
    BY <1>5, Zenon DEF p, first, second
  <2>4. heard' = heard
    <3>1. proto # "udp"
      BY <1>5
    <3>2. dst # "all"
      BY <3>1, Zenon
    <3> QED BY <3>2, Zenon
  <2>5. \A f \in air' : f.to \in Routers /\ IsPacket(f.packet)
    BY <1>3, <2>3, FramesGoTo, Zenon DEF FwInv
  <2> HIDE DEF one, two
  <2> DEFINE more == {}
  <2>6. (\A k \in more : k \in ForwardPart!Keys(two)) /\ heard' = heard \cup {<<r, k>> : k \in more}
    BY <2>4
  <2> HIDE DEF more
  <2> QED BY <1>1, <2>2, <2>3, <2>5, <2>6, NewCacheKeeps, Zenon
<1> QED BY <1>4, <1>5

LEMMA FwPeriodicKeeps == ASSUME FwInv, ForwardPart!FwPeriodic PROVE FwInv'
<1> DEFINE less(e) == IF e.timer <= 1 THEN ForwardPart!Empty ELSE [e EXCEPT !.timer = @ - 1]
           aged(r) == [i \in 1 .. CacheSize |-> less(fwcache[r][i])]
<1>1. PICK r \in Routers : ForwardPart!NewCache(r, aged(r))
  BY Zenon DEF ForwardPart!FwPeriodic
<1>2. UNCHANGED <<air, heard, again>>
  BY Zenon DEF ForwardPart!FwPeriodic
<1>3. IsCacheOf(aged(r))
  <2>1. \A i \in 1 .. CacheSize : less(fwcache[r][i]).timer \in Nat
    <3> SUFFICES ASSUME NEW i \in 1 .. CacheSize PROVE less(fwcache[r][i]).timer \in Nat
      OBVIOUS
    <3> DEFINE e == fwcache[r][i]
    <3>1. e.timer \in Nat
      BY DEF FwInv, IsCacheOf, FwPlaces
    <3> HIDE DEF e
    <3>2. CASE e.timer <= 1
      BY <3>2 DEF ForwardPart!Empty, e
    <3>3. CASE ~(e.timer <= 1)
      <4>1. "timer" \in DOMAIN e => [e EXCEPT !.timer = @ - 1].timer = e.timer - 1
        OBVIOUS
      <4> QED BY <3>1, <3>3, <4>1 DEF e
    <3> QED BY <3>2, <3>3
  <2> HIDE DEF less
  <2> QED BY <2>1 DEF IsCacheOf, FwPlaces
<1> DEFINE cache == aged(r)
           more == {}
<1>4. (\A k \in more : k \in ForwardPart!Keys(cache)) /\ heard' = heard \cup {<<r, k>> : k \in more}
  BY <1>2
<1>5. \A f \in air' : f.to \in Routers /\ IsPacket(f.packet)
  BY <1>2 DEF FwInv
<1> HIDE DEF cache, more
<1> QED BY <1>1, <1>2, <1>3, <1>4, <1>5, NewCacheKeeps, Zenon DEF cache

LEMMA FwStarts == ForwardPart!ForwardInit => FwInv
<1> SUFFICES ASSUME ForwardPart!ForwardInit PROVE FwInv
  OBVIOUS
<1>1. /\ fwcache = [r \in Routers |-> [i \in 1 .. CacheSize |-> ForwardPart!Empty]]
      /\ air = {} /\ heard = {} /\ again = {}
  BY DEF ForwardPart!ForwardInit
<1> DEFINE none == ForwardPart!Empty
<1>2. none.timer \in Nat
  BY DEF ForwardPart!Empty
<1> HIDE DEF none
<1>3. \A r \in Routers : IsCacheOf(fwcache[r])
  <2>1. \A r \in Routers : fwcache[r] = [i \in 1 .. CacheSize |-> none]
    BY <1>1, Zenon DEF none
  <2> QED BY <1>2, <2>1, Zenon DEF IsCacheOf, FwPlaces
<1> QED BY <1>1, <1>3, Zenon DEF FwInv

LEMMA FwStep == FwInv /\ [ForwardPart!ForwardNext]_forward => FwInv'
<1> SUFFICES ASSUME FwInv, [ForwardPart!ForwardNext]_forward PROVE FwInv'
  OBVIOUS
<1>1. CASE ForwardPart!Receive
  BY <1>1, ReceiveKeeps
<1>2. CASE ForwardPart!SendPacket
  BY <1>2, SendKeeps
<1>3. CASE ForwardPart!FwPeriodic
  BY <1>3, FwPeriodicKeeps
<1>4. CASE UNCHANGED forward
  <2>1. air' \subseteq air /\ UNCHANGED <<fwcache, heard, forgotten, again>>
    BY <1>4 DEF forward
  <2> QED BY <2>1, DroppedKeeps, Zenon
<1> QED BY <1>1, <1>2, <1>3, <1>4, Zenon DEF ForwardPart!ForwardNext

\* A broadcast that a router has sent or passed on does not get to its own stack while its cache has
\* not forgotten it, whatever the routers' loops and however the packets overtake each other.
THEOREM HeardOnceHolds == ForwardPart!ForwardSpec => []HeardOnce
<1>2. FwInv => HeardOnce
  BY Zenon DEF FwInv, HeardOnce, ForwardPart!HeardOnce
<1>3. FwInv /\ [ForwardPart!ForwardNext]_(ForwardPart!fwVars) => FwInv'
  BY FwStep DEF ForwardPart!fwVars, forward
<1> QED BY <1>2, <1>3, FwStarts, PTL DEF ForwardPart!ForwardSpec
=============================================================================
