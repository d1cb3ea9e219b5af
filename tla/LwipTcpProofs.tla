--------------------------- MODULE LwipTcpProofs ---------------------------
(***************************************************************************)
(* The current connection of the lwIP build, for any number of             *)
(* connections, any sizes of the buffers and any time limit.               *)
(***************************************************************************)
EXTENDS LwipTcp, SequenceTheorems, TLAPS

(* The parts of the invariants, of a state x that an operator may have     *)
(* left in the middle of a step.                                           *)
LiveIn(x, c) == x.pcb[c].st \in {"SYN_SENT", "OPEN"}

\* A connection that lwIP calls back for has a connection state and callbacks; one that was never
\* used is as new, is not the current one and has nothing in the buffers.
Wired(x) ==
  /\ \A c \in Pcbs : /\ LiveIn(x, c) => x.pcb[c].arg # NoArg /\ x.pcb[c].cb # "none"
                     /\ x.pcb[c].st = "unused" => x.pcb[c] = NewPcb
  /\ x.myPcb # NoConn => x.pcb[x.myPcb].st # "unused"
  /\ \A i \in Ids : \A k \in 1 .. Len(x.slot[i].buf) : x.pcb[x.slot[i].buf[k][1]].st # "unused"

Typed(x) ==
  /\ x \in StateType /\ \A i \in Ids : Len(x.slot[i].buf) <= BufSize
  /\ Wired(x)

\* Whatever is open and not current is delayed, alone, and has the other connection state.
Alone(x) ==
  /\ \A c \in Pcbs : LiveIn(x, c) =>
       IF c = x.myPcb THEN x.pcb[c].arg = x.active /\ ~x.pcb[c].pending
       ELSE /\ x.pcb[c].st = "OPEN" /\ x.pcb[c].pending
            /\ x.pcb[c].arg = 1 - x.active /\ x.pcb[c].poll = "closed_port"
  /\ \A c, d \in Pcbs : x.pcb[c].pending /\ x.pcb[d].pending => c = d
  /\ \A c \in Pcbs : x.pcb[c].st # "LISTEN"

Told(x) == x.slot[x.active].connected <=> x.myPcb # NoConn /\ x.pcb[x.myPcb].st = "OPEN"

UnreadIn(x, c) == [k \in 1 .. x.pcb[c].rcvd - x.pcb[c].taken |-> <<c, x.pcb[c].taken + k>>]

\* The buffers hold what is unread, and nothing of a connection that is open elsewhere.
Kept(x) ==
  /\ \A c \in Pcbs : LiveIn(x, c) =>
       x.pcb[c].taken <= x.pcb[c].rcvd /\ x.slot[x.pcb[c].arg].buf = UnreadIn(x, c)
  /\ \A i \in Ids : \A k \in 1 .. Len(x.slot[i].buf) :
       LET c == x.slot[i].buf[k][1]
       IN  LiveIn(x, c) => x.pcb[c].arg = i

One(x) == Alone(x) /\ Told(x) /\ Kept(x)

\* No time limit passes: the handle is of a live connection.
Held(x) == x.myPcb # NoConn => LiveIn(x, x.myPcb) /\ x.pcb[x.myPcb].arg = x.active
Still(x) == \A i \in Ids : x.slot[i].quiet = 0 /\ x.slot[i].since = 0

(* The inductive invariants.                                               *)
TypeInv ==
  /\ Typed(s) /\ user \in UserType /\ (user.pc = "writing" => user.pcb # NoConn)
  /\ struck \in BOOLEAN
OneInv == TypeInv /\ (~struck => One(s))
HandleInv == TypeInv /\ Held(s) /\ Still(s)

-----------------------------------------------------------------------------
(* What a step that ends connection c changes, and what it changes when it *)
(* keeps to the connection state of c.                                     *)
Ends(x, y, c) ==
  /\ y \in StateType /\ y.active = x.active /\ y.myPcb \in {x.myPcb, NoConn}
  /\ \A d \in Pcbs \ {c} : y.pcb[d] = x.pcb[d]
  /\ y.pcb[c].st \in {"CLOSING", "gone"} /\ (y.pcb[c].pending => x.pcb[c].pending)
  /\ \A i \in Ids : /\ y.slot[i].buf \in {<< >>, x.slot[i].buf}
                    /\ y.slot[i].connected => x.slot[i].connected
                    /\ y.slot[i].quiet \in {0, x.slot[i].quiet} /\ y.slot[i].since = x.slot[i].since

Locally(x, y, c) ==
  /\ y.myPcb # x.myPcb => x.myPcb = c \/ x.pcb[c].arg = x.active
  /\ \A i \in Ids : /\ i # x.pcb[c].arg => y.slot[i] = x.slot[i]
                    /\ i = x.pcb[c].arg => ~y.slot[i].connected

-----------------------------------------------------------------------------
(* The parts of a state, and what one field of it changes.                 *)
LEMMA StateParts ==
  ASSUME NEW x \in StateType
  PROVE  /\ x.myPcb \in Pcbs \cup {NoConn} /\ x.active \in Ids
         /\ x.slot \in [Ids -> SlotType] /\ x.pcb \in [Pcbs -> PcbType]
         /\ \A i \in Ids : x.slot[i] \in SlotType
         /\ \A c \in Pcbs : x.pcb[c] \in PcbType
BY DEF StateType

LEMMA SlotParts ==
  ASSUME NEW r \in SlotType
  PROVE  /\ r.connected \in BOOLEAN /\ r.accepted \in BOOLEAN
         /\ r.buf \in Seq(Pcbs \X (1 .. MaxRcvd))
         /\ r.quiet \in 0 .. Timeout + 1 /\ r.since \in 0 .. Timeout + 1
BY DEF SlotType

LEMMA PcbParts ==
  ASSUME NEW r \in PcbType
  PROVE  /\ r.st \in {"unused", "LISTEN", "CLOSED", "SYN_SENT", "OPEN", "CLOSING", "gone"}
         /\ r.arg \in Ids \cup {NoArg} /\ r.cb \in {"server", "client", "none"}
         /\ r.poll \in {"serverTimeouts", "closed_port", "none"}
         /\ r.pending \in BOOLEAN /\ r.busy \in BOOLEAN /\ r.refused \in BOOLEAN /\ r.fin \in BOOLEAN
         /\ r.rcvd \in 0 .. MaxRcvd /\ r.taken \in 0 .. MaxRcvd
BY DEF PcbType

LEMMA SlotUpdate ==
  ASSUME NEW x \in StateType, NEW id \in Ids, NEW q \in SlotType,
         NEW y, y = [x EXCEPT !.slot = [x.slot EXCEPT ![id] = q]]
  PROVE  /\ y \in StateType /\ y.active = x.active /\ y.myPcb = x.myPcb /\ y.pcb = x.pcb
         /\ y.slot[id] = q /\ \A i \in Ids \ {id} : y.slot[i] = x.slot[i]
BY DEF StateType

LEMMA MyPcbUpdate ==
  ASSUME NEW x \in StateType, NEW c \in Pcbs \cup {NoConn}, NEW y, y = [x EXCEPT !.myPcb = c]
  PROVE  /\ y \in StateType /\ y.active = x.active /\ y.myPcb = c /\ y.slot = x.slot /\ y.pcb = x.pcb
BY DEF StateType

LEMMA SetConnectedField ==
  ASSUME NEW r \in SlotType, NEW b \in BOOLEAN, NEW q, q = [r EXCEPT !.connected = b]
  PROVE  /\ q \in SlotType /\ q.connected = b /\ q.accepted = r.accepted /\ q.buf = r.buf
         /\ q.quiet = r.quiet /\ q.since = r.since
BY Zenon DEF SlotType

LEMMA SetStField ==
  ASSUME NEW r \in PcbType, NEW q,
         NEW st \in {"unused", "LISTEN", "CLOSED", "SYN_SENT", "OPEN", "CLOSING", "gone"},
         q = [r EXCEPT !.st = st]
  PROVE  /\ q \in PcbType /\ q.st = st /\ q.arg = r.arg /\ q.cb = r.cb /\ q.poll = r.poll
         /\ q.pending = r.pending /\ q.rcvd = r.rcvd /\ q.taken = r.taken
         /\ q.refused = r.refused
BY DEF PcbType

LEMMA SetPendingField ==
  ASSUME NEW r \in PcbType, NEW b \in BOOLEAN, NEW q, q = [r EXCEPT !.pending = b]
  PROVE  /\ q \in PcbType /\ q.st = r.st /\ q.arg = r.arg /\ q.cb = r.cb /\ q.poll = r.poll
         /\ q.pending = b /\ q.rcvd = r.rcvd /\ q.taken = r.taken
         /\ q.refused = r.refused
BY DEF PcbType

LEMMA SetQuietField ==
  ASSUME NEW r \in SlotType
  PROVE  LET q == [r EXCEPT !.quiet = 0]
         IN  /\ q \in SlotType /\ q.connected = r.connected /\ q.accepted = r.accepted
             /\ q.buf = r.buf /\ q.quiet = 0 /\ q.since = r.since
<1>1. 0 \in 0 .. Timeout + 1
  BY LwipAssumption
<1> QED
  BY <1>1, Zenon DEF SlotType

-----------------------------------------------------------------------------
(* lwIP's calls and the small steps of the callbacks.                      *)
LEMMA RemoveFacts ==
  ASSUME NEW x \in StateType, NEW c \in Pcbs, NEW y, y = Remove(x, c)
  PROVE  /\ y \in StateType /\ y.active = x.active /\ y.myPcb = x.myPcb /\ y.slot = x.slot
         /\ \A d \in Pcbs \ {c} : y.pcb[d] = x.pcb[d]
         /\ y.pcb[c].st = "gone" /\ y.pcb[c].pending = FALSE
         /\ y.pcb[c].arg = x.pcb[c].arg /\ y.pcb[c].cb = x.pcb[c].cb
<1> DEFINE p == x.pcb[c]
           q == [p EXCEPT !.st = "gone"]
           r == [q EXCEPT !.pending = FALSE]
<1>1. p \in PcbType
  BY StateParts
<1>2. y = [x EXCEPT !.pcb = [x.pcb EXCEPT ![c] = r]]
  BY Zenon DEF Remove, StateType
<1>3. q = [p EXCEPT !.st = "gone"]
  OBVIOUS
<1>4. r = [q EXCEPT !.pending = FALSE]
  OBVIOUS
<1>5. x.pcb[c] = p
  OBVIOUS
<1> HIDE DEF p, q, r
<1>6. q \in PcbType /\ q.st = "gone" /\ q.arg = p.arg /\ q.cb = p.cb
  BY <1>1, <1>3, SetStField
<1>7. r \in PcbType /\ r.st = q.st /\ r.arg = q.arg /\ r.cb = q.cb /\ r.pending = FALSE
  BY <1>4, <1>6, SetPendingField, ZenonT(40)
<1>8. /\ y \in StateType /\ y.active = x.active /\ y.myPcb = x.myPcb /\ y.slot = x.slot
      /\ y.pcb[c] = r /\ \A d \in Pcbs \ {c} : y.pcb[d] = x.pcb[d]
  BY <1>2, <1>7 DEF StateType
<1> QED
  BY <1>5, <1>6, <1>7, <1>8

LEMMA ConnectedFacts ==
  ASSUME NEW x \in StateType, NEW id \in Ids \cup {NoArg}, NEW b \in BOOLEAN,
         NEW y, y = SetConnected(x, id, b)
  PROVE  /\ y \in StateType /\ y.active = x.active /\ y.myPcb = x.myPcb /\ y.pcb = x.pcb
         /\ \A i \in Ids : /\ i # id => y.slot[i] = x.slot[i]
                           /\ i = id => y.slot[i].connected = b
                           /\ y.slot[i].buf = x.slot[i].buf
                           /\ y.slot[i].quiet = x.slot[i].quiet /\ y.slot[i].since = x.slot[i].since
<1>1. CASE id = NoArg
  <2>1. y = x
    BY <1>1 DEF SetConnected
  <2>2. \A i \in Ids : i # id
    BY <1>1 DEF Ids, NoArg
  <2> QED
    BY <2>1, <2>2
<1>2. CASE id # NoArg
  <2> DEFINE q == [x.slot[id] EXCEPT !.connected = b]
  <2>1. id \in Ids /\ x.slot[id] \in SlotType
    BY <1>2, StateParts
  <2>2. /\ q \in SlotType /\ q.connected = b /\ q.buf = x.slot[id].buf
        /\ q.quiet = x.slot[id].quiet /\ q.since = x.slot[id].since
    BY <2>1, SetConnectedField
  <2>3. y = [x EXCEPT !.slot = [x.slot EXCEPT ![id] = q]]
    BY <1>2 DEF SetConnected
  <2> HIDE DEF q
  <2> QED
    BY <2>1, <2>2, <2>3, SlotUpdate
<1> QED
  BY <1>1, <1>2

Disconnect(x, id) == SetConnected(x, id, FALSE)

LEMMA DisconnectedFacts ==
  ASSUME NEW x \in StateType, NEW id \in Ids \cup {NoArg}, NEW y, y = Disconnect(x, id)
  PROVE  /\ y \in StateType /\ y.active = x.active /\ y.myPcb = x.myPcb /\ y.pcb = x.pcb
         /\ \A i \in Ids : /\ i # id => y.slot[i] = x.slot[i]
                           /\ i = id => ~y.slot[i].connected
                           /\ y.slot[i].buf = x.slot[i].buf
                           /\ y.slot[i].quiet = x.slot[i].quiet /\ y.slot[i].since = x.slot[i].since
<1> DEFINE b == FALSE
           z == SetConnected(x, id, b)
<1>1. b \in BOOLEAN /\ y = z /\ b = FALSE /\ z = SetConnected(x, id, b)
  BY DEF Disconnect
<1> HIDE DEF b, z
<1>2. /\ z \in StateType /\ z.active = x.active /\ z.myPcb = x.myPcb /\ z.pcb = x.pcb
      /\ \A i \in Ids : /\ i # id => z.slot[i] = x.slot[i]
                        /\ i = id => z.slot[i].connected = b
                        /\ z.slot[i].buf = x.slot[i].buf
                        /\ z.slot[i].quiet = x.slot[i].quiet /\ z.slot[i].since = x.slot[i].since
  BY <1>1, ConnectedFacts
<1> QED
  BY <1>1, <1>2

LEMMA HeardFacts ==
  ASSUME NEW x \in StateType, NEW id \in Ids \cup {NoArg}, NEW y, y = Heard(x, id)
  PROVE  /\ y \in StateType /\ y.active = x.active /\ y.myPcb = x.myPcb /\ y.pcb = x.pcb
         /\ \A i \in Ids : /\ i # id => y.slot[i] = x.slot[i]
                           /\ i = id => y.slot[i].quiet = 0
                           /\ y.slot[i].connected = x.slot[i].connected
                           /\ y.slot[i].buf = x.slot[i].buf /\ y.slot[i].since = x.slot[i].since
<1>1. CASE id = NoArg
  <2>1. y = x
    BY <1>1 DEF Heard
  <2>2. \A i \in Ids : i # id
    BY <1>1 DEF Ids, NoArg
  <2> QED
    BY <2>1, <2>2
<1>2. CASE id # NoArg
  <2> DEFINE q == [x.slot[id] EXCEPT !.quiet = 0]
  <2>1. id \in Ids /\ x.slot[id] \in SlotType
    BY <1>2, StateParts
  <2>2. /\ q \in SlotType /\ q.quiet = 0 /\ q.buf = x.slot[id].buf
        /\ q.connected = x.slot[id].connected /\ q.since = x.slot[id].since
    BY <2>1, SetQuietField
  <2>3. y = [x EXCEPT !.slot = [x.slot EXCEPT ![id] = q]]
    BY <1>2 DEF Heard
  <2> HIDE DEF q
  <2> QED
    BY <2>1, <2>2, <2>3, SlotUpdate
<1> QED
  BY <1>1, <1>2

LEMMA ForgetFacts ==
  ASSUME NEW x \in StateType, NEW c \in Pcbs, NEW y, y = Forget(x, c)
  PROVE  /\ y \in StateType /\ y.active = x.active /\ y.slot = x.slot /\ y.pcb = x.pcb
         /\ y.myPcb = IF x.myPcb = c THEN NoConn ELSE x.myPcb
BY DEF Forget, StateType

LEMMA ErrorFacts ==
  ASSUME NEW x \in StateType, NEW id \in Ids \cup {NoArg}, NEW y, y = error_callback(x, id)
  PROVE  /\ y \in StateType /\ y.active = x.active /\ y.pcb = x.pcb
         /\ y.myPcb = IF id = x.active THEN NoConn ELSE x.myPcb
         /\ \A i \in Ids : /\ i # id => y.slot[i] = x.slot[i]
                           /\ i = id => ~y.slot[i].connected /\ y.slot[i].buf = << >>
                           /\ y.slot[i].quiet = x.slot[i].quiet /\ y.slot[i].since = x.slot[i].since
<1>1. CASE id = NoArg
  <2>1. y = x
    BY <1>1 DEF error_callback
  <2>2. (\A i \in Ids : i # id) /\ id # x.active
    BY <1>1, StateParts DEF Ids, NoArg
  <2> QED
    BY <2>1, <2>2
<1>2. CASE id # NoArg
  <2> DEFINE q == [x.slot[id] EXCEPT !.connected = FALSE]
             r == [q EXCEPT !.buf = << >>]
             z == [x EXCEPT !.slot = [x.slot EXCEPT ![id] = r]]
             m == IF id = x.active THEN NoConn ELSE x.myPcb
             e == << >>
  <2>1. id \in Ids /\ x.slot[id] \in SlotType /\ m \in Pcbs \cup {NoConn}
    BY <1>2, StateParts
  <2> DEFINE p == x.slot[id]
  <2>a. q = [p EXCEPT !.connected = FALSE] /\ p \in SlotType /\ p = x.slot[id]
    BY <2>1
  <2>b. r = [q EXCEPT !.buf = e] /\ e = << >>
    OBVIOUS
  <2>2. /\ q \in SlotType /\ q.connected = FALSE
        /\ q.quiet = x.slot[id].quiet /\ q.since = x.slot[id].since
    <3> HIDE DEF p, q
    <3> QED
      BY <2>a, SetConnectedField, ZenonT(40)
  <2>3. /\ r \in SlotType /\ r.connected = FALSE /\ r.buf = << >>
        /\ r.quiet = x.slot[id].quiet /\ r.since = x.slot[id].since
    <3>1. e \in Seq(Pcbs \X (1 .. MaxRcvd))
      BY EmptySeq
    <3> HIDE DEF p, q, r, e
    <3> QED
      BY <2>2, <2>b, <3>1, Zenon DEF SlotType
  <2>4. y = [z EXCEPT !.myPcb = m]
    BY <1>2, Zenon DEF error_callback, StateType
  <2> HIDE DEF r
  <2>5. /\ z \in StateType /\ z.active = x.active /\ z.myPcb = x.myPcb /\ z.pcb = x.pcb
        /\ z.slot[id] = r /\ \A i \in Ids \ {id} : z.slot[i] = x.slot[i]
    BY <2>1, <2>3, SlotUpdate
  <2> HIDE DEF z, m
  <2>6. /\ y \in StateType /\ y.active = z.active /\ y.myPcb = m /\ y.slot = z.slot /\ y.pcb = z.pcb
    BY <2>1, <2>4, <2>5, MyPcbUpdate
  <2> QED
    BY <2>3, <2>5, <2>6 DEF m
<1> QED
  BY <1>1, <1>2

LEMMA ReportFacts ==
  ASSUME NEW x \in StateType, NEW c \in Pcbs, NEW y, y = Report(x, c)
  PROVE  /\ Ends(x, y, c) /\ y.pcb[c].st = "gone"
         /\ x.pcb[c].cb # "none" =>
              Locally(x, y, c) /\ (x.pcb[c].arg = x.active => y.myPcb = NoConn)
         /\ x.pcb[c].cb = "none" => y.slot = x.slot /\ y.myPcb = x.myPcb
<1> DEFINE z == Remove(x, c)
           id == x.pcb[c].arg
<1>1. id \in Ids \cup {NoArg}
  BY StateParts, PcbParts
<1>2. /\ z \in StateType /\ z.active = x.active /\ z.myPcb = x.myPcb /\ z.slot = x.slot
      /\ \A d \in Pcbs \ {c} : z.pcb[d] = x.pcb[d]
      /\ z.pcb[c].st = "gone" /\ z.pcb[c].pending = FALSE
      /\ z.pcb[c].arg = x.pcb[c].arg /\ z.pcb[c].cb = x.pcb[c].cb
  BY RemoveFacts, ZenonT(40)
<1>3. y = IF x.pcb[c].cb = "none" THEN z ELSE error_callback(z, id)
  BY DEF Report
<1>4. x.myPcb \in Pcbs \cup {NoConn}
  BY StateParts
<1> HIDE DEF z, id
<1>5. CASE x.pcb[c].cb = "none"
  BY <1>2, <1>3, <1>4, <1>5 DEF Ends
<1>6. CASE x.pcb[c].cb # "none"
  <2>1. /\ y \in StateType /\ y.active = z.active /\ y.pcb = z.pcb
        /\ y.myPcb = IF id = z.active THEN NoConn ELSE z.myPcb
        /\ \A i \in Ids : /\ i # id => y.slot[i] = z.slot[i]
                          /\ i = id => ~y.slot[i].connected /\ y.slot[i].buf = << >>
                          /\ y.slot[i].quiet = z.slot[i].quiet /\ y.slot[i].since = z.slot[i].since
    BY <1>1, <1>2, <1>3, <1>6, ErrorFacts, SMTT(60)
  <2>2. Ends(x, y, c) /\ y.pcb[c].st = "gone"
    BY <1>2, <2>1 DEF Ends
  <2>3. Locally(x, y, c) /\ (id = x.active => y.myPcb = NoConn)
    BY <1>2, <2>1 DEF Locally, id
  <2> QED
    BY <1>6, <2>2, <2>3 DEF id
<1> QED
  BY <1>5, <1>6

LEMMA CloseFacts ==
  ASSUME NEW x \in StateType, NEW c \in Pcbs, NEW r \in tcp_close(x, c)
  PROVE  /\ r[1] \in BOOLEAN /\ r[2] \in StateType
         /\ r[2].active = x.active /\ r[2].myPcb = x.myPcb /\ r[2].slot = x.slot
         /\ \A d \in Pcbs \ {c} : r[2].pcb[d] = x.pcb[d]
         /\ r[2].pcb[c].arg = x.pcb[c].arg /\ r[2].pcb[c].cb = x.pcb[c].cb
         /\ r[2].pcb[c].pending => x.pcb[c].pending
         /\ ~r[1] => r[2] = x /\ x.pcb[c].st = "OPEN"
         /\ r[1] => IF x.pcb[c].st \in {"OPEN", "SYN_SENT", "LISTEN"}
                    THEN r[2].pcb[c].st \in {"CLOSING", "gone"} ELSE r[2] = x
<1> DEFINE y == [x EXCEPT !.pcb[c].st = "CLOSING"]
           z == Remove(x, c)
<1>1. \/ r = <<TRUE, y>> /\ x.pcb[c].st = "OPEN"
      \/ r = <<FALSE, x>> /\ x.pcb[c].st = "OPEN"
      \/ r = <<TRUE, z>> /\ x.pcb[c].st \in {"OPEN", "SYN_SENT", "LISTEN"}
      \/ r = <<TRUE, x>> /\ x.pcb[c].st \notin {"OPEN", "SYN_SENT", "LISTEN"}
  <2>1. x.pcb[c].refused \in BOOLEAN
    BY StateParts, PcbParts
  <2> HIDE DEF y, z
  <2> QED
    BY <2>1, Zenon DEF tcp_close, y, z
<1>2. /\ y \in StateType /\ y.active = x.active /\ y.myPcb = x.myPcb /\ y.slot = x.slot
      /\ \A d \in Pcbs \ {c} : y.pcb[d] = x.pcb[d]
      /\ y.pcb[c].arg = x.pcb[c].arg /\ y.pcb[c].cb = x.pcb[c].cb
      /\ y.pcb[c].st = "CLOSING" /\ y.pcb[c].pending = x.pcb[c].pending
  <2> DEFINE p == x.pcb[c]
             q == [p EXCEPT !.st = "CLOSING"]
  <2>1. p \in PcbType
    BY StateParts
  <2>2. q \in PcbType /\ q.arg = p.arg /\ q.cb = p.cb /\ q.st = "CLOSING" /\ q.pending = p.pending
    BY <2>1 DEF PcbType
  <2>3. y = [x EXCEPT !.pcb = [x.pcb EXCEPT ![c] = q]]
    OBVIOUS
  <2> HIDE DEF q, y
  <2> QED
    BY <2>2, <2>3 DEF StateType
<1>3. /\ z \in StateType /\ z.active = x.active /\ z.myPcb = x.myPcb /\ z.slot = x.slot
      /\ \A d \in Pcbs \ {c} : z.pcb[d] = x.pcb[d]
      /\ z.pcb[c].st = "gone" /\ z.pcb[c].pending = FALSE
      /\ z.pcb[c].arg = x.pcb[c].arg /\ z.pcb[c].cb = x.pcb[c].cb
  BY RemoveFacts, ZenonT(40)
<1> HIDE DEF y, z
<1>4. CASE r = <<TRUE, y>> /\ x.pcb[c].st = "OPEN"
  BY <1>2, <1>4
<1>5. CASE r = <<FALSE, x>> /\ x.pcb[c].st = "OPEN"
  BY <1>5
<1>6. CASE r = <<TRUE, z>> /\ x.pcb[c].st \in {"OPEN", "SYN_SENT", "LISTEN"}
  BY <1>3, <1>6
<1>7. CASE r = <<TRUE, x>> /\ x.pcb[c].st \notin {"OPEN", "SYN_SENT", "LISTEN"}
  BY <1>7
<1> QED
  BY <1>1, <1>4, <1>5, <1>6, <1>7, Zenon

(* The other side has closed.                                              *)
LEMMA PeerClosedFacts ==
  ASSUME NEW x \in StateType, NEW c \in Pcbs, x.pcb[c].st \in {"OPEN", "CLOSING"},
         x.pcb[c].cb # "none", NEW y \in PeerClosed(x, c)
  PROVE  /\ Ends(x, y, c) /\ Locally(x, y, c)
         /\ c = x.myPcb => y.myPcb = NoConn
<1> DEFINE id == x.pcb[c].arg
           a == Disconnect(x, id)
<1>1. PICK r \in tcp_close(a, c) : y = IF r[1] THEN Forget(r[2], c) ELSE Report(Forget(r[2], c), c)
  BY Zenon DEF PeerClosed, tcp_abort, Disconnect
<1>2. id \in Ids \cup {NoArg}
  BY StateParts, PcbParts, ZenonT(40)
<1>3. /\ a \in StateType /\ a.active = x.active /\ a.myPcb = x.myPcb /\ a.pcb = x.pcb
      /\ \A i \in Ids : /\ i # id => a.slot[i] = x.slot[i]
                        /\ i = id => ~a.slot[i].connected
                        /\ a.slot[i].buf = x.slot[i].buf
                        /\ a.slot[i].quiet = x.slot[i].quiet /\ a.slot[i].since = x.slot[i].since
  BY <1>2, DisconnectedFacts
<1> DEFINE z == r[2]
           f == Forget(z, c)
<1> HIDE DEF a
<1>4. /\ r[1] \in BOOLEAN /\ z \in StateType
      /\ z.active = a.active /\ z.myPcb = a.myPcb /\ z.slot = a.slot
      /\ \A d \in Pcbs \ {c} : z.pcb[d] = a.pcb[d]
      /\ z.pcb[c].arg = a.pcb[c].arg /\ z.pcb[c].cb = a.pcb[c].cb
      /\ z.pcb[c].pending => a.pcb[c].pending
      /\ r[1] => z.pcb[c].st \in {"CLOSING", "gone"}
  BY <1>3, CloseFacts
<1> HIDE DEF z
<1>5. /\ f \in StateType /\ f.active = z.active /\ f.slot = z.slot /\ f.pcb = z.pcb
      /\ f.myPcb = IF z.myPcb = c THEN NoConn ELSE z.myPcb
  BY <1>4, ForgetFacts
<1>6. x.myPcb \in Pcbs \cup {NoConn}
  BY StateParts
<1> HIDE DEF f
<1>7. CASE r[1]
  <2>1. y = f
    BY <1>1, <1>7, ZenonT(40) DEF f, z
  <2> HIDE DEF id
  <2>2. Ends(x, y, c)
    BY <1>3, <1>4, <1>5, <1>6, <1>7, <2>1 DEF Ends
  <2>3. Locally(x, y, c)
    BY <1>3, <1>4, <1>5, <1>6, <2>1 DEF Locally, id
  <2> QED
    BY <1>3, <1>4, <1>5, <1>6, <2>1, <2>2, <2>3, ZenonT(40)
<1>8. CASE ~r[1]
  <2>1. y = Report(f, c)
    BY <1>1, <1>8 DEF f, z
  <2>2. f.pcb[c].cb # "none" /\ f.pcb[c].arg = id
    BY <1>3, <1>4, <1>5, ZenonT(40)
  <2>3. Ends(f, y, c) /\ Locally(f, y, c)
    BY <1>5, <2>1, <2>2, ReportFacts, ZenonT(40)
  <2> HIDE DEF id
  <2>4. Ends(x, y, c)
    BY <1>3, <1>4, <1>5, <1>6, <2>3, SMTT(60) DEF Ends
  <2>5. Locally(x, y, c)
    BY <1>3, <1>4, <1>5, <1>6, <2>2, <2>3, SMTT(60) DEF Locally, id, Ends
  <2>6. c = x.myPcb => y.myPcb = NoConn
    BY <1>3, <1>4, <1>5, <2>3 DEF Ends
  <2> QED
    BY <2>4, <2>5, <2>6
<1> QED
  BY <1>4, <1>7, <1>8

(* The server's time limit, for a connection with a time limit.            *)
LEMMA TimeoutFacts ==
  ASSUME NEW x \in StateType, NEW c \in Pcbs, x.pcb[c].st \in {"SYN_SENT", "OPEN", "CLOSING"},
         NEW y \in serverTimeouts(x, c)
  PROVE  \/ y = x
         \/ /\ \E i \in Ids : x.slot[i].quiet > Timeout
            /\ Ends(x, y, c)
            /\ x.pcb[c].arg = x.active => Locally(x, y, c)
<1> DEFINE id == x.pcb[c].arg
<1>1. id \in Ids \cup {NoArg} /\ x.active \in Ids
  BY StateParts, PcbParts
<1>2. x.myPcb \in Pcbs \cup {NoConn}
  BY StateParts
<1>3. CASE id = NoArg \/ x.slot[id].quiet <= Timeout
  BY <1>3, Zenon DEF serverTimeouts
<1>4. CASE ~(id = NoArg \/ x.slot[id].quiet <= Timeout)
  <2>1. id \in Ids
    BY <1>1, <1>4
  <2>2. x.slot[id].quiet > Timeout
    <3>1. x.slot[id].quiet \in 0 .. Timeout + 1
      BY <2>1, StateParts, SlotParts, ZenonT(40)
    <3> QED
      BY <1>4, <3>1, LwipAssumption
  <2> DEFINE Closed(z) == [z EXCEPT !.slot[x.active].buf = << >>, !.slot[id].connected = FALSE]
  <2>3. PICK r \in tcp_close(x, c) :
          y = IF r[1] THEN [Closed(r[2]) EXCEPT !.myPcb = NoConn]
              ELSE Report([Forget(Closed(r[2]), c) EXCEPT !.pcb[c].arg = NoArg], c)
    BY <1>4, ZenonT(40) DEF serverTimeouts, tcp_abort
  <2> DEFINE z == r[2]
             a == Closed(z)
  <2>4. /\ r[1] \in BOOLEAN /\ z \in StateType
        /\ z.active = x.active /\ z.myPcb = x.myPcb /\ z.slot = x.slot
        /\ \A d \in Pcbs \ {c} : z.pcb[d] = x.pcb[d]
        /\ z.pcb[c].arg = x.pcb[c].arg /\ z.pcb[c].cb = x.pcb[c].cb
        /\ z.pcb[c].pending => x.pcb[c].pending
        /\ r[1] => z.pcb[c].st \in {"CLOSING", "gone"}
    BY CloseFacts
  <2> HIDE DEF z, id
  <2>5. /\ a \in StateType /\ a.active = x.active /\ a.myPcb = x.myPcb /\ a.pcb = z.pcb
        /\ \A i \in Ids : /\ i = id => ~a.slot[i].connected
                          /\ i # id => a.slot[i].connected = x.slot[i].connected
                          /\ i # x.active => a.slot[i].buf = x.slot[i].buf
                          /\ i = x.active => a.slot[i].buf = << >>
                          /\ i # id /\ i # x.active => a.slot[i] = x.slot[i]
                          /\ a.slot[i].quiet = x.slot[i].quiet /\ a.slot[i].since = x.slot[i].since
    <3> DEFINE e == << >>
               p == [z.slot[x.active] EXCEPT !.buf = e]
               u == [z.slot EXCEPT ![x.active] = p]
               q == [u[id] EXCEPT !.connected = FALSE]
               v == [u EXCEPT ![id] = q]
    <3>1. e \in Seq(Pcbs \X (1 .. MaxRcvd)) /\ e = << >>
      BY EmptySeq
    <3>2. z.slot \in [Ids -> SlotType]
      BY <2>4, StateParts
    <3> HIDE DEF e
    <3>3. /\ p \in SlotType /\ p.buf = e /\ p.connected = z.slot[x.active].connected
          /\ p.quiet = z.slot[x.active].quiet /\ p.since = z.slot[x.active].since
      <4>1. z.slot[x.active] \in SlotType
        BY <1>1, <3>2
      <4> QED
        BY <3>1, <4>1, Zenon DEF SlotType
    <3> HIDE DEF p
    <3>4. u \in [Ids -> SlotType] /\ u[x.active] = p /\ \A i \in Ids : i # x.active => u[i] = z.slot[i]
      BY <1>1, <3>2, <3>3
    <3> HIDE DEF u
    <3>5. /\ q \in SlotType /\ q.buf = u[id].buf /\ ~q.connected
          /\ q.quiet = u[id].quiet /\ q.since = u[id].since
      <4>1. u[id] \in SlotType
        BY <2>1, <3>4
      <4> QED
        BY <4>1, Zenon DEF SlotType
    <3> HIDE DEF q
    <3>6. v \in [Ids -> SlotType] /\ v[id] = q /\ \A i \in Ids : i # id => v[i] = u[i]
      BY <2>1, <3>4, <3>5
    <3>7. a = [z EXCEPT !.slot = v]
      BY <2>4, <3>1, ZenonT(40) DEF StateType, v, q, u, p, e
    <3> HIDE DEF v, a
    <3>8. a \in StateType /\ a.active = z.active /\ a.myPcb = z.myPcb /\ a.pcb = z.pcb /\ a.slot = v
      BY <2>4, <3>6, <3>7, ZenonT(40) DEF StateType
    <3> QED
      BY <2>4, <3>1, <3>3, <3>4, <3>5, <3>6, <3>8
  <2>6. CASE r[1]
    <3>1. y = [a EXCEPT !.myPcb = NoConn]
      BY <2>3, <2>6, ZenonT(40) DEF z
    <3> HIDE DEF a
    <3>2. /\ y \in StateType /\ y.active = a.active /\ y.myPcb = NoConn
          /\ y.slot = a.slot /\ y.pcb = a.pcb
      BY <2>5, <3>1 DEF StateType
    <3>3. Ends(x, y, c)
      BY <2>4, <2>5, <2>6, <3>2 DEF Ends
    <3>4. x.pcb[c].arg = x.active => Locally(x, y, c)
      BY <2>4, <2>5, <3>2 DEF Locally, id
    <3> QED
      BY <2>1, <2>2, <3>3, <3>4
  <2>7. CASE ~r[1]
    <3> DEFINE f == Forget(a, c)
               g == [f EXCEPT !.pcb[c].arg = NoArg]
    <3>1. y = Report(g, c)
      BY <2>3, <2>7, Zenon DEF z
    <3> HIDE DEF a
    <3>2. /\ f \in StateType /\ f.active = a.active /\ f.slot = a.slot /\ f.pcb = a.pcb
          /\ f.myPcb = IF a.myPcb = c THEN NoConn ELSE a.myPcb
      BY <2>5, ForgetFacts
    <3> HIDE DEF f
    <3>3. /\ g \in StateType /\ g.active = f.active /\ g.myPcb = f.myPcb /\ g.slot = f.slot
          /\ \A d \in Pcbs \ {c} : g.pcb[d] = f.pcb[d]
          /\ g.pcb[c].arg = NoArg /\ g.pcb[c].pending = f.pcb[c].pending
      <4> DEFINE p == f.pcb[c]
                 q == [p EXCEPT !.arg = NoArg]
      <4>1. p \in PcbType
        BY <3>2, StateParts
      <4>2. q \in PcbType /\ q.arg = NoArg /\ q.pending = p.pending
        BY <4>1 DEF PcbType
      <4>3. g = [f EXCEPT !.pcb = [f.pcb EXCEPT ![c] = q]]
        BY ZenonT(40)
      <4> HIDE DEF q, g
      <4> QED
        BY <3>2, <4>2, <4>3 DEF StateType
    <3> HIDE DEF g
    <3>4. /\ Ends(g, y, c)
          /\ g.pcb[c].cb # "none" => Locally(g, y, c)
          /\ g.pcb[c].cb = "none" => y.slot = g.slot /\ y.myPcb = g.myPcb
      BY <3>1, <3>3, ReportFacts, ZenonT(40)
    <3>5. Ends(x, y, c)
      BY <1>2, <2>4, <2>5, <3>2, <3>3, <3>4, SMTT(60) DEF Ends
    <3>6. y.myPcb # x.myPcb => x.myPcb = c
      <4>1. NoArg # x.active
        BY <1>1 DEF Ids, NoArg
      <4> QED
        BY <2>5, <3>2, <3>3, <3>4, <4>1 DEF Locally
    <3>7. \A i \in Ids : y.slot[i] = g.slot[i]
      <4>1. \A i \in Ids : i # NoArg
        BY DEF Ids, NoArg
      <4> QED
        BY <3>3, <3>4, <4>1 DEF Locally
    <3>8. x.pcb[c].arg = x.active => Locally(x, y, c)
      BY <2>5, <3>2, <3>3, <3>6, <3>7, SMTT(60) DEF Locally, id
    <3> QED
      BY <2>1, <2>2, <3>5, <3>8
  <2> QED
    BY <2>4, <2>6, <2>7, ZenonT(40)
<1> QED
  BY <1>3, <1>4

(* A delayed connection is left alone, becomes the current one, or is over. *)
Promoted(x, y, c) ==
  /\ y \in StateType /\ x.myPcb = NoConn /\ y.myPcb = c /\ y.active = x.pcb[c].arg
  /\ x.pcb[c].st = "OPEN" /\ x.pcb[c].arg \in Ids
  /\ \A d \in Pcbs \ {c} : y.pcb[d] = x.pcb[d]
  /\ y.pcb[c].st = "OPEN" /\ y.pcb[c].arg = x.pcb[c].arg /\ y.pcb[c].cb = x.pcb[c].cb
  /\ y.pcb[c].pending = FALSE /\ y.pcb[c].rcvd = x.pcb[c].rcvd /\ y.pcb[c].taken = x.pcb[c].taken
  /\ \A i \in Ids : /\ i # x.pcb[c].arg => y.slot[i] = x.slot[i]
                    /\ i = x.pcb[c].arg => y.slot[i].connected = TRUE
                    /\ y.slot[i].buf = x.slot[i].buf /\ y.slot[i].quiet = x.slot[i].quiet
                    /\ y.slot[i].since \in {0, x.slot[i].since}

AcceptIn(x, c) == [x EXCEPT !.pcb[c].pending = FALSE, !.slot[x.pcb[c].arg].accepted = TRUE]
PromoteIn(x, c, id) ==
  [x EXCEPT !.slot[id].since = 0, !.slot[id].connected = TRUE, !.myPcb = c, !.active = id]

Accepted(x, y, c) ==
  /\ y \in StateType /\ y.active = x.active /\ y.myPcb = x.myPcb
  /\ \A d \in Pcbs \ {c} : y.pcb[d] = x.pcb[d]
  /\ y.pcb[c].st = x.pcb[c].st /\ y.pcb[c].arg = x.pcb[c].arg /\ y.pcb[c].cb = x.pcb[c].cb
  /\ y.pcb[c].pending => x.pcb[c].pending
  /\ \A i \in Ids : /\ i # x.pcb[c].arg => y.slot[i] = x.slot[i]
                    /\ y.slot[i].buf = x.slot[i].buf /\ y.slot[i].quiet = x.slot[i].quiet
                    /\ y.slot[i].since = x.slot[i].since

LEMMA AcceptedFacts ==
  ASSUME NEW x \in StateType, NEW c \in Pcbs, x.pcb[c].arg # NoArg, NEW y, y = AcceptIn(x, c)
  PROVE  /\ Accepted(x, y, c) /\ y.pcb[c].pending = FALSE /\ y.pcb[c].rcvd = x.pcb[c].rcvd
         /\ y.pcb[c].taken = x.pcb[c].taken
<1> DEFINE id == x.pcb[c].arg
           p == x.pcb[c]
           q == [p EXCEPT !.pending = FALSE]
           r == [x.slot[id] EXCEPT !.accepted = TRUE]
           u == [x.pcb EXCEPT ![c] = q]
           v == [x.slot EXCEPT ![id] = r]
<1>1. p \in PcbType /\ x.pcb \in [Pcbs -> PcbType] /\ x.slot \in [Ids -> SlotType]
  BY StateParts
<1>2. id \in Ids
  BY StateParts, PcbParts
<1>3. /\ q \in PcbType /\ q.st = p.st /\ q.arg = p.arg /\ q.cb = p.cb /\ q.pending = FALSE
      /\ q.rcvd = p.rcvd /\ q.taken = p.taken
  BY <1>1, Zenon DEF PcbType
<1>4. /\ r \in SlotType /\ r.buf = x.slot[id].buf /\ r.quiet = x.slot[id].quiet
      /\ r.since = x.slot[id].since
  <2>1. x.slot[id] \in SlotType
    BY <1>1, <1>2
  <2> QED
    BY <2>1, Zenon DEF SlotType
<1>5. y = [[x EXCEPT !.pcb = u] EXCEPT !.slot = v]
  BY ZenonT(40) DEF StateType, AcceptIn
<1> HIDE DEF q, r
<1>6. u \in [Pcbs -> PcbType] /\ u[c] = q /\ \A d \in Pcbs \ {c} : u[d] = x.pcb[d]
  BY <1>1, <1>3
<1>7. v \in [Ids -> SlotType] /\ v[id] = r /\ \A i \in Ids \ {id} : v[i] = x.slot[i]
  BY <1>1, <1>2, <1>4, ZenonT(40)
<1> HIDE DEF u, v
<1>8. y \in StateType /\ y.active = x.active /\ y.myPcb = x.myPcb /\ y.pcb = u /\ y.slot = v
  BY <1>5, <1>6, <1>7, ZenonT(40) DEF StateType
<1> QED
  BY <1>3, <1>4, <1>6, <1>7, <1>8 DEF Accepted

\* The three parts of Promoted.
HandlePromoted(x, y, c) ==
  /\ y \in StateType /\ x.myPcb = NoConn /\ y.myPcb = c /\ y.active = x.pcb[c].arg
  /\ x.pcb[c].st = "OPEN" /\ x.pcb[c].arg \in Ids
PcbPromoted(x, y, c) ==
  /\ \A d \in Pcbs \ {c} : y.pcb[d] = x.pcb[d]
  /\ y.pcb[c].st = "OPEN" /\ y.pcb[c].arg = x.pcb[c].arg /\ y.pcb[c].cb = x.pcb[c].cb
  /\ y.pcb[c].pending = FALSE /\ y.pcb[c].rcvd = x.pcb[c].rcvd /\ y.pcb[c].taken = x.pcb[c].taken
SlotPromoted(x, y, c) ==
  \A i \in Ids : /\ i # x.pcb[c].arg => y.slot[i] = x.slot[i]
                 /\ i = x.pcb[c].arg => y.slot[i].connected = TRUE
                 /\ y.slot[i].buf = x.slot[i].buf /\ y.slot[i].quiet = x.slot[i].quiet
                 /\ y.slot[i].since \in {0, x.slot[i].since}

LEMMA IsPromoted ==
  ASSUME NEW x, NEW y, NEW c,
         HandlePromoted(x, y, c), PcbPromoted(x, y, c), SlotPromoted(x, y, c)
  PROVE  Promoted(x, y, c)
BY Zenon DEF Promoted, HandlePromoted, PcbPromoted, SlotPromoted

LEMMA PromotedFacts ==
  ASSUME NEW x \in StateType, NEW c \in Pcbs, x.myPcb = NoConn, x.pcb[c].st = "OPEN",
         NEW id \in Ids, id = x.pcb[c].arg,
         NEW z \in StateType, Accepted(x, z, c), z.pcb[c].pending = FALSE,
         z.pcb[c].rcvd = x.pcb[c].rcvd, z.pcb[c].taken = x.pcb[c].taken,
         NEW y, y = PromoteIn(z, c, id)
  PROVE  Promoted(x, y, c)
<1> DEFINE p == z.slot[id]
           q == [p EXCEPT !.since = 0]
           r == [q EXCEPT !.connected = TRUE]
           v == [z.slot EXCEPT ![id] = r]
<1>1. z.slot \in [Ids -> SlotType] /\ p \in SlotType
  BY StateParts
<1>2. q \in SlotType /\ q.buf = p.buf /\ q.quiet = p.quiet /\ q.since = 0
  <2>1. 0 \in 0 .. Timeout + 1
    BY LwipAssumption, SMTT(60)
  <2> HIDE DEF p
  <2> QED
    BY <1>1, <2>1, Zenon DEF SlotType
<1>3. v = [z.slot EXCEPT ![id] = [[z.slot[id] EXCEPT !.since = 0] EXCEPT !.connected = TRUE]]
  OBVIOUS
<1>4. r \in SlotType /\ r.connected = TRUE /\ r.buf = q.buf /\ r.quiet = q.quiet /\ r.since = q.since
  <2> HIDE DEF q
  <2> QED
    BY <1>2, ZenonT(40) DEF SlotType
<1> HIDE DEF r
<1>5. v \in [Ids -> SlotType] /\ v[id] = r /\ \A i \in Ids \ {id} : v[i] = z.slot[i]
  BY <1>1, <1>4
<1> HIDE DEF v
<1>6. y \in StateType /\ y.active = id /\ y.myPcb = c /\ y.pcb = z.pcb /\ y.slot = v
  BY <1>3, <1>5, ZenonT(90) DEF StateType, PromoteIn
<1>7. /\ z.slot[id].buf = x.slot[id].buf /\ z.slot[id].quiet = x.slot[id].quiet
      /\ \A i \in Ids \ {id} : z.slot[i] = x.slot[i]
      /\ \A d \in Pcbs \ {c} : z.pcb[d] = x.pcb[d]
      /\ z.pcb[c].st = "OPEN" /\ z.pcb[c].arg = id /\ z.pcb[c].cb = x.pcb[c].cb
  BY Zenon DEF Accepted
<1> HIDE DEF p, q
<1>8. r.buf = x.slot[id].buf /\ r.quiet = x.slot[id].quiet /\ r.since = 0
  BY <1>2, <1>4, <1>7, Zenon DEF p
<1>9. ASSUME NEW i \in Ids
      PROVE  /\ i # id => y.slot[i] = x.slot[i]
             /\ i = id => y.slot[i].connected = TRUE
             /\ y.slot[i].buf = x.slot[i].buf /\ y.slot[i].quiet = x.slot[i].quiet
             /\ y.slot[i].since = 0 \/ y.slot[i].since = x.slot[i].since
  <2>1. CASE i = id
    BY <1>4, <1>5, <1>6, <1>8, <2>1, Zenon
  <2>2. CASE i # id
    <3>1. y.slot[i] = x.slot[i]
      BY <1>5, <1>6, <1>7, <2>2, ZenonT(40)
    <3> QED BY <2>2, <3>1, Zenon
  <2> QED BY <2>1, <2>2, Zenon
<1>10. \A i \in Ids : y.slot[i].since \in {0, x.slot[i].since}
  BY <1>9, Zenon
<1>11. PcbPromoted(x, y, c)
  BY <1>6, <1>7, Zenon DEF PcbPromoted
<1>12. SlotPromoted(x, y, c)
  BY <1>9, <1>10, Zenon DEF SlotPromoted
<1>13. HandlePromoted(x, y, c)
  BY <1>6, Zenon DEF HandlePromoted
<1> QED
  BY <1>11, <1>12, <1>13, IsPromoted, Zenon

LEMMA ClosedPortFacts ==
  ASSUME NEW x \in StateType, NEW c \in Pcbs,
         x.pcb[c].cb # "none", NEW y \in closed_port(x, c)
  PROVE  \/ y = x
         \/ Promoted(x, y, c)
         \/ /\ \E i \in Ids : x.slot[i].since > Timeout
            /\ Ends(x, y, c) /\ Locally(x, y, c)
<1> DEFINE id == x.pcb[c].arg
           z == AcceptIn(x, c)
           w == PromoteIn(z, c, id)
           u == IF x.slot[id].accepted THEN x ELSE z
<1>1. id \in Ids \cup {NoArg}
  BY StateParts, PcbParts
<1>2. x.myPcb \in Pcbs \cup {NoConn}
  BY StateParts
<1>3. \/ y = x
      \/ id # NoArg /\ x.pcb[c].st = "OPEN" /\ x.myPcb = NoConn /\ y = w
      \/ /\ id # NoArg /\ x.pcb[c].st = "OPEN" /\ x.slot[id].since > Timeout
         /\ \E r \in tcp_close(u, c) :
              y = IF r[1] THEN Disconnect(r[2], id) ELSE Report(Disconnect(r[2], id), c)
  <2> HIDE DEF w, u
  <2> QED
    BY Zenon DEF closed_port, Overdue, tcp_abort, AcceptIn, PromoteIn, Disconnect, w, u
<1>4. CASE id # NoArg /\ x.pcb[c].st = "OPEN" /\ x.myPcb = NoConn /\ y = w
  <2>1. /\ Accepted(x, z, c) /\ z.pcb[c].pending = FALSE
        /\ z.pcb[c].rcvd = x.pcb[c].rcvd /\ z.pcb[c].taken = x.pcb[c].taken
    BY <1>4, AcceptedFacts, Zenon
  <2>2. z \in StateType /\ id \in Ids /\ id = x.pcb[c].arg /\ w = PromoteIn(z, c, id)
    BY <1>1, <1>4, <2>1 DEF Accepted
  <2> HIDE DEF id, z, w
  <2>3. Promoted(x, w, c)
    BY <1>4, <2>1, <2>2, PromotedFacts, Zenon
  <2> QED
    BY <1>4, <2>3
<1>5. ASSUME id # NoArg, x.pcb[c].st = "OPEN", x.slot[id].since > Timeout,
             NEW r \in tcp_close(u, c),
             y = IF r[1] THEN Disconnect(r[2], id) ELSE Report(Disconnect(r[2], id), c)
      PROVE  Ends(x, y, c) /\ Locally(x, y, c)
  <2>1. Accepted(x, u, c)
    <3>1. Accepted(x, x, c)
      BY DEF Accepted
    <3>2. Accepted(x, z, c)
      BY <1>5, AcceptedFacts, Zenon
    <3> HIDE DEF z
    <3> QED
      BY <3>1, <3>2
  <2> HIDE DEF u
  <2> DEFINE v == r[2]
             a == Disconnect(v, id)
  <2>2. /\ r[1] \in BOOLEAN /\ v \in StateType
        /\ v.active = u.active /\ v.myPcb = u.myPcb /\ v.slot = u.slot
        /\ \A d \in Pcbs \ {c} : v.pcb[d] = u.pcb[d]
        /\ v.pcb[c].arg = u.pcb[c].arg /\ v.pcb[c].cb = u.pcb[c].cb
        /\ v.pcb[c].pending => u.pcb[c].pending
        /\ r[1] => v.pcb[c].st \in {"CLOSING", "gone"}
    <3>1. u \in StateType /\ u.pcb[c].st = "OPEN"
      BY <1>5, <2>1 DEF Accepted
    <3> QED
      BY <1>5, <3>1, CloseFacts, SMTT(60)
  <2> HIDE DEF v
  <2>3. /\ a \in StateType /\ a.active = v.active /\ a.myPcb = v.myPcb /\ a.pcb = v.pcb
        /\ \A i \in Ids : /\ i # id => a.slot[i] = v.slot[i]
                          /\ i = id => ~a.slot[i].connected
                          /\ a.slot[i].buf = v.slot[i].buf
                          /\ a.slot[i].quiet = v.slot[i].quiet /\ a.slot[i].since = v.slot[i].since
    <3>1. a = Disconnect(v, id)
      BY ZenonT(40)
    <3> HIDE DEF a, id
    <3> QED
      BY <1>1, <2>2, <3>1, DisconnectedFacts, SMTT(60)
  <2> HIDE DEF a
  <2>4. /\ a \in StateType /\ a.active = x.active /\ a.myPcb = x.myPcb
        /\ \A d \in Pcbs \ {c} : a.pcb[d] = x.pcb[d]
        /\ a.pcb[c].arg = id /\ a.pcb[c].cb # "none" /\ (a.pcb[c].pending => x.pcb[c].pending)
        /\ r[1] => a.pcb[c].st \in {"CLOSING", "gone"}
        /\ \A i \in Ids : /\ i # id => a.slot[i] = x.slot[i]
                          /\ i = id => ~a.slot[i].connected
                          /\ a.slot[i].buf = x.slot[i].buf
                          /\ a.slot[i].quiet = x.slot[i].quiet /\ a.slot[i].since = x.slot[i].since
    BY <2>1, <2>2, <2>3 DEF Accepted
  <2>5. CASE r[1]
    <3>1. y = a
      BY <1>5, <2>5 DEF a, v
    <3>2. Ends(x, y, c)
      BY <1>2, <2>4, <2>5, <3>1 DEF Ends
    <3>3. Locally(x, y, c)
      BY <2>4, <3>1 DEF Locally
    <3> QED
      BY <3>2, <3>3
  <2>6. CASE ~r[1]
    <3>1. y = Report(a, c)
      BY <1>5, <2>6 DEF a, v
    <3>2. Ends(a, y, c) /\ Locally(a, y, c)
      BY <2>4, <3>1, ReportFacts, ZenonT(40)
    <3> HIDE DEF id
    <3>3. Ends(x, y, c)
      BY <1>2, <2>4, <3>2, SMTT(60) DEF Ends
    <3>4. Locally(x, y, c)
      BY <2>4, <3>2 DEF Locally, Ends, id
    <3> QED
      BY <3>3, <3>4
  <2> QED
    BY <2>2, <2>5, <2>6
<1> HIDE DEF w, u
<1>6. CASE id # NoArg /\ x.pcb[c].st = "OPEN" /\ x.slot[id].since > Timeout
           /\ \E r \in tcp_close(u, c) :
                y = IF r[1] THEN Disconnect(r[2], id) ELSE Report(Disconnect(r[2], id), c)
  <2>1. id \in Ids
    BY <1>1, <1>6
  <2>2. Ends(x, y, c) /\ Locally(x, y, c)
    BY <1>5, <1>6
  <2> QED
    BY <1>6, <2>1, <2>2, ZenonT(40)
<1> QED
  BY <1>3, <1>4, <1>6

(* The current connection is closed and forgotten.                         *)
Released(x, y) ==
  /\ y \in StateType /\ y.active = x.active /\ y.myPcb = NoConn
  /\ \A d \in Pcbs : d # x.myPcb => y.pcb[d] = x.pcb[d]
  /\ x.myPcb # NoConn => /\ y.pcb[x.myPcb].st \in {"CLOSED", "CLOSING", "gone"}
                         /\ y.pcb[x.myPcb].pending => x.pcb[x.myPcb].pending
  /\ \A i \in Ids : /\ i # x.active => y.slot[i].buf = x.slot[i].buf
                    /\ i = x.active => ~y.slot[i].connected /\ y.slot[i].buf = << >>
                    /\ y.slot[i].quiet = x.slot[i].quiet /\ y.slot[i].since = x.slot[i].since

LetGo(x) ==
  [x EXCEPT !.myPcb = NoConn, !.slot[x.active].buf = << >>, !.slot[x.active].connected = FALSE]
Unhooked(x, c) == [x EXCEPT !.pcb[c].arg = NoArg, !.pcb[c].cb = "none"]

LEMMA LetGoFacts ==
  ASSUME NEW x \in StateType, NEW y, y = LetGo(x)
  PROVE  /\ y \in StateType /\ y.active = x.active /\ y.myPcb = NoConn /\ y.pcb = x.pcb
         /\ \A i \in Ids : /\ i # x.active => y.slot[i] = x.slot[i]
                           /\ i = x.active => ~y.slot[i].connected /\ y.slot[i].buf = << >>
                           /\ y.slot[i].quiet = x.slot[i].quiet /\ y.slot[i].since = x.slot[i].since
<1> DEFINE id == x.active
           e == << >>
           q == [x.slot[id] EXCEPT !.buf = e]
           r == [q EXCEPT !.connected = FALSE]
           v == [x.slot EXCEPT ![id] = r]
<1>1. id \in Ids /\ x.slot[id] \in SlotType /\ x.slot \in [Ids -> SlotType]
  BY StateParts
<1>2. e \in Seq(Pcbs \X (1 .. MaxRcvd)) /\ e = << >>
  BY EmptySeq
<1>3. y = [[x EXCEPT !.myPcb = NoConn] EXCEPT !.slot = v]
  BY Zenon DEF LetGo, StateType
<1> HIDE DEF e
<1>4. q \in SlotType /\ q.buf = e /\ q.quiet = x.slot[id].quiet /\ q.since = x.slot[id].since
  BY <1>1, <1>2, Zenon DEF SlotType
<1> HIDE DEF q
<1>5. r \in SlotType /\ ~r.connected /\ r.buf = e /\ r.quiet = q.quiet /\ r.since = q.since
  BY <1>4, Zenon DEF SlotType
<1> HIDE DEF r
<1>6. v \in [Ids -> SlotType] /\ v[id] = r /\ \A i \in Ids \ {id} : v[i] = x.slot[i]
  BY <1>1, <1>5
<1> HIDE DEF v
<1>7. y \in StateType /\ y.active = x.active /\ y.myPcb = NoConn /\ y.pcb = x.pcb /\ y.slot = v
  BY <1>3, <1>6, Zenon DEF StateType
<1> QED
  BY <1>2, <1>4, <1>5, <1>6, <1>7

LEMMA UnhookedFacts ==
  ASSUME NEW x \in StateType, NEW c \in Pcbs, NEW y, y = Unhooked(x, c)
  PROVE  /\ y \in StateType /\ y.active = x.active /\ y.myPcb = x.myPcb /\ y.slot = x.slot
         /\ \A d \in Pcbs \ {c} : y.pcb[d] = x.pcb[d]
         /\ y.pcb[c].arg = NoArg /\ y.pcb[c].cb = "none" /\ y.pcb[c].st = x.pcb[c].st
         /\ y.pcb[c].pending => x.pcb[c].pending
<1> DEFINE p == x.pcb[c]
           q == [p EXCEPT !.arg = NoArg]
           r == [q EXCEPT !.cb = "none"]
           u == [x.pcb EXCEPT ![c] = r]
<1>1. p \in PcbType /\ x.pcb \in [Pcbs -> PcbType]
  BY StateParts
<1>2. y = [x EXCEPT !.pcb = u]
  BY Zenon DEF Unhooked, StateType
<1>3. q \in PcbType /\ q.arg = NoArg /\ q.st = p.st /\ q.pending = p.pending
  BY <1>1 DEF PcbType
<1> HIDE DEF q
<1>4. r \in PcbType /\ r.arg = NoArg /\ r.cb = "none" /\ r.st = q.st /\ r.pending = q.pending
  BY <1>3 DEF PcbType
<1> HIDE DEF r
<1>5. u \in [Pcbs -> PcbType] /\ u[c] = r /\ \A d \in Pcbs \ {c} : u[d] = x.pcb[d]
  BY <1>1, <1>4
<1> HIDE DEF u
<1>6. y \in StateType /\ y.active = x.active /\ y.myPcb = x.myPcb /\ y.slot = x.slot /\ y.pcb = u
  BY <1>2, <1>5 DEF StateType
<1> QED
  BY <1>3, <1>4, <1>5, <1>6

LEMMA CloseCurrentFacts ==
  ASSUME NEW x \in StateType, x.myPcb # NoConn => x.pcb[x.myPcb].st # "unused",
         NEW y \in CloseCurrent(x)
  PROVE  Released(x, y)
<1> DEFINE c == x.myPcb
           a == LetGo(x)
           z == Unhooked(a, c)
<1>1. /\ a \in StateType /\ a.active = x.active /\ a.myPcb = NoConn /\ a.pcb = x.pcb
      /\ \A i \in Ids : /\ i # x.active => a.slot[i] = x.slot[i]
                        /\ i = x.active => ~a.slot[i].connected /\ a.slot[i].buf = << >>
                        /\ a.slot[i].quiet = x.slot[i].quiet /\ a.slot[i].since = x.slot[i].since
  BY LetGoFacts
<1>2. IF c = NoConn \/ x.pcb[c].st = "CLOSED" THEN y = a
      ELSE \E r \in tcp_close(z, c) : y = IF r[1] THEN r[2] ELSE Report(r[2], c)
  BY DEF CloseCurrent, tcp_abort, LetGo, Unhooked
<1>3. c \in Pcbs \cup {NoConn}
  BY StateParts
<1> HIDE DEF a
<1>4. CASE c = NoConn \/ x.pcb[c].st = "CLOSED"
  BY <1>1, <1>2, <1>4 DEF Released
<1>5. CASE ~(c = NoConn \/ x.pcb[c].st = "CLOSED")
  <2>1. c \in Pcbs /\ c = x.myPcb /\ x.pcb[c].st \notin {"CLOSED", "unused"}
    BY <1>3, <1>5
  <2>2. x.pcb[c].st \in {"LISTEN", "SYN_SENT", "OPEN", "CLOSING", "gone"}
    BY <2>1, StateParts, PcbParts
  <2>3. PICK r \in tcp_close(z, c) : y = IF r[1] THEN r[2] ELSE Report(r[2], c)
    BY <1>2, <1>5
  <2>4. z = Unhooked(a, c)
    OBVIOUS
  <2> HIDE DEF z, c
  <2>5. /\ z \in StateType /\ z.active = a.active /\ z.myPcb = a.myPcb /\ z.slot = a.slot
        /\ \A d \in Pcbs \ {c} : z.pcb[d] = a.pcb[d]
        /\ z.pcb[c].arg = NoArg /\ z.pcb[c].cb = "none" /\ z.pcb[c].st = a.pcb[c].st
        /\ z.pcb[c].pending => a.pcb[c].pending
    <3>1. a \in StateType /\ c \in Pcbs
      BY <1>1, <2>1, ZenonT(40)
    <3> QED
      BY <2>4, <3>1, UnhookedFacts, SMTT(60)
  <2> DEFINE v == r[2]
  <2>6. /\ r[1] \in BOOLEAN /\ v \in StateType
        /\ v.active = z.active /\ v.myPcb = z.myPcb /\ v.slot = z.slot
        /\ \A d \in Pcbs \ {c} : v.pcb[d] = z.pcb[d]
        /\ v.pcb[c].arg = z.pcb[c].arg /\ v.pcb[c].cb = z.pcb[c].cb
        /\ v.pcb[c].pending => z.pcb[c].pending
        /\ r[1] => IF z.pcb[c].st \in {"OPEN", "SYN_SENT", "LISTEN"}
                   THEN v.pcb[c].st \in {"CLOSING", "gone"} ELSE v = z
    BY <2>1, <2>5, CloseFacts, SMTT(60)
  <2> HIDE DEF v
  <2>7. /\ v \in StateType /\ v.active = x.active /\ v.myPcb = NoConn /\ v.slot = a.slot
        /\ \A d \in Pcbs \ {c} : v.pcb[d] = x.pcb[d]
        /\ v.pcb[c].cb = "none" /\ (v.pcb[c].pending => x.pcb[c].pending)
        /\ r[1] => v.pcb[c].st \in {"CLOSING", "gone"}
    BY <1>1, <2>2, <2>5, <2>6
  <2>8. CASE r[1]
    <3>1. y = v
      BY <2>3, <2>8 DEF v
    <3> QED
      BY <1>1, <2>1, <2>7, <2>8, <3>1, SMTT(60) DEF Released
  <2>9. CASE ~r[1]
    <3>1. y = Report(v, c)
      BY <2>3, <2>9 DEF v
    <3>2. Ends(v, y, c) /\ y.slot = v.slot /\ y.myPcb = v.myPcb
      BY <2>1, <2>7, <3>1, ReportFacts
    <3> QED
      BY <1>1, <2>1, <2>7, <3>2 DEF Released, Ends
  <2> QED
    BY <2>6, <2>8, <2>9
<1> QED
  BY <1>4, <1>5

(* A connection comes in; one unit of data comes in.                       *)
Incoming(x, y, c) ==
  /\ y \in StateType
  /\ x.myPcb = NoConn => y.myPcb = c /\ y.active = 1 - x.active
  /\ x.myPcb # NoConn => y.myPcb = x.myPcb /\ y.active = x.active
  /\ \A d \in Pcbs \ {c} : y.pcb[d] = x.pcb[d]
  /\ y.pcb[c].st = "OPEN" /\ y.pcb[c].arg = 1 - x.active /\ y.pcb[c].cb = "server"
  /\ y.pcb[c].pending <=> x.myPcb # NoConn
  /\ x.myPcb # NoConn => y.pcb[c].poll = "closed_port"
  /\ y.pcb[c].rcvd = 0 /\ y.pcb[c].taken = 0
  /\ y.slot[x.active] = x.slot[x.active]
  /\ y.slot[1 - x.active].connected <=> x.myPcb = NoConn
  /\ y.slot[1 - x.active].buf = << >>
  /\ y.slot[1 - x.active].quiet = 0 /\ y.slot[1 - x.active].since = 0

LEMMA AcceptFacts ==
  ASSUME NEW x \in StateType, NEW c \in Pcbs, NEW y, y = accept(x, c)
  PROVE  Incoming(x, y, c)
<1> DEFINE delayed == x.myPcb # NoConn
           id == 1 - x.active
           z == IF delayed THEN x ELSE [x EXCEPT !.myPcb = c, !.active = id]
           first == ~delayed
           poll == IF delayed THEN "closed_port" ELSE "serverTimeouts"
           r == [connected |-> first, accepted |-> first, buf |-> << >>, quiet |-> 0, since |-> 0]
           q1 == [NewPcb EXCEPT !.st = "OPEN"]
           q2 == [q1 EXCEPT !.arg = id]
           q3 == [q2 EXCEPT !.cb = "server"]
           q4 == [q3 EXCEPT !.pending = delayed]
           q == [q4 EXCEPT !.poll = poll]
           v == [z.slot EXCEPT ![id] = r]
           u == [z.pcb EXCEPT ![c] = q]
<1>1. x.active \in Ids /\ id \in Ids /\ id # x.active
  BY StateParts DEF Ids
<1>2. /\ delayed \in BOOLEAN /\ first \in BOOLEAN /\ (first <=> ~delayed)
      /\ poll \in {"serverTimeouts", "closed_port", "none"} /\ (delayed => poll = "closed_port")
  OBVIOUS
<1>3. y = [z EXCEPT !.slot = v, !.pcb = u]
  BY DEF accept
<1>4. /\ z \in StateType /\ z.slot = x.slot /\ z.pcb = x.pcb
      /\ delayed => z.myPcb = x.myPcb /\ z.active = x.active
      /\ ~delayed => z.myPcb = c /\ z.active = id
  BY <1>1, Zenon DEF StateType
<1> HIDE DEF z
<1> HIDE DEF delayed, first, poll, id
<1>5. /\ r \in SlotType /\ (r.connected <=> ~delayed) /\ r.buf = << >>
      /\ r.quiet = 0 /\ r.since = 0
  <2>1. << >> \in Seq(Pcbs \X (1 .. MaxRcvd)) /\ 0 \in 0 .. Timeout + 1
    BY LwipAssumption, EmptySeq
  <2> QED
    BY <1>2, <2>1 DEF SlotType
<1>6. /\ q \in PcbType /\ q.st = "OPEN" /\ q.arg = id /\ q.cb = "server" /\ (q.pending <=> delayed)
      /\ delayed => q.poll = "closed_port"
      /\ q.rcvd = 0 /\ q.taken = 0
  <2>1. NewPcb \in PcbType /\ NewPcb.rcvd = 0 /\ NewPcb.taken = 0
    BY LwipAssumption DEF NewPcb, PcbType, NoArg
  <2>2. q1 \in PcbType /\ q1.st = "OPEN" /\ q1.rcvd = 0 /\ q1.taken = 0
    BY <2>1 DEF PcbType
  <2> HIDE DEF q1
  <2>3. q2 \in PcbType /\ q2.st = "OPEN" /\ q2.arg = id /\ q2.rcvd = 0 /\ q2.taken = 0
    BY <1>1, <2>2 DEF PcbType
  <2> HIDE DEF q2
  <2>4. /\ q3 \in PcbType /\ q3.st = "OPEN" /\ q3.arg = id /\ q3.cb = "server"
        /\ q3.rcvd = 0 /\ q3.taken = 0
    BY <2>3 DEF PcbType
  <2> HIDE DEF q3
  <2>5. /\ q4 \in PcbType /\ q4.st = "OPEN" /\ q4.arg = id /\ q4.cb = "server"
        /\ (q4.pending <=> delayed) /\ q4.rcvd = 0 /\ q4.taken = 0
    BY <1>2, <2>4 DEF PcbType
  <2> HIDE DEF q4
  <2> QED
    BY <1>2, <2>5 DEF PcbType
<1> HIDE DEF r, q
<1>7. v \in [Ids -> SlotType] /\ v[id] = r /\ \A i \in Ids \ {id} : v[i] = x.slot[i]
  BY <1>1, <1>4, <1>5, StateParts
<1>8. u \in [Pcbs -> PcbType] /\ u[c] = q /\ \A d \in Pcbs \ {c} : u[d] = x.pcb[d]
  BY <1>1, <1>4, <1>6, StateParts
<1> HIDE DEF v, u
<1>9. /\ y \in StateType /\ y.myPcb = z.myPcb /\ y.active = z.active /\ y.slot = v /\ y.pcb = u
  BY <1>3, <1>4, <1>7, <1>8, ZenonT(40) DEF StateType
<1> QED
  BY <1>1, <1>4, <1>5, <1>6, <1>7, <1>8, <1>9 DEF Incoming, delayed, id

\* y is x after a unit for connection c was stored, or refused.
Gained(x, y, c) ==
  LET id == x.pcb[c].arg
      n  == x.pcb[c].rcvd + 1
  IN  /\ y \in StateType /\ y.myPcb = x.myPcb /\ y.active = x.active
      /\ \A d \in Pcbs \ {c} : y.pcb[d] = x.pcb[d]
      /\ y.pcb[c].st = x.pcb[c].st /\ y.pcb[c].arg = id /\ y.pcb[c].cb = x.pcb[c].cb
      /\ y.pcb[c].poll = x.pcb[c].poll /\ (y.pcb[c].pending <=> x.pcb[c].pending)
      /\ y.pcb[c].taken = x.pcb[c].taken
      /\ \A i \in Ids : /\ i # id => y.slot[i].buf = x.slot[i].buf
                        /\ y.slot[i].connected <=> x.slot[i].connected
                        /\ y.slot[i].quiet \in {0, x.slot[i].quiet}
                        /\ y.slot[i].since = x.slot[i].since
      /\ \/ y.pcb[c].rcvd = x.pcb[c].rcvd /\ y.slot[id].buf = x.slot[id].buf
         \/ /\ y.pcb[c].rcvd = n /\ y.slot[id].buf = Append(x.slot[id].buf, <<c, n>>)
            /\ Len(x.slot[id].buf) < BufSize /\ n \in 1 .. MaxRcvd

LEMMA StoredFacts ==
  ASSUME NEW x \in StateType, NEW c \in Pcbs, x.pcb[c].arg # NoArg, x.pcb[c].rcvd < MaxRcvd,
         NEW y, y = Stored(x, c)
  PROVE  Gained(x, y, c)
<1> DEFINE id == x.pcb[c].arg
           n  == x.pcb[c].rcvd + 1
           p  == x.pcb[c]
<1>1. /\ id \in Ids /\ p \in PcbType /\ x.pcb \in [Pcbs -> PcbType] /\ x.slot \in [Ids -> SlotType]
      /\ x.slot[id] \in SlotType
  BY StateParts, PcbParts
<1>2. n \in 1 .. MaxRcvd /\ n \in 0 .. MaxRcvd /\ p.rcvd \in 0 .. MaxRcvd
  BY <1>1, PcbParts, LwipAssumption, SMTT(60)
<1>3. CASE Len(x.slot[id].buf) < BufSize
  <2> DEFINE b == Append(x.slot[id].buf, <<c, n>>)
             r == [x.slot[id] EXCEPT !.buf = b]
             v == [x.slot EXCEPT ![id] = r]
             q == [p EXCEPT !.rcvd = n]
             w == [q EXCEPT !.refused = FALSE]
             u == [x.pcb EXCEPT ![c] = w]
  <2>1. y = [[x EXCEPT !.slot = v] EXCEPT !.pcb = u]
    BY <1>3, ZenonT(40) DEF Stored, StateType
  <2>2. b \in Seq(Pcbs \X (1 .. MaxRcvd))
    <3>1. x.slot[id].buf \in Seq(Pcbs \X (1 .. MaxRcvd))
      BY <1>1, SlotParts
    <3>2. <<c, n>> \in Pcbs \X (1 .. MaxRcvd)
      BY <1>2
    <3> QED
      BY <3>1, <3>2, AppendProperties
  <2> HIDE DEF b, n
  <2>3. /\ r \in SlotType /\ r.buf = b /\ (r.connected <=> x.slot[id].connected)
        /\ r.quiet = x.slot[id].quiet /\ r.since = x.slot[id].since
    BY <1>1, <2>2, Zenon DEF SlotType
  <2>4. /\ q \in PcbType /\ q.st = p.st /\ q.arg = p.arg /\ q.cb = p.cb /\ q.poll = p.poll
        /\ (q.pending <=> p.pending) /\ q.taken = p.taken /\ q.rcvd = n
    BY <1>1, <1>2, ZenonT(40) DEF PcbType
  <2> HIDE DEF q, r
  <2>5. /\ w \in PcbType /\ w.st = q.st /\ w.arg = q.arg /\ w.cb = q.cb /\ w.poll = q.poll
        /\ (w.pending <=> q.pending) /\ w.taken = q.taken /\ w.rcvd = q.rcvd
    BY <2>4, ZenonT(40) DEF PcbType
  <2> HIDE DEF w
  <2>6. v \in [Ids -> SlotType] /\ v[id] = r /\ \A i \in Ids \ {id} : v[i] = x.slot[i]
    BY <1>1, <2>3
  <2>7. u \in [Pcbs -> PcbType] /\ u[c] = w /\ \A d \in Pcbs \ {c} : u[d] = x.pcb[d]
    BY <1>1, <2>5
  <2> HIDE DEF v, u
  <2>8. y \in StateType /\ y.myPcb = x.myPcb /\ y.active = x.active /\ y.slot = v /\ y.pcb = u
    BY <2>1, <2>6, <2>7, ZenonT(40) DEF StateType
  <2>9. b = Append(x.slot[id].buf, <<c, n>>)
    BY ZenonT(40) DEF b
  <2>10. /\ \A d \in Pcbs \ {c} : y.pcb[d] = x.pcb[d]
         /\ y.pcb[c].st = p.st /\ y.pcb[c].arg = p.arg /\ y.pcb[c].cb = p.cb /\ y.pcb[c].poll = p.poll
         /\ (y.pcb[c].pending <=> p.pending) /\ y.pcb[c].taken = p.taken /\ y.pcb[c].rcvd = n
    BY <2>4, <2>5, <2>7, <2>8, ZenonT(40)
  <2>11. \A i \in Ids : /\ i # id => y.slot[i].buf = x.slot[i].buf
                        /\ i = id => y.slot[i].buf = b
                        /\ y.slot[i].connected <=> x.slot[i].connected
                        /\ y.slot[i].quiet = x.slot[i].quiet /\ y.slot[i].since = x.slot[i].since
    BY <1>1, <2>3, <2>6, <2>8
  <2>12. n \in 1 .. MaxRcvd /\ y.slot[id].buf = b
    BY <1>1, <1>2, <2>11, ZenonT(40)
  <2> QED
    BY <1>3, <2>8, <2>9, <2>10, <2>11, <2>12, Zenon DEF Gained, n
<1>4. CASE ~(Len(x.slot[id].buf) < BufSize)
  <2> DEFINE q == [p EXCEPT !.refused = TRUE]
             u == [x.pcb EXCEPT ![c] = q]
  <2>1. y = [x EXCEPT !.pcb = u]
    BY <1>4 DEF Stored, StateType
  <2>2. /\ q \in PcbType /\ q.st = p.st /\ q.arg = p.arg /\ q.cb = p.cb /\ q.poll = p.poll
        /\ (q.pending <=> p.pending) /\ q.taken = p.taken /\ q.rcvd = p.rcvd
    BY <1>1, Zenon DEF PcbType
  <2> HIDE DEF q
  <2>3. u \in [Pcbs -> PcbType] /\ u[c] = q /\ \A d \in Pcbs \ {c} : u[d] = x.pcb[d]
    BY <1>1, <2>2
  <2> HIDE DEF u
  <2>4. y \in StateType /\ y.myPcb = x.myPcb /\ y.active = x.active /\ y.slot = x.slot /\ y.pcb = u
    BY <2>1, <2>3 DEF StateType
  <2> QED
    BY <1>1, <2>2, <2>3, <2>4, Zenon DEF Gained
<1> QED
  BY <1>3, <1>4

LEMMA BufParts ==
  ASSUME NEW x \in StateType, NEW i \in Ids, NEW k \in 1 .. Len(x.slot[i].buf)
  PROVE  x.slot[i].buf[k] \in Pcbs \X (1 .. MaxRcvd) /\ x.slot[i].buf[k][1] \in Pcbs
<1>1. x.slot[i].buf \in Seq(Pcbs \X (1 .. MaxRcvd))
  BY StateParts, SlotParts
<1>2. x.slot[i].buf[k] \in Pcbs \X (1 .. MaxRcvd)
  BY <1>1, LenProperties
<1> QED
  BY <1>2

LEMMA AppendAt ==
  ASSUME NEW S, NEW a \in Seq(S), NEW e, NEW b, b = Append(a, e), e \in S
  PROVE  /\ Len(b) = Len(a) + 1 /\ b[Len(a) + 1] = e
         /\ \A k \in 1 .. Len(a) : b[k] = a[k]
BY AppendProperties

LEMMA DropAt ==
  ASSUME NEW S, NEW a \in Seq(S), NEW k \in 1 .. Len(a), NEW b, b = SubSeq(a, k + 1, Len(a))
  PROVE  /\ b \in Seq(S) /\ Len(b) = Len(a) - k /\ Len(a) \in Nat
         /\ \A j \in 1 .. Len(b) : b[j] = a[j + k] /\ j + k \in 1 .. Len(a)
<1>1. Len(a) \in Nat
  BY LenProperties
<1>2. CASE k = Len(a)
  BY <1>1, <1>2, SubSeqProperties, EmptySeq
<1>3. CASE k < Len(a)
  BY <1>1, <1>3, SubSeqProperties, SMTT(60)
<1> QED
  BY <1>1, <1>2, <1>3

-----------------------------------------------------------------------------
(* The kinds of steps there are.                                           *)

\* Nothing that tells one connection from another changes.
Same(x, y) ==
  /\ y \in StateType /\ y.myPcb = x.myPcb /\ y.active = x.active
  /\ \A d \in Pcbs : /\ y.pcb[d].st = x.pcb[d].st /\ y.pcb[d].arg = x.pcb[d].arg
                     /\ y.pcb[d].cb = x.pcb[d].cb /\ y.pcb[d].poll = x.pcb[d].poll
                     /\ y.pcb[d].pending <=> x.pcb[d].pending
                     /\ y.pcb[d].rcvd = x.pcb[d].rcvd /\ y.pcb[d].taken = x.pcb[d].taken
                     /\ x.pcb[d].st = "unused" => y.pcb[d] = x.pcb[d]
  /\ y.slot[x.active].connected <=> x.slot[x.active].connected
  /\ \A i \in Ids : y.slot[i].buf = x.slot[i].buf
  /\ ClockRuns \/ \A i \in Ids : /\ y.slot[i].quiet \in {0, x.slot[i].quiet}
                                 /\ y.slot[i].since = x.slot[i].since

\* The handshake of connection c is done.
Joined(x, y, c) ==
  /\ y \in StateType /\ y.myPcb = x.myPcb /\ y.active = x.active
  /\ \A d \in Pcbs \ {c} : y.pcb[d] = x.pcb[d]
  /\ x.pcb[c].st = "SYN_SENT" /\ y.pcb[c].st = "OPEN" /\ y.pcb[c].arg = x.pcb[c].arg
  /\ y.pcb[c].cb = x.pcb[c].cb /\ (y.pcb[c].pending <=> x.pcb[c].pending)
  /\ y.pcb[c].rcvd = x.pcb[c].rcvd /\ y.pcb[c].taken = x.pcb[c].taken
  /\ \A i \in Ids : /\ i # x.pcb[c].arg => y.slot[i] = x.slot[i]
                    /\ i = x.pcb[c].arg => y.slot[i].connected
                    /\ y.slot[i].buf = x.slot[i].buf
                    /\ y.slot[i].quiet = x.slot[i].quiet /\ y.slot[i].since = x.slot[i].since

\* Connection c is over.
Ended(x, y, c) ==
  /\ LiveIn(x, c) \/ (Lingers /\ x.pcb[c].st = "CLOSING")
  /\ Ends(x, y, c)
  /\ LiveIn(x, c) /\ (x.pcb[c].arg = x.active \/ x.pcb[c].poll # "serverTimeouts") => Locally(x, y, c)
  /\ \/ LiveIn(x, c) /\ c = x.myPcb /\ x.pcb[c].arg = x.active => y.myPcb = NoConn
     \/ \E i \in Ids : x.slot[i].quiet > Timeout \/ x.slot[i].since > Timeout

\* connect() made c the current connection.
Begun(x, y, c) ==
  /\ y \in StateType /\ y.myPcb = c /\ y.active = x.active
  /\ x.myPcb = NoConn /\ x.pcb[c].st = "unused"
  /\ \A d \in Pcbs \ {c} : y.pcb[d] = x.pcb[d]
  /\ y.pcb[c].st \in {"CLOSED", "SYN_SENT"} /\ y.pcb[c].arg = x.active
  /\ y.pcb[c].cb = "client" /\ ~y.pcb[c].pending
  /\ y.pcb[c].rcvd = 0 /\ y.pcb[c].taken = 0
  /\ y.slot[x.active].buf = << >> /\ ~y.slot[x.active].connected
  /\ \A i \in Ids : /\ y.slot[i].buf \in {<< >>, x.slot[i].buf}
                    /\ i # x.active => y.slot[i].buf = x.slot[i].buf
                    /\ y.slot[i].quiet = x.slot[i].quiet /\ y.slot[i].since = x.slot[i].since

\* listen() made c the current connection.
Listened(x, y, c) ==
  /\ ListenCalled /\ y \in StateType /\ y.myPcb = c /\ x.pcb[c].st = "unused" /\ y.pcb[c].st = "LISTEN"
  /\ \A d \in Pcbs \ {c} : y.pcb[d] = x.pcb[d]
  /\ \A i \in Ids : y.slot[i].buf = x.slot[i].buf

\* The sketch took the oldest k units of the current connection state's buffer.
Took(x, y, k) ==
  LET buf == x.slot[x.active].buf
      c   == buf[k][1]
  IN  /\ y \in StateType /\ y.myPcb = x.myPcb /\ y.active = x.active
      /\ k \in 1 .. Len(buf) /\ c \in Pcbs
      /\ \A d \in Pcbs \ {c} : y.pcb[d] = x.pcb[d]
      /\ y.pcb[c].st = x.pcb[c].st /\ y.pcb[c].arg = x.pcb[c].arg
      /\ y.pcb[c].cb = x.pcb[c].cb /\ y.pcb[c].poll = x.pcb[c].poll
      /\ y.pcb[c].pending <=> x.pcb[c].pending
      /\ y.pcb[c].rcvd = x.pcb[c].rcvd /\ y.pcb[c].taken = buf[k][2]
      /\ \A i \in Ids : /\ i # x.active => y.slot[i] = x.slot[i]
                        /\ i = x.active => y.slot[i].buf = SubSeq(buf, k + 1, Len(buf))
                        /\ y.slot[i].connected <=> x.slot[i].connected
                        /\ y.slot[i].quiet = x.slot[i].quiet /\ y.slot[i].since = x.slot[i].since

-----------------------------------------------------------------------------
(* Every kind of step keeps the types.                                     *)
LEMMA SameTyped ==
  ASSUME NEW x, Typed(x), NEW y, Same(x, y)
  PROVE  Typed(y)
<1>1. y \in StateType /\ \A i \in Ids : Len(y.slot[i].buf) <= BufSize
  BY ZenonT(40) DEF Typed, Same
<1>2. \A c \in Pcbs : /\ LiveIn(y, c) => y.pcb[c].arg # NoArg /\ y.pcb[c].cb # "none"
                      /\ y.pcb[c].st = "unused" => y.pcb[c] = NewPcb
  BY SMTT(60) DEF Typed, Wired, Same, LiveIn
<1>3. y.myPcb # NoConn => y.pcb[y.myPcb].st # "unused"
  BY StateParts, SMTT(60) DEF Typed, Wired, Same
<1>4. ASSUME NEW i \in Ids, NEW k \in 1 .. Len(y.slot[i].buf)
      PROVE  y.pcb[y.slot[i].buf[k][1]].st # "unused"
  <2>1. k \in 1 .. Len(x.slot[i].buf) /\ y.slot[i].buf = x.slot[i].buf
    BY <1>4, ZenonT(40) DEF Same
  <2>2. x.slot[i].buf[k][1] \in Pcbs
    BY <2>1, BufParts, ZenonT(40) DEF Typed
  <2>3. x.pcb[x.slot[i].buf[k][1]].st # "unused"
    BY <2>1, ZenonT(40) DEF Typed, Wired
  <2>4. \A d \in Pcbs : y.pcb[d].st = x.pcb[d].st
    BY ZenonT(40) DEF Same
  <2> QED
    BY <2>1, <2>2, <2>3, <2>4, ZenonT(40)
<1> QED
  BY <1>1, <1>2, <1>3, <1>4, ZenonT(40) DEF Typed, Wired

LEMMA EndedTyped ==
  ASSUME NEW x, Typed(x), NEW c \in Pcbs, x.pcb[c].st # "unused", NEW y, Ends(x, y, c)
  PROVE  Typed(y)
<1>1. y \in StateType /\ \A i \in Ids : Len(y.slot[i].buf) <= BufSize
  BY LwipAssumption, SMTT(60) DEF Typed, Ends
<1>2. \A d \in Pcbs : /\ LiveIn(y, d) => y.pcb[d].arg # NoArg /\ y.pcb[d].cb # "none"
                      /\ y.pcb[d].st = "unused" => y.pcb[d] = NewPcb
  BY ZenonT(40) DEF Typed, Wired, Ends, LiveIn
<1>3. y.myPcb # NoConn => y.pcb[y.myPcb].st # "unused"
  BY <1>1, StateParts, SMTT(60) DEF Typed, Wired, Ends
<1>4. ASSUME NEW i \in Ids, NEW k \in 1 .. Len(y.slot[i].buf)
      PROVE  y.pcb[y.slot[i].buf[k][1]].st # "unused"
  <2>1. k \in 1 .. Len(x.slot[i].buf) /\ y.slot[i].buf = x.slot[i].buf
    BY <1>4, SMTT(60) DEF Ends
  <2>2. x.slot[i].buf[k][1] \in Pcbs
    BY <2>1, BufParts, ZenonT(40) DEF Typed
  <2>3. x.pcb[x.slot[i].buf[k][1]].st # "unused"
    BY <2>1 DEF Typed, Wired
  <2>4. \A d \in Pcbs : y.pcb[d].st # "unused" \/ y.pcb[d].st = x.pcb[d].st
    BY DEF Ends
  <2> QED
    BY <2>1, <2>2, <2>3, <2>4, Zenon
<1> QED
  BY <1>1, <1>2, <1>3, <1>4, ZenonT(40) DEF Typed, Wired

LEMMA ReleasedTyped ==
  ASSUME NEW x, Typed(x), NEW y, Released(x, y)
  PROVE  Typed(y)
<1>1. y \in StateType /\ \A i \in Ids : Len(y.slot[i].buf) <= BufSize
  <2>1. \A i \in Ids : y.slot[i].buf \in {<< >>, x.slot[i].buf}
    BY ZenonT(40) DEF Released
  <2> QED
    BY <2>1, LwipAssumption, SMTT(60) DEF Typed, Released
<1>2. \A d \in Pcbs : /\ LiveIn(y, d) => y.pcb[d].arg # NoArg /\ y.pcb[d].cb # "none"
                      /\ y.pcb[d].st = "unused" => y.pcb[d] = NewPcb
  <2>1. NoConn \notin Pcbs
    BY SMTT(60) DEF NoConn, Pcbs
  <2> QED
    BY <2>1, SMTT(60) DEF Typed, Wired, Released, LiveIn
<1>3. y.myPcb # NoConn => y.pcb[y.myPcb].st # "unused"
  BY ZenonT(40) DEF Released
<1>4. ASSUME NEW i \in Ids, NEW k \in 1 .. Len(y.slot[i].buf)
      PROVE  y.pcb[y.slot[i].buf[k][1]].st # "unused"
  <2>1. k \in 1 .. Len(x.slot[i].buf) /\ y.slot[i].buf = x.slot[i].buf
    BY <1>4 DEF Released
  <2>2. x.slot[i].buf[k][1] \in Pcbs
    BY <2>1, BufParts DEF Typed
  <2>3. x.pcb[x.slot[i].buf[k][1]].st # "unused"
    BY <2>1 DEF Typed, Wired
  <2>4. NoConn \notin Pcbs
    BY SMTT(60) DEF NoConn, Pcbs
  <2> QED
    BY <2>1, <2>2, <2>3, <2>4, ZenonT(40) DEF Released
<1> QED
  BY <1>1, <1>2, <1>3, <1>4 DEF Typed, Wired

\* A step that changes connection c only, and no buffer but by emptying it.
LEMMA OtherTyped ==
  ASSUME NEW x, Typed(x), NEW c \in Pcbs, NEW y \in StateType,
         y.myPcb \in {c, x.myPcb},
         \A d \in Pcbs \ {c} : y.pcb[d] = x.pcb[d],
         y.pcb[c].st # "unused", LiveIn(y, c) => y.pcb[c].arg # NoArg /\ y.pcb[c].cb # "none",
         \A i \in Ids : y.slot[i].buf \in {<< >>, x.slot[i].buf}
  PROVE  Typed(y)
<1>1. \A i \in Ids : Len(y.slot[i].buf) <= BufSize
  BY LwipAssumption, SMTT(60) DEF Typed
<1>2. \A d \in Pcbs : /\ LiveIn(y, d) => y.pcb[d].arg # NoArg /\ y.pcb[d].cb # "none"
                      /\ y.pcb[d].st = "unused" => y.pcb[d] = NewPcb
  BY ZenonT(40) DEF Typed, Wired, LiveIn
<1>3. y.myPcb # NoConn => y.pcb[y.myPcb].st # "unused"
  BY StateParts, ZenonT(40) DEF Typed, Wired
<1>4. ASSUME NEW i \in Ids, NEW k \in 1 .. Len(y.slot[i].buf)
      PROVE  y.pcb[y.slot[i].buf[k][1]].st # "unused"
  <2>1. k \in 1 .. Len(x.slot[i].buf) /\ y.slot[i].buf = x.slot[i].buf
    BY <1>4
  <2>2. x.slot[i].buf[k][1] \in Pcbs
    BY <2>1, BufParts, ZenonT(40) DEF Typed
  <2>3. x.pcb[x.slot[i].buf[k][1]].st # "unused"
    BY <2>1, ZenonT(40) DEF Typed, Wired
  <2> DEFINE d == x.slot[i].buf[k][1]
  <2>4. y.slot[i].buf[k][1] = d /\ d \in Pcbs /\ x.pcb[d].st # "unused"
    BY <2>1, <2>2, <2>3
  <2> HIDE DEF d
  <2> QED
    BY <2>4, ZenonT(40)
<1> QED
  BY <1>1, <1>2, <1>3, <1>4, ZenonT(40) DEF Typed, Wired

LEMMA PromotedTyped ==
  ASSUME NEW x, Typed(x), NEW c \in Pcbs, NEW y, Promoted(x, y, c)
  PROVE  Typed(y)
<1>1. /\ y \in StateType /\ y.myPcb \in {c, x.myPcb} /\ \A d \in Pcbs \ {c} : y.pcb[d] = x.pcb[d]
      /\ y.pcb[c].st # "unused" /\ \A i \in Ids : y.slot[i].buf \in {<< >>, x.slot[i].buf}
  BY ZenonT(40) DEF Promoted
<1>2. y.pcb[c].arg # NoArg /\ y.pcb[c].cb # "none"
  BY DEF Promoted, Typed, Wired, LiveIn
<1> QED
  BY <1>1, <1>2, OtherTyped

LEMMA IncomingTyped ==
  ASSUME NEW x, Typed(x), NEW c \in Pcbs, NEW y, Incoming(x, y, c)
  PROVE  Typed(y)
<1>1. x.active \in Ids /\ 1 - x.active \in Ids /\ 1 - x.active # NoArg
      /\ Ids = {x.active, 1 - x.active}
  BY StateParts DEF Typed, Ids, NoArg
<1>2. /\ y \in StateType /\ y.myPcb \in {c, x.myPcb} /\ \A d \in Pcbs \ {c} : y.pcb[d] = x.pcb[d]
      /\ y.pcb[c].st # "unused" /\ y.pcb[c].arg # NoArg /\ y.pcb[c].cb # "none"
  BY <1>1 DEF Incoming
<1>3. \A i \in Ids : y.slot[i].buf \in {<< >>, x.slot[i].buf}
  BY <1>1 DEF Incoming
<1> QED
  BY <1>2, <1>3, OtherTyped

LEMMA JoinedTyped ==
  ASSUME NEW x, Typed(x), NEW c \in Pcbs, NEW y, Joined(x, y, c)
  PROVE  Typed(y)
<1>1. /\ y \in StateType /\ y.myPcb \in {c, x.myPcb} /\ \A d \in Pcbs \ {c} : y.pcb[d] = x.pcb[d]
      /\ y.pcb[c].st # "unused" /\ \A i \in Ids : y.slot[i].buf \in {<< >>, x.slot[i].buf}
  BY ZenonT(40) DEF Joined
<1>2. y.pcb[c].arg # NoArg /\ y.pcb[c].cb # "none"
  BY SMTT(60) DEF Joined, Typed, Wired, LiveIn
<1> QED
  BY <1>1, <1>2, OtherTyped

LEMMA BegunTyped ==
  ASSUME NEW x, Typed(x), NEW c \in Pcbs, NEW y, Begun(x, y, c)
  PROVE  Typed(y)
<1>1. /\ y \in StateType /\ y.myPcb \in {c, x.myPcb} /\ \A d \in Pcbs \ {c} : y.pcb[d] = x.pcb[d]
      /\ y.pcb[c].st # "unused" /\ \A i \in Ids : y.slot[i].buf \in {<< >>, x.slot[i].buf}
  BY SMTT(60) DEF Begun
<1>2. LiveIn(y, c) => y.pcb[c].arg # NoArg /\ y.pcb[c].cb # "none"
  <2>1. x.active # NoArg
    BY StateParts DEF Typed, Ids, NoArg
  <2> QED
    BY <2>1 DEF Begun, LiveIn
<1> QED
  BY <1>1, <1>2, OtherTyped, ZenonT(40)

LEMMA ListenedTyped ==
  ASSUME NEW x, Typed(x), NEW c \in Pcbs, NEW y, Listened(x, y, c)
  PROVE  Typed(y)
BY OtherTyped, ZenonT(40) DEF Listened, LiveIn

LEMMA GainedTyped ==
  ASSUME NEW x, Typed(x), NEW c \in Pcbs, LiveIn(x, c), NEW y, Gained(x, y, c)
  PROVE  Typed(y)
<1> DEFINE id == x.pcb[c].arg
           n  == x.pcb[c].rcvd + 1
<1>1. id \in Ids /\ x \in StateType /\ y \in StateType
  BY StateParts, PcbParts, Zenon DEF Typed, Wired, Gained
<1>2. /\ \A d \in Pcbs \ {c} : y.pcb[d] = x.pcb[d]
      /\ y.pcb[c].st = x.pcb[c].st /\ y.pcb[c].arg = id /\ y.pcb[c].cb = x.pcb[c].cb
      /\ y.myPcb = x.myPcb /\ \A i \in Ids : i # id => y.slot[i].buf = x.slot[i].buf
  BY Zenon DEF Gained
<1>3. \/ y.slot[id].buf = x.slot[id].buf
      \/ /\ y.slot[id].buf = Append(x.slot[id].buf, <<c, n>>) /\ Len(x.slot[id].buf) < BufSize
         /\ n \in 1 .. MaxRcvd
  BY Zenon DEF Gained
<1>4. x.slot[id].buf \in Seq(Pcbs \X (1 .. MaxRcvd))
  BY <1>1, StateParts, SlotParts, ZenonT(40)
<1> HIDE DEF id, n
<1>5. \A d \in Pcbs : y.pcb[d].st = x.pcb[d].st
  BY <1>2, ZenonT(40)
<1>6. \A d \in Pcbs : /\ LiveIn(y, d) => y.pcb[d].arg # NoArg /\ y.pcb[d].cb # "none"
                      /\ y.pcb[d].st = "unused" => y.pcb[d] = NewPcb
  <2>1. y.pcb[c].arg # NoArg /\ y.pcb[c].cb # "none"
    BY <1>2, ZenonT(40) DEF Typed, Wired, id
  <2>2. y.pcb[c].st # "unused"
    BY <1>2, ZenonT(40) DEF LiveIn
  <2> QED
    BY <1>2, <2>1, <2>2, ZenonT(40) DEF Typed, Wired, LiveIn
<1>7. y.myPcb # NoConn => y.pcb[y.myPcb].st # "unused"
  BY <1>1, <1>2, <1>5, StateParts, ZenonT(40) DEF Typed, Wired
<1>8. ASSUME NEW i \in Ids, y.slot[i].buf = x.slot[i].buf
      PROVE  /\ Len(y.slot[i].buf) <= BufSize
             /\ \A k \in 1 .. Len(y.slot[i].buf) : y.pcb[y.slot[i].buf[k][1]].st # "unused"
  <2>1. Len(y.slot[i].buf) <= BufSize
    BY <1>8 DEF Typed
  <2>2. ASSUME NEW k \in 1 .. Len(y.slot[i].buf)
        PROVE  y.pcb[y.slot[i].buf[k][1]].st # "unused"
    <3>1. x.slot[i].buf[k][1] \in Pcbs
      BY <1>1, <1>8, BufParts, ZenonT(40)
    <3> QED
      BY <1>5, <1>8, <3>1, ZenonT(90) DEF Typed, Wired
  <2> QED
    BY <2>1, <2>2, ZenonT(40)
<1>9. CASE y.slot[id].buf = x.slot[id].buf
  <2>1. \A i \in Ids : y.slot[i].buf = x.slot[i].buf
    BY <1>2, <1>9, Zenon
  <2> QED
    BY <1>1, <1>6, <1>7, <1>8, <2>1, ZenonT(40) DEF Typed, Wired
<1>10. CASE y.slot[id].buf = Append(x.slot[id].buf, <<c, n>>) /\ Len(x.slot[id].buf) < BufSize
            /\ n \in 1 .. MaxRcvd
  <2> DEFINE a == x.slot[id].buf
             b == y.slot[id].buf
  <2>a. /\ a \in Seq(Pcbs \X (1 .. MaxRcvd)) /\ b = Append(a, <<c, n>>)
        /\ Len(a) < BufSize /\ <<c, n>> \in Pcbs \X (1 .. MaxRcvd)
    BY <1>4, <1>10, ZenonT(40)
  <2>b. \A k \in 1 .. Len(a) : a[k][1] \in Pcbs /\ x.pcb[a[k][1]].st # "unused"
    BY <1>1, BufParts DEF Typed, Wired
  <2>c. y.slot[id].buf = b
    OBVIOUS
  <2> HIDE DEF a, b
  <2>1. /\ a \in Seq(Pcbs \X (1 .. MaxRcvd)) /\ b = Append(a, <<c, n>>)
        /\ Len(a) < BufSize /\ Len(a) \in Nat
    BY <2>a, LenProperties
  <2>2. /\ Len(b) = Len(a) + 1 /\ \A k \in 1 .. Len(a) : b[k] = a[k]
        /\ b[Len(a) + 1] = <<c, n>>
    BY <2>a, AppendAt
  <2>3. Len(b) <= BufSize
    BY <2>1, <2>2, LwipAssumption
  <2>4. ASSUME NEW k \in 1 .. Len(b)
        PROVE  y.pcb[b[k][1]].st # "unused"
    <3>1. CASE k \in 1 .. Len(a)
      BY <1>5, <2>b, <2>2, <3>1, ZenonT(40)
    <3>2. CASE k = Len(a) + 1
      <4>1. b[k][1] = c
        BY <2>2, <3>2, SMTT(60)
      <4> QED
        BY <1>2, <4>1 DEF LiveIn
    <3> QED
      BY <2>1, <2>2, <3>1, <3>2
  <2>5. ASSUME NEW i \in Ids
        PROVE  /\ Len(y.slot[i].buf) <= BufSize
               /\ \A k \in 1 .. Len(y.slot[i].buf) : y.pcb[y.slot[i].buf[k][1]].st # "unused"
    <3>1. CASE i = id
      BY <2>3, <2>4, <2>c, <3>1, ZenonT(40)
    <3>2. CASE i # id
      <4>1. y.slot[i].buf = x.slot[i].buf
        BY <1>2, <3>2, ZenonT(40)
      <4> QED
        BY <1>8, <4>1, Zenon
    <3> QED
      BY <3>1, <3>2, ZenonT(40)
  <2> QED
    BY <1>1, <1>6, <1>7, <2>5, ZenonT(40) DEF Typed, Wired
<1> QED
  BY <1>3, <1>9, <1>10, Zenon

LEMMA TookTyped ==
  ASSUME NEW x, Typed(x), NEW k, NEW y, Took(x, y, k)
  PROVE  Typed(y)
<1> DEFINE buf == x.slot[x.active].buf
           new == y.slot[x.active].buf
           c == buf[k][1]
<1>a. /\ x \in StateType /\ y \in StateType /\ x.active \in Ids /\ c \in Pcbs
      /\ k \in 1 .. Len(buf)
  BY StateParts, ZenonT(40) DEF Typed, Took
<1>b. buf \in Seq(Pcbs \X (1 .. MaxRcvd))
  BY <1>a, StateParts, SlotParts, ZenonT(40)
<1>c. x.pcb[c].st # "unused"
  BY <1>a, ZenonT(40) DEF Typed, Wired
<1>1. /\ x \in StateType /\ y \in StateType /\ x.active \in Ids /\ c \in Pcbs
      /\ k \in 1 .. Len(buf) /\ buf \in Seq(Pcbs \X (1 .. MaxRcvd))
      /\ x.pcb[c].st # "unused"
  BY <1>a, <1>b, <1>c, Zenon
<1>2. \A d \in Pcbs : /\ y.pcb[d].st = x.pcb[d].st /\ y.pcb[d].arg = x.pcb[d].arg
                      /\ y.pcb[d].cb = x.pcb[d].cb /\ (d # c => y.pcb[d] = x.pcb[d])
  BY ZenonT(40) DEF Took
<1>3. /\ y.myPcb = x.myPcb /\ \A i \in Ids : i # x.active => y.slot[i] = x.slot[i]
      /\ new = SubSeq(buf, k + 1, Len(buf))
  BY <1>1, Zenon DEF Took
<1> HIDE DEF c
<1>4. /\ Len(new) = Len(buf) - k /\ Len(buf) \in Nat
      /\ \A j \in 1 .. Len(new) : new[j] = buf[j + k] /\ j + k \in 1 .. Len(buf)
  <2> HIDE DEF buf, new
  <2> QED
    BY <1>1, <1>3, DropAt, SMTT(60)
<1>5. \A d \in Pcbs : /\ LiveIn(y, d) => y.pcb[d].arg # NoArg /\ y.pcb[d].cb # "none"
                      /\ y.pcb[d].st = "unused" => y.pcb[d] = NewPcb
  <2> HIDE DEF buf, new
  <2>1. \A d \in Pcbs : /\ LiveIn(x, d) => x.pcb[d].arg # NoArg /\ x.pcb[d].cb # "none"
                        /\ x.pcb[d].st = "unused" => x.pcb[d] = NewPcb
    BY ZenonT(40) DEF Typed, Wired
  <2> QED
    BY <1>2, <1>c, <2>1, ZenonT(40) DEF LiveIn
<1>6. y.myPcb # NoConn => y.pcb[y.myPcb].st # "unused"
  <2>1. x.myPcb # NoConn => x.pcb[x.myPcb].st # "unused"
    BY ZenonT(40) DEF Typed, Wired
  <2>2. x.myPcb # NoConn => x.myPcb \in Pcbs
    BY <1>1, StateParts
  <2> QED
    BY <1>2, <1>3, <2>1, <2>2
<1>7. ASSUME NEW i \in Ids
      PROVE  /\ Len(y.slot[i].buf) <= BufSize
             /\ \A j \in 1 .. Len(y.slot[i].buf) : y.pcb[y.slot[i].buf[j][1]].st # "unused"
  <2>0. \A j \in 1 .. Len(x.slot[i].buf) :
          x.slot[i].buf[j][1] \in Pcbs /\ x.pcb[x.slot[i].buf[j][1]].st # "unused"
    BY <1>1, BufParts, Zenon DEF Typed, Wired
  <2>a. Len(x.slot[i].buf) <= BufSize
    BY DEF Typed
  <2>1. CASE i # x.active
    BY <1>2, <1>3, <2>0, <2>a, <2>1, ZenonT(90)
  <2>2. CASE i = x.active
    <3>1. Len(new) <= BufSize
      BY <1>1, <1>4, <2>a, <2>2, LwipAssumption
    <3>2. ASSUME NEW j \in 1 .. Len(new)
          PROVE  y.pcb[new[j][1]].st # "unused"
      <4>1. new[j] = buf[j + k] /\ j + k \in 1 .. Len(buf)
        BY <1>4, ZenonT(40)
      <4>2. \A l \in 1 .. Len(buf) : buf[l][1] \in Pcbs /\ x.pcb[buf[l][1]].st # "unused"
        BY <2>0, <2>2
      <4> HIDE DEF buf, new
      <4>3. new[j][1] \in Pcbs /\ x.pcb[new[j][1]].st # "unused"
        BY <4>1, <4>2
      <4> QED
        BY <1>2, <4>3
    <3> QED
      BY <2>2, <3>1, <3>2
  <2> QED
    BY <2>1, <2>2, ZenonT(40)
<1> HIDE DEF buf, new
<1> QED
  BY <1>1, <1>5, <1>6, <1>7, ZenonT(40) DEF Typed, Wired

-----------------------------------------------------------------------------
(* Every kind of step keeps the connections apart, the flag true and the   *)
(* buffers in step with the streams.                                       *)
\* The two halves of Kept.
Streams(x) == \A c \in Pcbs : LiveIn(x, c) =>
  x.pcb[c].taken <= x.pcb[c].rcvd /\ x.slot[x.pcb[c].arg].buf = UnreadIn(x, c)
Owned(x) == \A i \in Ids : \A k \in 1 .. Len(x.slot[i].buf) :
  LiveIn(x, x.slot[i].buf[k][1]) => x.pcb[x.slot[i].buf[k][1]].arg = i

LEMMA KeptHalves ==
  ASSUME NEW x
  PROVE  Kept(x) <=> Streams(x) /\ Owned(x)
BY DEF Kept, Streams, Owned

\* Two open connections have a connection state each.
LEMMA Apart ==
  ASSUME NEW x, Typed(x), Alone(x), NEW c \in Pcbs, NEW d \in Pcbs,
         LiveIn(x, c), LiveIn(x, d), c # d
  PROVE  /\ x.pcb[c].arg \in Ids /\ x.pcb[d].arg \in Ids /\ x.pcb[c].arg # x.pcb[d].arg
         /\ c = x.myPcb \/ d = x.myPcb
<1>1. x.active \in Ids /\ x.active # 1 - x.active /\ 1 - x.active \in Ids
  BY StateParts, SMTT(60) DEF Typed, Ids
<1>2. c = x.myPcb \/ d = x.myPcb
  BY ZenonT(40) DEF Alone
<1> QED
  BY <1>1, <1>2 DEF Alone

\* An open connection has a connection state.
LEMMA LiveArg ==
  ASSUME NEW x, Typed(x), NEW c \in Pcbs, LiveIn(x, c)
  PROVE  x.pcb[c].arg \in Ids /\ x.pcb[c].cb # "none" /\ x.active \in Ids /\ c # NoConn
BY StateParts, PcbParts, SMTT(60) DEF Typed, Wired, Pcbs, NoConn

\* Buffers that are as they were, or empty, of connections that were open.
LEMMA StillOwned ==
  ASSUME NEW x, Typed(x), Owned(x), NEW y,
         \A i \in Ids : y.slot[i].buf \in {<< >>, x.slot[i].buf},
         \A d \in Pcbs : LiveIn(y, d) => LiveIn(x, d) /\ y.pcb[d].arg = x.pcb[d].arg
  PROVE  Owned(y)
<1> SUFFICES ASSUME NEW i \in Ids, NEW k \in 1 .. Len(y.slot[i].buf),
                    LiveIn(y, y.slot[i].buf[k][1])
             PROVE  y.pcb[y.slot[i].buf[k][1]].arg = i
  BY ZenonT(40) DEF Owned
<1>1. y.slot[i].buf = x.slot[i].buf /\ k \in 1 .. Len(x.slot[i].buf)
  BY EmptySeq, SMTT(60)
<1>2. x.slot[i].buf[k][1] \in Pcbs
  BY <1>1, BufParts, ZenonT(40) DEF Typed
<1>3. LiveIn(x, x.slot[i].buf[k][1]) => x.pcb[x.slot[i].buf[k][1]].arg = i
  BY <1>1, ZenonT(40) DEF Owned
<1> QED
  BY <1>1, <1>2, <1>3, ZenonT(40)

LEMMA SameOne ==
  ASSUME NEW x, Typed(x), One(x), NEW y, Same(x, y)
  PROVE  One(y)
<1>1. \A d \in Pcbs : /\ LiveIn(y, d) <=> LiveIn(x, d)
                      /\ y.pcb[d].st = x.pcb[d].st /\ y.pcb[d].arg = x.pcb[d].arg
                      /\ y.pcb[d].poll = x.pcb[d].poll /\ (y.pcb[d].pending <=> x.pcb[d].pending)
                      /\ y.pcb[d].rcvd = x.pcb[d].rcvd /\ y.pcb[d].taken = x.pcb[d].taken
  BY ZenonT(40) DEF Same, LiveIn
<1>2. /\ y.myPcb = x.myPcb /\ y.active = x.active
      /\ y.slot[x.active].connected <=> x.slot[x.active].connected
      /\ \A i \in Ids : y.slot[i].buf = x.slot[i].buf
  BY DEF Same
<1>3. Alone(y)
  BY <1>1, <1>2 DEF One, Alone
<1>4. Told(y)
  BY <1>1, <1>2, StateParts DEF One, Told, Typed
<1>5. Streams(y)
  <2> SUFFICES ASSUME NEW c \in Pcbs, LiveIn(y, c)
               PROVE  y.pcb[c].taken <= y.pcb[c].rcvd /\ y.slot[y.pcb[c].arg].buf = UnreadIn(y, c)
    BY DEF Streams
  <2>1. LiveIn(x, c) /\ x.pcb[c].arg \in Ids
    BY <1>1, LiveArg
  <2>2. UnreadIn(y, c) = UnreadIn(x, c)
    BY <1>1 DEF UnreadIn
  <2> QED
    BY <1>1, <1>2, <2>1, <2>2, KeptHalves, ZenonT(40) DEF One, Streams
<1>6. Owned(y)
  BY <1>1, <1>2, KeptHalves, StillOwned DEF One
<1> QED
  BY <1>3, <1>4, <1>5, <1>6, KeptHalves, ZenonT(40) DEF One

LEMMA EndedOne ==
  ASSUME NEW x, Typed(x), One(x), NEW c \in Pcbs, LiveIn(x, c), NEW y, Ended(x, y, c)
  PROVE  One(y)
<1>1. /\ x.pcb[c].arg \in Ids /\ x.active \in Ids /\ c # NoConn /\ x.active # 1 - x.active
      /\ x.myPcb \in Pcbs \cup {NoConn} /\ NoConn \notin Pcbs
  BY LiveArg, StateParts DEF Typed, Ids, NoConn, Pcbs
<1>2. c = x.myPcb <=> x.pcb[c].arg = x.active
  BY <1>1 DEF One, Alone
<1>3. Ends(x, y, c) /\ Locally(x, y, c)
  BY <1>2 DEF One, Alone, Ended
<1>4. /\ y.active = x.active /\ y.myPcb \in {x.myPcb, NoConn}
      /\ \A d \in Pcbs \ {c} : y.pcb[d] = x.pcb[d]
      /\ ~LiveIn(y, c) /\ y.pcb[c].st \notin {"OPEN", "LISTEN"} /\ (y.pcb[c].pending => x.pcb[c].pending)
      /\ \A i \in Ids : y.slot[i].buf \in {<< >>, x.slot[i].buf}
  BY <1>3 DEF Ends, LiveIn
<1>5. /\ c # x.myPcb => y.myPcb = x.myPcb
      /\ \A i \in Ids : /\ i # x.pcb[c].arg => y.slot[i] = x.slot[i]
                        /\ i = x.pcb[c].arg => ~y.slot[i].connected
  BY <1>2, <1>3 DEF Locally
<1>6. \A d \in Pcbs : LiveIn(y, d) => d # c /\ LiveIn(x, d) /\ y.pcb[d] = x.pcb[d]
  BY <1>4 DEF LiveIn
<1>7. Alone(y)
  <2>1. \A d \in Pcbs : LiveIn(y, d) => (d = y.myPcb <=> d = x.myPcb)
    BY <1>1, <1>4, <1>5, <1>6
  <2>2. \A d \in Pcbs : y.pcb[d].pending => x.pcb[d].pending
    BY <1>4
  <2>3. \A d \in Pcbs : y.pcb[d].st # "LISTEN"
    BY <1>4 DEF One, Alone
  <2>4. \A d \in Pcbs : LiveIn(y, d) =>
          IF d = y.myPcb THEN y.pcb[d].arg = y.active /\ ~y.pcb[d].pending
          ELSE /\ y.pcb[d].st = "OPEN" /\ y.pcb[d].pending
               /\ y.pcb[d].arg = 1 - y.active /\ y.pcb[d].poll = "closed_port"
    BY <1>4, <1>6, <2>1, SMTT(60) DEF One, Alone
  <2>5. \A d, e \in Pcbs : y.pcb[d].pending /\ y.pcb[e].pending => d = e
    BY <2>2 DEF One, Alone
  <2> QED
    BY <2>3, <2>4, <2>5 DEF Alone
<1>8. Told(y)
  <2>1. CASE c = x.myPcb
    BY <1>1, <1>2, <1>4, <1>5, <2>1 DEF Told
  <2>2. CASE c # x.myPcb
    <3>1. y.myPcb = x.myPcb /\ y.slot[x.active] = x.slot[x.active]
      BY <1>1, <1>2, <1>5, <2>2
    <3>2. y.myPcb # NoConn => y.pcb[y.myPcb] = x.pcb[x.myPcb]
      BY <1>1, <1>4, <2>2, <3>1
    <3> QED
      BY <1>4, <3>1, <3>2 DEF Told, One
  <2> QED
    BY <2>1, <2>2
<1>9. Streams(y)
  <2> SUFFICES ASSUME NEW d \in Pcbs, LiveIn(y, d)
               PROVE  y.pcb[d].taken <= y.pcb[d].rcvd /\ y.slot[y.pcb[d].arg].buf = UnreadIn(y, d)
    BY DEF Streams
  <2>1. d # c /\ LiveIn(x, d) /\ y.pcb[d] = x.pcb[d]
    BY <1>6
  <2>2. x.pcb[d].arg \in Ids /\ x.pcb[d].arg # x.pcb[c].arg
    BY <2>1, Apart DEF One
  <2>3. UnreadIn(y, d) = UnreadIn(x, d)
    BY <2>1 DEF UnreadIn
  <2> QED
    BY <1>5, <2>1, <2>2, <2>3, KeptHalves DEF One, Streams
<1>10. Owned(y)
  BY <1>4, <1>6, KeptHalves, StillOwned DEF One
<1> QED
  BY <1>7, <1>8, <1>9, <1>10, KeptHalves DEF One

\* A callback on closed connection c leaves what another one, an open one, goes by.
StruckIn(x, y, c) ==
  \E d \in Pcbs \ {c} :
    /\ x.pcb[c].st = "CLOSING" /\ LiveIn(x, d)
    /\ \/ d = x.myPcb /\ d # y.myPcb
       \/ \E i \in {x.pcb[d].arg} \ {NoArg} :
            <<x.slot[i].connected, x.slot[i].buf>> # <<y.slot[i].connected, y.slot[i].buf>>

LEMMA SparedOne ==
  ASSUME NEW x, Typed(x), One(x), NEW c \in Pcbs, x.pcb[c].st = "CLOSING",
         NEW y, Ends(x, y, c), ~StruckIn(x, y, c)
  PROVE  One(y)
<1>1. /\ x.active \in Ids /\ c # NoConn /\ NoConn \notin Pcbs
      /\ x.myPcb \in Pcbs \cup {NoConn} /\ ~LiveIn(x, c)
  BY StateParts DEF Typed, Ids, NoConn, Pcbs, LiveIn
<1>2. /\ y.active = x.active /\ y.myPcb \in {x.myPcb, NoConn}
      /\ \A d \in Pcbs \ {c} : y.pcb[d] = x.pcb[d]
      /\ ~LiveIn(y, c) /\ y.pcb[c].st \notin {"OPEN", "LISTEN"} /\ (y.pcb[c].pending => x.pcb[c].pending)
      /\ \A i \in Ids : /\ y.slot[i].buf \in {<< >>, x.slot[i].buf}
                        /\ y.slot[i].connected => x.slot[i].connected
  BY DEF Ends, LiveIn
<1>3. \A d \in Pcbs : LiveIn(y, d) => d # c /\ LiveIn(x, d) /\ y.pcb[d] = x.pcb[d]
  BY <1>2 DEF LiveIn
<1>4. ASSUME NEW d \in Pcbs, LiveIn(x, d)
      PROVE  /\ d # c /\ (d = x.myPcb <=> d = y.myPcb) /\ x.pcb[d].arg \in Ids
             /\ y.slot[x.pcb[d].arg].connected = x.slot[x.pcb[d].arg].connected
             /\ y.slot[x.pcb[d].arg].buf = x.slot[x.pcb[d].arg].buf
  <2>1. d # c /\ x.pcb[d].arg \in Ids /\ x.pcb[d].arg # NoArg
    BY <1>1, <1>4, LiveArg DEF Ids, NoArg
  <2>2. d = x.myPcb => d = y.myPcb
    BY <1>4, <2>1 DEF StruckIn
  <2>3. x.pcb[d].arg \in {x.pcb[d].arg} \ {NoArg}
    BY <2>1
  <2>4. <<x.slot[x.pcb[d].arg].connected, x.slot[x.pcb[d].arg].buf>>
          = <<y.slot[x.pcb[d].arg].connected, y.slot[x.pcb[d].arg].buf>>
    BY <1>4, <2>1, <2>3 DEF StruckIn
  <2> QED
    BY <1>1, <1>2, <2>1, <2>2, <2>4
<1>5. Alone(y)
  <2>1. \A d \in Pcbs : y.pcb[d].pending => x.pcb[d].pending
    BY <1>2
  <2>2. \A d \in Pcbs : y.pcb[d].st # "LISTEN"
    BY <1>2 DEF One, Alone
  <2>3. \A d \in Pcbs : LiveIn(y, d) =>
          IF d = y.myPcb THEN y.pcb[d].arg = y.active /\ ~y.pcb[d].pending
          ELSE /\ y.pcb[d].st = "OPEN" /\ y.pcb[d].pending
               /\ y.pcb[d].arg = 1 - y.active /\ y.pcb[d].poll = "closed_port"
    BY <1>2, <1>3, <1>4, SMTT(60) DEF One, Alone
  <2>4. \A d, e \in Pcbs : y.pcb[d].pending /\ y.pcb[e].pending => d = e
    BY <2>1 DEF One, Alone
  <2> QED
    BY <2>2, <2>3, <2>4 DEF Alone
<1>6. Told(y)
  <2>1. CASE x.myPcb # NoConn /\ LiveIn(x, x.myPcb)
    <3>1. /\ x.myPcb \in Pcbs /\ x.myPcb # c /\ y.myPcb = x.myPcb
          /\ x.pcb[x.myPcb].arg = x.active
          /\ y.slot[x.active].connected = x.slot[x.active].connected
      BY <1>1, <1>4, <2>1 DEF One, Alone
    <3>2. y.pcb[y.myPcb] = x.pcb[x.myPcb]
      BY <1>2, <3>1
    <3> QED
      BY <1>2, <3>1, <3>2 DEF One, Told
  <2>2. CASE x.myPcb = NoConn \/ ~LiveIn(x, x.myPcb)
    <3>1. ~x.slot[x.active].connected
      BY <2>2 DEF One, Told, LiveIn
    <3>2. ~y.slot[y.active].connected
      BY <1>1, <1>2, <3>1
    <3>3. y.myPcb = NoConn \/ y.pcb[y.myPcb].st # "OPEN"
      BY <1>1, <1>2, <1>3, <2>2 DEF LiveIn
    <3> QED
      BY <3>2, <3>3 DEF Told
  <2> QED
    BY <2>1, <2>2
<1>7. Streams(y)
  <2> SUFFICES ASSUME NEW d \in Pcbs, LiveIn(y, d)
               PROVE  y.pcb[d].taken <= y.pcb[d].rcvd /\ y.slot[y.pcb[d].arg].buf = UnreadIn(y, d)
    BY DEF Streams
  <2>1. LiveIn(x, d) /\ y.pcb[d] = x.pcb[d]
    BY <1>3
  <2>2. UnreadIn(y, d) = UnreadIn(x, d)
    BY <2>1 DEF UnreadIn
  <2> QED
    BY <1>4, <2>1, <2>2, KeptHalves DEF One, Streams
<1>8. Owned(y)
  BY <1>2, <1>3, KeptHalves, StillOwned DEF One
<1> QED
  BY <1>5, <1>6, <1>7, <1>8, KeptHalves DEF One

LEMMA ReleasedOne ==
  ASSUME NEW x, Typed(x), Alone(x), Kept(x), NEW y, Released(x, y)
  PROVE  One(y)
<1>1. /\ x.active \in Ids /\ x.active # 1 - x.active /\ 1 - x.active \in Ids
      /\ x.myPcb \in Pcbs \cup {NoConn} /\ NoConn \notin Pcbs
  BY StateParts DEF Typed, Ids, NoConn, Pcbs
<1>2. /\ y.active = x.active /\ y.myPcb = NoConn
      /\ \A d \in Pcbs : d # x.myPcb => y.pcb[d] = x.pcb[d]
      /\ x.myPcb # NoConn => /\ y.pcb[x.myPcb].st \in {"CLOSED", "CLOSING", "gone"}
                             /\ y.pcb[x.myPcb].pending => x.pcb[x.myPcb].pending
      /\ ~y.slot[x.active].connected
      /\ \A i \in Ids : i # x.active => y.slot[i].buf = x.slot[i].buf
      /\ \A i \in Ids : y.slot[i].buf \in {<< >>, x.slot[i].buf}
  BY <1>1 DEF Released
<1>3. \A d \in Pcbs : LiveIn(y, d) => d # x.myPcb /\ LiveIn(x, d) /\ y.pcb[d] = x.pcb[d]
  BY <1>1, <1>2 DEF LiveIn
<1>4. Alone(y)
  <2>1. \A d \in Pcbs : (y.pcb[d].pending => x.pcb[d].pending) /\ y.pcb[d].st # "LISTEN"
    BY <1>1, <1>2 DEF Alone
  <2>2. \A d \in Pcbs : LiveIn(y, d) =>
          /\ d # y.myPcb /\ y.pcb[d].st = "OPEN" /\ y.pcb[d].pending
          /\ y.pcb[d].arg = 1 - y.active /\ y.pcb[d].poll = "closed_port"
    BY <1>1, <1>2, <1>3 DEF Alone
  <2>3. \A d, e \in Pcbs : y.pcb[d].pending /\ y.pcb[e].pending => d = e
    BY <2>1 DEF Alone
  <2> QED
    BY <2>1, <2>2, <2>3 DEF Alone
<1>5. Told(y)
  BY <1>2, ZenonT(40) DEF Told
<1>6. Streams(y)
  <2> SUFFICES ASSUME NEW d \in Pcbs, LiveIn(y, d)
               PROVE  y.pcb[d].taken <= y.pcb[d].rcvd /\ y.slot[y.pcb[d].arg].buf = UnreadIn(y, d)
    BY DEF Streams
  <2>1. d # x.myPcb /\ LiveIn(x, d) /\ y.pcb[d] = x.pcb[d]
    BY <1>3
  <2>2. x.pcb[d].arg \in Ids /\ x.pcb[d].arg # x.active
    BY <1>1, <2>1 DEF Alone
  <2>3. UnreadIn(y, d) = UnreadIn(x, d)
    BY <2>1 DEF UnreadIn
  <2> QED
    BY <1>2, <2>1, <2>2, <2>3, KeptHalves, Zenon DEF Streams
<1>7. Owned(y)
  BY <1>2, <1>3, KeptHalves, StillOwned
<1> QED
  BY <1>4, <1>5, <1>6, <1>7, KeptHalves DEF One

LEMMA PromotedOne ==
  ASSUME NEW x, Typed(x), One(x), NEW c \in Pcbs, NEW y, Promoted(x, y, c)
  PROVE  One(y)
<1>1. /\ x.myPcb = NoConn /\ y.myPcb = c /\ y.active = x.pcb[c].arg /\ x.pcb[c].arg \in Ids
      /\ LiveIn(x, c) /\ c # NoConn /\ \A d \in Pcbs \ {c} : y.pcb[d] = x.pcb[d]
      /\ y.pcb[c].st = "OPEN" /\ y.pcb[c].arg = x.pcb[c].arg /\ ~y.pcb[c].pending
      /\ y.pcb[c].rcvd = x.pcb[c].rcvd /\ y.pcb[c].taken = x.pcb[c].taken
  BY SMTT(60) DEF Promoted, LiveIn, NoConn, Pcbs
<1>2. y.slot[y.active].connected /\ \A i \in Ids : y.slot[i].buf = x.slot[i].buf
  BY <1>1 DEF Promoted
<1>3. \A d \in Pcbs : LiveIn(x, d) => d = c
  BY <1>1, Apart DEF One, NoConn, Pcbs
<1>4. \A d \in Pcbs : LiveIn(y, d) => d = c
  BY <1>1, <1>3 DEF LiveIn
<1>5. Alone(y)
  <2>1. \A d \in Pcbs : (y.pcb[d].pending => x.pcb[d].pending) /\ y.pcb[d].st # "LISTEN"
    BY <1>1 DEF One, Alone
  <2>2. \A d, e \in Pcbs : y.pcb[d].pending /\ y.pcb[e].pending => d = e
    BY <2>1 DEF One, Alone
  <2> QED
    BY <1>1, <1>4, <2>1, <2>2 DEF Alone
<1>6. Told(y)
  BY <1>1, <1>2 DEF Told
<1>7. Streams(y)
  <2>1. UnreadIn(y, c) = UnreadIn(x, c)
    BY <1>1 DEF UnreadIn
  <2>2. x.pcb[c].taken <= x.pcb[c].rcvd /\ x.slot[x.pcb[c].arg].buf = UnreadIn(x, c)
    BY <1>1, KeptHalves, SMTT(60) DEF One, Streams
  <2>3. y.pcb[c].taken <= y.pcb[c].rcvd /\ y.slot[y.pcb[c].arg].buf = UnreadIn(y, c)
    BY <1>1, <1>2, <2>1, <2>2
  <2> QED
    BY <1>4, <2>3, ZenonT(40) DEF Streams
<1>8. Owned(y)
  <2>1. \A d \in Pcbs : LiveIn(y, d) => LiveIn(x, d) /\ y.pcb[d].arg = x.pcb[d].arg
    BY <1>1, <1>4
  <2> QED
    BY <1>2, <2>1, KeptHalves, StillOwned DEF One
<1> QED
  BY <1>5, <1>6, <1>7, <1>8, KeptHalves DEF One

\* Nothing is delayed when a connection comes in.
LEMMA IncomingOne ==
  ASSUME NEW x, Typed(x), One(x), NEW c \in Pcbs, x.pcb[c].st = "unused",
         \A d \in Pcbs : ~x.pcb[d].pending, NEW y, Incoming(x, y, c)
  PROVE  One(y)
<1> DEFINE new == 1 - x.active
<1>1. /\ x.active \in Ids /\ new \in Ids /\ x.active # new /\ 1 - new = x.active
      /\ x.myPcb \in Pcbs \cup {NoConn} /\ NoConn \notin Pcbs /\ Ids = {x.active, new}
  BY StateParts DEF Typed, Ids, NoConn, Pcbs
<1>2. c # x.myPcb /\ c # NoConn
  BY <1>1, Zenon DEF Typed, Wired
<1>3. /\ x.myPcb = NoConn => y.myPcb = c /\ y.active = new
      /\ x.myPcb # NoConn => y.myPcb = x.myPcb /\ y.active = x.active
      /\ \A d \in Pcbs \ {c} : y.pcb[d] = x.pcb[d]
      /\ y.pcb[c].st = "OPEN" /\ y.pcb[c].arg = new
      /\ y.pcb[c].pending <=> x.myPcb # NoConn
      /\ x.myPcb # NoConn => y.pcb[c].poll = "closed_port"
      /\ y.pcb[c].rcvd = 0 /\ y.pcb[c].taken = 0
      /\ y.slot[x.active] = x.slot[x.active]
      /\ y.slot[new].connected <=> x.myPcb = NoConn
      /\ y.slot[new].buf = << >>
  BY DEF Incoming
<1> HIDE DEF new
<1>4. \A d \in Pcbs : LiveIn(x, d) => d = x.myPcb /\ x.pcb[d].arg = x.active
  BY DEF One, Alone
<1>5. \A d \in Pcbs : d # c /\ LiveIn(y, d) => LiveIn(x, d) /\ y.pcb[d] = x.pcb[d]
  BY <1>3 DEF LiveIn
<1>6. Alone(y)
  <2>1. \A d \in Pcbs : (y.pcb[d].pending => d = c) /\ y.pcb[d].st # "LISTEN"
    BY <1>3 DEF One, Alone
  <2>2. ASSUME NEW d \in Pcbs, LiveIn(y, d), d # c
        PROVE  d = y.myPcb /\ y.pcb[d].arg = y.active /\ ~y.pcb[d].pending
    <3>1. LiveIn(x, d) /\ y.pcb[d] = x.pcb[d] /\ d = x.myPcb
      BY <1>4, <1>5, <2>2
    <3> QED
      BY <1>1, <1>3, <1>4, <3>1
  <2>3. IF c = y.myPcb THEN y.pcb[c].arg = y.active /\ ~y.pcb[c].pending
        ELSE /\ y.pcb[c].st = "OPEN" /\ y.pcb[c].pending
             /\ y.pcb[c].arg = 1 - y.active /\ y.pcb[c].poll = "closed_port"
    BY <1>1, <1>2, <1>3 DEF new
  <2>4. \A d, e \in Pcbs : y.pcb[d].pending /\ y.pcb[e].pending => d = e
    BY <2>1
  <2> QED
    BY <2>1, <2>2, <2>3, <2>4 DEF Alone
<1>7. Told(y)
  <2>1. CASE x.myPcb = NoConn
    BY <1>2, <1>3, <2>1 DEF Told
  <2>2. CASE x.myPcb # NoConn
    <3>1. y.pcb[x.myPcb] = x.pcb[x.myPcb]
      BY <1>1, <1>2, <1>3, <2>2, ZenonT(40)
    <3> QED
      BY <1>3, <2>2, <3>1, SMTT(60) DEF Told, One
  <2> QED
    BY <2>1, <2>2
<1>8. Streams(y)
  <2>1. UnreadIn(y, c) = << >>
    BY <1>3, SMTT(60) DEF UnreadIn
  <2>2. ASSUME NEW d \in Pcbs, LiveIn(y, d), d # c
        PROVE  y.pcb[d].taken <= y.pcb[d].rcvd /\ y.slot[y.pcb[d].arg].buf = UnreadIn(y, d)
    <3>1. LiveIn(x, d) /\ y.pcb[d] = x.pcb[d] /\ x.pcb[d].arg = x.active
      BY <1>4, <1>5, <2>2
    <3>2. UnreadIn(y, d) = UnreadIn(x, d)
      BY <3>1 DEF UnreadIn
    <3> QED
      BY <1>3, <3>1, <3>2, KeptHalves, SMTT(60) DEF One, Streams
  <2> QED
    BY <1>3, <2>1, <2>2, SMTT(60) DEF Streams
<1>9. Owned(y)
  <2> SUFFICES ASSUME NEW i \in Ids, NEW k \in 1 .. Len(y.slot[i].buf),
                      LiveIn(y, y.slot[i].buf[k][1])
               PROVE  y.pcb[y.slot[i].buf[k][1]].arg = i
    BY ZenonT(40) DEF Owned
  <2>1. i = x.active /\ y.slot[i].buf = x.slot[i].buf
    BY <1>1, <1>3, EmptySeq
  <2> DEFINE d == x.slot[i].buf[k][1]
  <2>2. k \in 1 .. Len(x.slot[i].buf) /\ d = y.slot[i].buf[k][1]
    BY <2>1
  <2>3. d \in Pcbs /\ x.pcb[d].st # "unused" /\ (LiveIn(x, d) => x.pcb[d].arg = i)
    BY <2>2, BufParts, KeptHalves, Zenon DEF Typed, Wired, One, Owned
  <2> HIDE DEF d
  <2> QED
    BY <1>5, <2>2, <2>3, ZenonT(40)
<1> QED
  BY <1>6, <1>7, <1>8, <1>9, KeptHalves DEF One

LEMMA JoinedOne ==
  ASSUME NEW x, Typed(x), One(x), NEW c \in Pcbs, NEW y, Joined(x, y, c)
  PROVE  One(y)
<1>1. /\ y.myPcb = x.myPcb /\ y.active = x.active /\ \A d \in Pcbs \ {c} : y.pcb[d] = x.pcb[d]
      /\ x.pcb[c].st = "SYN_SENT" /\ y.pcb[c].st = "OPEN" /\ y.pcb[c].arg = x.pcb[c].arg
      /\ (y.pcb[c].pending <=> x.pcb[c].pending)
      /\ y.pcb[c].rcvd = x.pcb[c].rcvd /\ y.pcb[c].taken = x.pcb[c].taken
      /\ \A i \in Ids : i = x.pcb[c].arg => y.slot[i].connected
      /\ \A i \in Ids : y.slot[i].buf = x.slot[i].buf
  BY DEF Joined
<1>2. c = x.myPcb /\ LiveIn(x, c) /\ x.pcb[c].arg = x.active /\ x.active \in Ids /\ c # NoConn
  BY <1>1, StateParts DEF One, Alone, LiveIn, Typed, Pcbs, NoConn
<1>3. \A d \in Pcbs : /\ LiveIn(y, d) <=> LiveIn(x, d)
                      /\ y.pcb[d].arg = x.pcb[d].arg /\ (y.pcb[d].pending <=> x.pcb[d].pending)
                      /\ y.pcb[d].rcvd = x.pcb[d].rcvd /\ y.pcb[d].taken = x.pcb[d].taken
                      /\ y.pcb[d].st = "LISTEN" <=> x.pcb[d].st = "LISTEN"
                      /\ d # x.myPcb => y.pcb[d].st = x.pcb[d].st /\ y.pcb[d].poll = x.pcb[d].poll
  BY <1>1, <1>2, SMTT(60) DEF LiveIn
<1>4. Alone(y)
  BY <1>1, <1>3 DEF One, Alone
<1>5. Told(y)
  BY <1>1, <1>2 DEF Told
<1>6. Streams(y)
  <2> SUFFICES ASSUME NEW d \in Pcbs, LiveIn(y, d)
               PROVE  y.pcb[d].taken <= y.pcb[d].rcvd /\ y.slot[y.pcb[d].arg].buf = UnreadIn(y, d)
    BY DEF Streams
  <2>1. LiveIn(x, d) /\ x.pcb[d].arg \in Ids
    BY <1>3, LiveArg
  <2>2. UnreadIn(y, d) = UnreadIn(x, d)
    BY <1>3, ZenonT(40) DEF UnreadIn
  <2> QED
    BY <1>1, <1>3, <2>1, <2>2, KeptHalves, ZenonT(90) DEF One, Streams
<1>7. Owned(y)
  BY <1>1, <1>3, KeptHalves, StillOwned DEF One
<1> QED
  BY <1>4, <1>5, <1>6, <1>7, KeptHalves DEF One

LEMMA BegunOne ==
  ASSUME NEW x, Typed(x), One(x), NEW c \in Pcbs, NEW y, Begun(x, y, c)
  PROVE  One(y)
<1>1. /\ x.active \in Ids /\ x.active # 1 - x.active
      /\ NoConn \notin Pcbs /\ c # NoConn
  BY StateParts, SMTT(60) DEF Typed, Ids, NoConn, Pcbs
<1>2. /\ y.myPcb = c /\ y.active = x.active /\ x.myPcb = NoConn /\ x.pcb[c].st = "unused"
      /\ \A d \in Pcbs \ {c} : y.pcb[d] = x.pcb[d]
      /\ y.pcb[c].st \in {"CLOSED", "SYN_SENT"} /\ y.pcb[c].arg = x.active /\ ~y.pcb[c].pending
      /\ y.pcb[c].rcvd = 0 /\ y.pcb[c].taken = 0
      /\ y.slot[x.active].buf = << >> /\ ~y.slot[x.active].connected
      /\ \A i \in Ids : y.slot[i].buf \in {<< >>, x.slot[i].buf}
      /\ \A i \in Ids : i # x.active => y.slot[i].buf = x.slot[i].buf
  BY DEF Begun
<1>3. \A d \in Pcbs : d # c /\ LiveIn(y, d) => LiveIn(x, d) /\ y.pcb[d] = x.pcb[d]
  BY <1>2 DEF LiveIn
<1>4. Alone(y)
  <2>1. \A d \in Pcbs : (y.pcb[d].pending => x.pcb[d].pending) /\ y.pcb[d].st # "LISTEN"
    BY <1>2 DEF One, Alone
  <2>2. ASSUME NEW d \in Pcbs, LiveIn(y, d), d # c
        PROVE  /\ d # y.myPcb /\ y.pcb[d].st = "OPEN" /\ y.pcb[d].pending
               /\ y.pcb[d].arg = 1 - y.active /\ y.pcb[d].poll = "closed_port"
    <3>1. LiveIn(x, d) /\ y.pcb[d] = x.pcb[d] /\ d # x.myPcb
      BY <1>1, <1>2, <1>3, <2>2
    <3> QED
      BY <1>2, <2>2, <3>1 DEF One, Alone
  <2>3. \A d, e \in Pcbs : y.pcb[d].pending /\ y.pcb[e].pending => d = e
    BY <2>1, ZenonT(40) DEF One, Alone
  <2> QED
    BY <1>2, <2>1, <2>2, <2>3 DEF Alone
<1>5. Told(y)
  BY <1>2 DEF Told
<1>6. Streams(y)
  <2>1. UnreadIn(y, c) = << >>
    BY <1>2, SMTT(60) DEF UnreadIn
  <2>2. ASSUME NEW d \in Pcbs, LiveIn(y, d), d # c
        PROVE  y.pcb[d].taken <= y.pcb[d].rcvd /\ y.slot[y.pcb[d].arg].buf = UnreadIn(y, d)
    <3>1. LiveIn(x, d) /\ y.pcb[d] = x.pcb[d] /\ d # x.myPcb
      BY <1>1, <1>2, <1>3, <2>2
    <3>2. x.pcb[d].arg \in Ids /\ x.pcb[d].arg # x.active
      BY <1>1, <3>1, LiveArg, ZenonT(40) DEF One, Alone
    <3>3. UnreadIn(y, d) = UnreadIn(x, d)
      BY <3>1, ZenonT(40) DEF UnreadIn
    <3> QED
      BY <1>2, <3>1, <3>2, <3>3, KeptHalves, ZenonT(40) DEF One, Streams
  <2> QED
    BY <1>2, <2>1, <2>2, SMTT(60) DEF Streams
<1>7. Owned(y)
  <2> SUFFICES ASSUME NEW i \in Ids, NEW k \in 1 .. Len(y.slot[i].buf),
                      LiveIn(y, y.slot[i].buf[k][1])
               PROVE  y.pcb[y.slot[i].buf[k][1]].arg = i
    BY ZenonT(40) DEF Owned
  <2>1. y.slot[i].buf = x.slot[i].buf
    BY <1>2, EmptySeq
  <2> DEFINE d == x.slot[i].buf[k][1]
  <2>2. k \in 1 .. Len(x.slot[i].buf) /\ d = y.slot[i].buf[k][1]
    BY <2>1
  <2>3. d \in Pcbs /\ x.pcb[d].st # "unused" /\ (LiveIn(x, d) => x.pcb[d].arg = i)
    BY <2>2, BufParts, KeptHalves, Zenon DEF Typed, Wired, One, Owned
  <2>4. LiveIn(y, d)
    BY <2>2, Zenon
  <2> HIDE DEF d
  <2>5. d # c
    BY <1>2, <2>3, Zenon
  <2>6. LiveIn(x, d) /\ y.pcb[d] = x.pcb[d]
    BY <1>3, <2>3, <2>4, <2>5, Zenon
  <2>7. y.pcb[d].arg = i
    BY <2>3, <2>6, Zenon
  <2> QED
    BY <2>2, <2>7, Zenon
<1> QED
  BY <1>4, <1>5, <1>6, <1>7, KeptHalves DEF One

\* One more unit at the end of what is unread, some fewer at its beginning.
UnreadOf(c, r, t) == [k \in 1 .. r - t |-> <<c, t + k>>]

LEMMA UnreadIsSeq ==
  ASSUME NEW c \in Pcbs, NEW r \in Nat, NEW t \in Nat, t <= r
  PROVE  /\ UnreadOf(c, r, t) \in Seq(Pcbs \X Nat) /\ Len(UnreadOf(c, r, t)) = r - t
         /\ \A k \in 1 .. r - t : UnreadOf(c, r, t)[k] = <<c, t + k>>
<1> DEFINE a == UnreadOf(c, r, t)
<1>1. a = [k \in 1 .. r - t |-> <<c, t + k>>]
  BY DEF UnreadOf
<1> HIDE DEF a
<1>2. a \in Seq(Pcbs \X Nat)
  BY <1>1, SeqDef
<1>3. Len(a) = r - t
  BY <1>1, <1>2, LenProperties
<1>4. \A k \in 1 .. r - t : a[k] = <<c, t + k>>
  BY <1>1
<1> QED
  BY <1>2, <1>3, <1>4, Zenon DEF a

LEMMA UnreadMore ==
  ASSUME NEW c \in Pcbs, NEW r \in Nat, NEW t \in Nat, t <= r
  PROVE  UnreadOf(c, r + 1, t) = Append(UnreadOf(c, r, t), <<c, r + 1>>)
<1> DEFINE e == <<c, r + 1>>
           a == UnreadOf(c, r, t)
           b == UnreadOf(c, r + 1, t)
           z == Append(a, e)
<1>1. /\ a \in Seq(Pcbs \X Nat) /\ Len(a) = r - t
      /\ \A k \in 1 .. r - t : a[k] = <<c, t + k>>
  BY UnreadIsSeq, Zenon
<1>2. /\ b \in Seq(Pcbs \X Nat) /\ Len(b) = r + 1 - t
      /\ \A k \in 1 .. r + 1 - t : b[k] = <<c, t + k>>
  <2> DEFINE m == r + 1
  <2>1. m \in Nat /\ t <= m
    OBVIOUS
  <2> HIDE DEF m
  <2>2. /\ UnreadOf(c, m, t) \in Seq(Pcbs \X Nat) /\ Len(UnreadOf(c, m, t)) = m - t
        /\ \A k \in 1 .. m - t : UnreadOf(c, m, t)[k] = <<c, t + k>>
    BY <2>1, UnreadIsSeq, Zenon
  <2> QED
    BY <2>2 DEF m
<1>3. e \in Pcbs \X Nat
  OBVIOUS
<1> HIDE DEF e, a, b
<1>4. /\ z \in Seq(Pcbs \X Nat) /\ Len(z) = Len(a) + 1
      /\ z[Len(a) + 1] = e /\ \A k \in 1 .. Len(a) : z[k] = a[k]
  BY <1>1, <1>3, AppendProperties
<1> HIDE DEF z
<1>5. ASSUME NEW k \in 1 .. Len(b)
      PROVE  b[k] = z[k]
  <2>1. CASE k \in 1 .. r - t
    BY <1>1, <1>2, <1>4, <2>1, Zenon
  <2>2. CASE k = r + 1 - t
    <3>1. b[k] = <<c, r + 1>>
      BY <1>2, <2>2
    <3>2. z[k] = e
      BY <1>1, <1>4, <2>2
    <3> QED
      BY <3>1, <3>2 DEF e
  <2> QED
    BY <1>2, <2>1, <2>2
<1>6. Len(b) = Len(z)
  BY <1>1, <1>2, <1>4
<1>7. b = z
  BY <1>2, <1>4, <1>5, <1>6, SeqEqual, Zenon
<1> QED
  BY <1>7 DEF a, b, e, z

LEMMA UnreadLess ==
  ASSUME NEW c \in Pcbs, NEW r \in Nat, NEW t \in Nat, t <= r,
         NEW n \in 1 .. Len(UnreadOf(c, r, t))
  PROVE  /\ t + n <= r /\ t + n \in Nat /\ UnreadOf(c, r, t)[n] = <<c, t + n>>
         /\ UnreadOf(c, r, t + n) = SubSeq(UnreadOf(c, r, t), n + 1, Len(UnreadOf(c, r, t)))
<1> DEFINE a == UnreadOf(c, r, t)
           b == UnreadOf(c, r, t + n)
           d == SubSeq(a, n + 1, Len(a))
<1>1. /\ a \in Seq(Pcbs \X Nat) /\ Len(a) = r - t
      /\ \A k \in 1 .. r - t : a[k] = <<c, t + k>>
  BY UnreadIsSeq, Zenon
<1>2. n \in 1 .. Len(a) /\ t + n <= r /\ t + n \in Nat
  BY <1>1
<1>3. /\ b \in Seq(Pcbs \X Nat) /\ Len(b) = r - (t + n)
      /\ \A k \in 1 .. r - (t + n) : b[k] = <<c, t + n + k>>
  BY <1>2, UnreadIsSeq, Zenon
<1>4. d = SubSeq(a, n + 1, Len(a))
  OBVIOUS
<1> HIDE DEF a, b, d
<1>5. /\ d \in Seq(Pcbs \X Nat) /\ Len(d) = Len(a) - n
      /\ \A k \in 1 .. Len(d) : d[k] = a[k + n] /\ k + n \in 1 .. Len(a)
  <2>1. a \in Seq(Pcbs \X Nat) /\ n \in 1 .. Len(a) /\ d = SubSeq(a, n + 1, Len(a))
    BY <1>1, <1>2, <1>4
  <2> DEFINE S == Pcbs \X Nat
  <2>2. a \in Seq(S)
    BY <2>1
  <2> HIDE DEF S
  <2>3. /\ d \in Seq(S) /\ Len(d) = Len(a) - n
        /\ \A k \in 1 .. Len(d) : d[k] = a[k + n] /\ k + n \in 1 .. Len(a)
    BY <2>1, <2>2, DropAt, SMTT(60)
  <2> QED
    BY <2>3 DEF S
<1>6. ASSUME NEW k \in 1 .. Len(b)
      PROVE  b[k] = d[k]
  <2>a. k \in 1 .. r - (t + n) /\ Len(d) = r - (t + n)
    BY <1>1, <1>2, <1>3, <1>5
  <2>1. k \in 1 .. Len(d) /\ b[k] = <<c, t + n + k>>
    BY <1>3, <2>a, Zenon
  <2>2. d[k] = <<c, t + (k + n)>>
    BY <1>1, <1>5, <2>1, Zenon
  <2>3. t + n + k = t + (k + n)
    BY <1>3
  <2> QED
    BY <2>1, <2>2, <2>3
<1>7. Len(b) = Len(d)
  BY <1>1, <1>2, <1>3, <1>5
<1>8. b = d
  BY <1>3, <1>5, <1>6, <1>7, SeqEqual, Zenon
<1>9. a[n] = <<c, t + n>>
  BY <1>1, <1>2, ZenonT(40)
<1> QED
  BY <1>2, <1>8, <1>9 DEF a, b, d

LEMMA GainedOne ==
  ASSUME NEW x, Typed(x), One(x), NEW c \in Pcbs, LiveIn(x, c), NEW y, Gained(x, y, c)
  PROVE  One(y)
<1> DEFINE id == x.pcb[c].arg
           n  == x.pcb[c].rcvd + 1
<1>1. /\ id \in Ids /\ x.active \in Ids /\ x \in StateType
      /\ x.pcb[c].rcvd \in Nat /\ x.pcb[c].taken \in Nat /\ x.pcb[c].taken <= x.pcb[c].rcvd
      /\ x.slot[id].buf = UnreadIn(x, c)
  BY LiveArg, StateParts, PcbParts, KeptHalves DEF Typed, One, Streams
<1>2. /\ y.myPcb = x.myPcb /\ y.active = x.active /\ \A d \in Pcbs \ {c} : y.pcb[d] = x.pcb[d]
      /\ y.pcb[c].st = x.pcb[c].st /\ y.pcb[c].arg = id /\ y.pcb[c].poll = x.pcb[c].poll
      /\ (y.pcb[c].pending <=> x.pcb[c].pending) /\ y.pcb[c].taken = x.pcb[c].taken
      /\ \A i \in Ids : y.slot[i].connected <=> x.slot[i].connected
      /\ \A i \in Ids : i # id => y.slot[i].buf = x.slot[i].buf
      /\ \/ y.pcb[c].rcvd = x.pcb[c].rcvd /\ y.slot[id].buf = x.slot[id].buf
         \/ y.pcb[c].rcvd = n /\ y.slot[id].buf = Append(x.slot[id].buf, <<c, n>>)
  BY Zenon DEF Gained
<1>a. /\ y.myPcb = x.myPcb /\ y.active = x.active /\ \A d \in Pcbs \ {c} : y.pcb[d] = x.pcb[d]
      /\ y.pcb[c].st = x.pcb[c].st /\ y.pcb[c].arg = x.pcb[c].arg /\ y.pcb[c].poll = x.pcb[c].poll
      /\ (y.pcb[c].pending <=> x.pcb[c].pending)
  BY <1>2, Zenon
<1>3. \A d \in Pcbs : /\ LiveIn(y, d) <=> LiveIn(x, d)
                      /\ y.pcb[d].st = x.pcb[d].st /\ y.pcb[d].arg = x.pcb[d].arg
                      /\ y.pcb[d].poll = x.pcb[d].poll /\ (y.pcb[d].pending <=> x.pcb[d].pending)
  BY <1>a DEF LiveIn
<1>4. Alone(y)
  BY <1>a, <1>3 DEF One, Alone
<1>5. Told(y)
  <2>1. y.slot[x.active].connected <=> x.slot[x.active].connected
    BY <1>1, <1>2, Zenon
  <2>2. y.myPcb = x.myPcb /\ y.active = x.active /\ x.myPcb \in Pcbs \cup {NoConn}
    BY <1>1, <1>2, StateParts, ZenonT(40)
  <2> QED
    BY <1>3, <2>1, <2>2 DEF One, Told
<1>6. y.slot[id].buf = UnreadIn(y, c) /\ y.pcb[c].taken <= y.pcb[c].rcvd
  <2>1. CASE y.pcb[c].rcvd = x.pcb[c].rcvd /\ y.slot[id].buf = x.slot[id].buf
    BY <1>1, <1>2, <2>1 DEF UnreadIn
  <2>2. CASE y.pcb[c].rcvd = n /\ y.slot[id].buf = Append(x.slot[id].buf, <<c, n>>)
    <3> DEFINE r == x.pcb[c].rcvd
               t == x.pcb[c].taken
    <3>1. /\ UnreadIn(x, c) = UnreadOf(c, r, t) /\ UnreadIn(y, c) = UnreadOf(c, r + 1, t)
          /\ r \in Nat /\ t \in Nat /\ t <= r
          /\ y.slot[id].buf = Append(UnreadIn(x, c), <<c, r + 1>>)
          /\ y.pcb[c].taken = t /\ y.pcb[c].rcvd = r + 1
      BY <1>1, <1>2, <2>2, Zenon DEF UnreadIn, UnreadOf
    <3> HIDE DEF r, t, id, n
    <3>2. UnreadOf(c, r + 1, t) = Append(UnreadOf(c, r, t), <<c, r + 1>>)
      BY <3>1, UnreadMore, Zenon
    <3> QED
      BY <3>1, <3>2
  <2> QED
    BY <1>2, <2>1, <2>2, ZenonT(40)
<1>7. Streams(y)
  <2> SUFFICES ASSUME NEW d \in Pcbs, LiveIn(y, d), d # c
               PROVE  y.pcb[d].taken <= y.pcb[d].rcvd /\ y.slot[y.pcb[d].arg].buf = UnreadIn(y, d)
    BY <1>2, <1>6, ZenonT(40) DEF Streams
  <2>1. LiveIn(x, d) /\ y.pcb[d] = x.pcb[d]
    BY <1>2, <1>3, Zenon
  <2>2. x.pcb[d].arg \in Ids /\ x.pcb[d].arg # id
    BY <2>1, Apart DEF One
  <2>3. UnreadIn(y, d) = UnreadIn(x, d)
    BY <2>1 DEF UnreadIn
  <2> QED
    BY <1>2, <2>1, <2>2, <2>3, KeptHalves, ZenonT(90) DEF One, Streams
<1>8. Owned(y)
  <2>1. ASSUME NEW i \in Ids, y.slot[i].buf = x.slot[i].buf
        PROVE  \A k \in 1 .. Len(y.slot[i].buf) :
                 LiveIn(y, y.slot[i].buf[k][1]) => y.pcb[y.slot[i].buf[k][1]].arg = i
    <3> SUFFICES ASSUME NEW k \in 1 .. Len(y.slot[i].buf)
                 PROVE  LiveIn(y, y.slot[i].buf[k][1]) => y.pcb[y.slot[i].buf[k][1]].arg = i
      BY ZenonT(40)
    <3> DEFINE d == x.slot[i].buf[k][1]
    <3>1. d \in Pcbs /\ (LiveIn(x, d) => x.pcb[d].arg = i) /\ d = y.slot[i].buf[k][1]
      BY <1>1, <2>1, BufParts, KeptHalves, SMTT(60) DEF One, Owned
    <3> HIDE DEF d, id, n
    <3> QED
      BY <1>3, <3>1, ZenonT(40)
  <2>2. CASE y.slot[id].buf = x.slot[id].buf
    BY <1>2, <2>1, <2>2, ZenonT(90) DEF Owned
  <2>3. CASE y.slot[id].buf # x.slot[id].buf
    <3>1. \A k \in 1 .. Len(UnreadIn(y, c)) : UnreadIn(y, c)[k][1] = c
      <4> DEFINE r == y.pcb[c].rcvd
                 t == y.pcb[c].taken
      <4>1. r \in Nat /\ t \in Nat /\ t <= r /\ UnreadIn(y, c) = UnreadOf(c, r, t)
        <5>1. x.pcb[c].rcvd \in Nat /\ n \in Nat /\ y.pcb[c].rcvd \in {x.pcb[c].rcvd, n}
          <6> HIDE DEF id
          <6> QED
            BY <1>1, <1>2
        <5>2. x.pcb[c].taken \in Nat /\ y.pcb[c].taken = x.pcb[c].taken
          BY <1>1, <1>2, Zenon
        <5> QED
          BY <1>6, <5>1, <5>2, Zenon DEF UnreadIn, UnreadOf
      <4> HIDE DEF r, t, id, n
      <4>2. /\ Len(UnreadOf(c, r, t)) = r - t
            /\ \A k \in 1 .. r - t : UnreadOf(c, r, t)[k] = <<c, t + k>>
        BY <4>1, UnreadIsSeq, Zenon
      <4>3. \A k \in 1 .. r - t : UnreadIn(y, c)[k][1] = c
        BY <4>1, <4>2
      <4> QED
        BY <4>1, <4>2, <4>3
    <3>2. \A k \in 1 .. Len(y.slot[id].buf) :
            LiveIn(y, y.slot[id].buf[k][1]) => y.pcb[y.slot[id].buf[k][1]].arg = id
      <4>1. y.pcb[c].arg = id /\ y.slot[id].buf = UnreadIn(y, c)
        BY <1>2, <1>6, Zenon
      <4> HIDE DEF id, n
      <4> QED
        BY <3>1, <4>1
    <3>3. \A i \in Ids : i # id => y.slot[i].buf = x.slot[i].buf
      BY <1>2, Zenon
    <3> HIDE DEF id, n
    <3> QED
      BY <2>1, <3>2, <3>3, Zenon DEF Owned
  <2> QED
    BY <2>2, <2>3, ZenonT(40)
<1> QED
  BY <1>4, <1>5, <1>7, <1>8, KeptHalves DEF One

LEMMA TookOne ==
  ASSUME NEW x, Typed(x), One(x), NEW k, NEW y, Took(x, y, k)
  PROVE  One(y)
<1> DEFINE buf == x.slot[x.active].buf
           new == y.slot[x.active].buf
           c == buf[k][1]
<1>1. /\ x \in StateType /\ x.active \in Ids /\ c \in Pcbs /\ k \in 1 .. Len(buf)
  BY StateParts, Zenon DEF Typed, Took
<1>a. buf \in Seq(Pcbs \X (1 .. MaxRcvd))
  BY <1>1, StateParts, SlotParts
<1>2. /\ y.myPcb = x.myPcb /\ y.active = x.active /\ \A d \in Pcbs \ {c} : y.pcb[d] = x.pcb[d]
      /\ y.pcb[c].st = x.pcb[c].st /\ y.pcb[c].arg = x.pcb[c].arg /\ y.pcb[c].poll = x.pcb[c].poll
      /\ (y.pcb[c].pending <=> x.pcb[c].pending)
      /\ y.pcb[c].rcvd = x.pcb[c].rcvd /\ y.pcb[c].taken = buf[k][2]
      /\ \A i \in Ids : i # x.active => y.slot[i] = x.slot[i]
      /\ new = SubSeq(buf, k + 1, Len(buf))
      /\ \A i \in Ids : y.slot[i].connected <=> x.slot[i].connected
  BY <1>1, Zenon DEF Took
<1>3. \A d \in Pcbs : /\ LiveIn(y, d) <=> LiveIn(x, d)
                      /\ y.pcb[d].st = x.pcb[d].st /\ y.pcb[d].arg = x.pcb[d].arg
                      /\ y.pcb[d].poll = x.pcb[d].poll /\ (y.pcb[d].pending <=> x.pcb[d].pending)
  <2> HIDE DEF c
  <2>1. /\ \A d \in Pcbs \ {c} : y.pcb[d] = x.pcb[d]
        /\ y.pcb[c].st = x.pcb[c].st /\ y.pcb[c].arg = x.pcb[c].arg /\ y.pcb[c].poll = x.pcb[c].poll
        /\ (y.pcb[c].pending <=> x.pcb[c].pending)
    BY <1>2
  <2> QED
    BY <2>1, ZenonT(40) DEF LiveIn
<1>c. y.myPcb = x.myPcb /\ y.active = x.active
  BY <1>2, Zenon
<1>4. Alone(y)
  BY <1>c, <1>3 DEF One, Alone
<1>5. Told(y)
  <2>1. y.slot[x.active].connected <=> x.slot[x.active].connected
    BY <1>1, <1>2, Zenon
  <2>2. y.myPcb = x.myPcb /\ y.active = x.active /\ x.myPcb \in Pcbs \cup {NoConn}
    BY <1>1, <1>2, StateParts, Zenon
  <2> QED
    BY <1>3, <2>1, <2>2 DEF One, Told
<1>b. /\ new \in Seq(Pcbs \X (1 .. MaxRcvd)) /\ Len(new) = Len(buf) - k
      /\ \A j \in 1 .. Len(new) : new[j] = buf[j + k] /\ j + k \in 1 .. Len(buf)
  <2>1. k \in 1 .. Len(buf) /\ new = SubSeq(buf, k + 1, Len(buf))
    BY <1>1, <1>2, Zenon
  <2> HIDE DEF buf, new, c
  <2> QED
    BY <1>a, <2>1, DropAt, SMTT(60)
<1>6. Streams(y)
  <2> SUFFICES ASSUME NEW d \in Pcbs, LiveIn(y, d)
               PROVE  y.pcb[d].taken <= y.pcb[d].rcvd /\ y.slot[y.pcb[d].arg].buf = UnreadIn(y, d)
    BY DEF Streams
  <2>1. LiveIn(x, d) /\ x.pcb[d].arg \in Ids /\ y.pcb[d].arg = x.pcb[d].arg
    BY <1>3, LiveArg
  <2>2. /\ x.pcb[d].taken <= x.pcb[d].rcvd /\ x.slot[x.pcb[d].arg].buf = UnreadIn(x, d)
        /\ x.pcb[d].rcvd \in Nat /\ x.pcb[d].taken \in Nat
    BY <1>1, <2>1, KeptHalves, StateParts, PcbParts, SMTT(60) DEF One, Streams
  <2>4. CASE x.pcb[d].arg = x.active
    <3> DEFINE r == x.pcb[d].rcvd
               t == x.pcb[d].taken
    <3>1. /\ buf = UnreadOf(d, r, t) /\ r \in Nat /\ t \in Nat /\ t <= r
      BY <2>2, <2>4 DEF UnreadIn, UnreadOf
    <3>2. k \in 1 .. Len(buf) /\ new = SubSeq(buf, k + 1, Len(buf))
      BY <1>1, <1>2, Zenon
    <3> HIDE DEF r, t, c, buf, new
    <3>3. k \in 1 .. Len(UnreadOf(d, r, t))
      BY <3>1, <3>2
    <3>4. /\ t + k <= r /\ t + k \in Nat /\ UnreadOf(d, r, t)[k] = <<d, t + k>>
          /\ UnreadOf(d, r, t + k) = SubSeq(UnreadOf(d, r, t), k + 1, Len(UnreadOf(d, r, t)))
      BY <3>1, <3>3, UnreadLess, Zenon
    <3>5. d = c /\ buf[k][2] = t + k
      BY <3>1, <3>4 DEF c
    <3>6. y.pcb[d].taken = t + k /\ y.pcb[d].rcvd = r
      BY <1>2, <3>5, ZenonT(40) DEF r
    <3>7. UnreadIn(y, d) = UnreadOf(d, r, t + k)
      BY <3>6 DEF UnreadIn, UnreadOf
    <3>8. y.slot[y.pcb[d].arg].buf = new
      BY <2>1, <2>4 DEF new
    <3> QED
      BY <3>1, <3>2, <3>4, <3>6, <3>7, <3>8
  <2>5. CASE x.pcb[d].arg # x.active
    <3>1. d # c
      BY <1>1, <2>1, <2>5, KeptHalves, ZenonT(40) DEF One, Owned
    <3>2. y.pcb[d] = x.pcb[d] /\ y.slot[x.pcb[d].arg] = x.slot[x.pcb[d].arg]
      BY <1>2, <2>1, <2>5, <3>1, ZenonT(40)
    <3>3. UnreadIn(y, d) = UnreadIn(x, d)
      BY <3>2, ZenonT(40) DEF UnreadIn
    <3> QED
      BY <2>2, <3>2, <3>3
  <2> QED
    BY <2>4, <2>5
<1>7. Owned(y)
  <2> SUFFICES ASSUME NEW i \in Ids, NEW j \in 1 .. Len(y.slot[i].buf),
                      LiveIn(y, y.slot[i].buf[j][1])
               PROVE  y.pcb[y.slot[i].buf[j][1]].arg = i
    BY DEF Owned
  <2>1. PICK l \in 1 .. Len(x.slot[i].buf) : y.slot[i].buf[j] = x.slot[i].buf[l]
    <3>1. CASE i # x.active
      BY <1>2, <3>1, Zenon
    <3>2. CASE i = x.active
      <4>1. j \in 1 .. Len(new) /\ y.slot[i].buf = new /\ x.slot[i].buf = buf
        BY <3>2
      <4> HIDE DEF buf, new
      <4>2. new[j] = buf[j + k] /\ j + k \in 1 .. Len(buf)
        BY <1>b, <4>1
      <4> QED
        BY <4>1, <4>2
    <3> QED
      BY <3>1, <3>2
  <2> DEFINE d == x.slot[i].buf[l][1]
  <2>2. d \in Pcbs /\ (LiveIn(x, d) => x.pcb[d].arg = i) /\ d = y.slot[i].buf[j][1]
    BY <1>1, <2>1, BufParts, KeptHalves, Zenon DEF One, Owned
  <2> HIDE DEF d
  <2> QED
    BY <1>3, <2>2, ZenonT(40)
<1> QED
  BY <1>4, <1>5, <1>6, <1>7, KeptHalves DEF One

-----------------------------------------------------------------------------
(* While no clock runs, every kind of step keeps the handle live.          *)
LEMMA SameHeld ==
  ASSUME NEW x, Typed(x), Held(x), Still(x), ~ClockRuns, NEW y, Same(x, y)
  PROVE  Held(y) /\ Still(y)
<1>1. Held(y)
  <2>1. x.myPcb \in Pcbs \cup {NoConn}
    BY StateParts, SMTT(60) DEF Typed
  <2> QED
    BY <2>1, SMTT(60) DEF Same, Held, LiveIn
<1>2. Still(y)
  BY DEF Same, Still
<1> QED
  BY <1>1, <1>2, ZenonT(40)

\* The clock standing still, no time limit has passed.
LEMMA NoLimit ==
  ASSUME NEW x, Still(x)
  PROVE  ~\E i \in Ids : x.slot[i].quiet > Timeout \/ x.slot[i].since > Timeout
BY LwipAssumption DEF Still

LEMMA EndedHeld ==
  ASSUME NEW x, Typed(x), Held(x), Still(x), NEW c \in Pcbs, NEW y, Ended(x, y, c)
  PROVE  Held(y) /\ Still(y)
<1>1. /\ Ends(x, y, c) /\ x.myPcb \in Pcbs \cup {NoConn} /\ c # NoConn
      /\ LiveIn(x, c) /\ c = x.myPcb /\ x.pcb[c].arg = x.active => y.myPcb = NoConn
  BY StateParts, NoLimit DEF Typed, Ended, Pcbs, NoConn
<1>2. c = x.myPcb => y.myPcb = NoConn
  BY <1>1 DEF Held
<1>3. Held(y)
  BY <1>1, <1>2 DEF Held, Ends, LiveIn
<1>4. Still(y)
  BY <1>1 DEF Ends, Still
<1> QED
  BY <1>3, <1>4

LEMMA ReleasedHeld ==
  ASSUME NEW x, Still(x), NEW y, Released(x, y)
  PROVE  Held(y) /\ Still(y)
BY DEF Released, Held, Still

LEMMA PromotedHeld ==
  ASSUME NEW x, Still(x), NEW c \in Pcbs, NEW y, Promoted(x, y, c)
  PROVE  Held(y) /\ Still(y)
<1>1. Held(y)
  BY DEF Promoted, Held, LiveIn
<1>2. Still(y)
  BY SMTT(60) DEF Promoted, Still
<1> QED
  BY <1>1, <1>2

LEMMA IncomingHeld ==
  ASSUME NEW x, Typed(x), Held(x), Still(x), NEW c \in Pcbs, x.pcb[c].st = "unused",
         NEW y, Incoming(x, y, c)
  PROVE  Held(y) /\ Still(y)
<1>1. x.myPcb \in Pcbs \cup {NoConn} /\ Ids = {x.active, 1 - x.active}
  BY StateParts, SMTT(60) DEF Typed, Ids
<1>2. c # x.myPcb
  BY DEF Typed, Wired, Pcbs, NoConn
<1>a. /\ x.myPcb = NoConn => y.myPcb = c /\ y.active = 1 - x.active
      /\ x.myPcb # NoConn => y.myPcb = x.myPcb /\ y.active = x.active
      /\ \A d \in Pcbs \ {c} : y.pcb[d] = x.pcb[d]
      /\ y.pcb[c].st = "OPEN" /\ y.pcb[c].arg = 1 - x.active
  BY DEF Incoming
<1>3. x.myPcb = NoConn => Held(y)
  BY <1>a DEF Held, LiveIn
<1>4. x.myPcb # NoConn => Held(y)
  BY <1>1, <1>2, <1>a DEF Held, LiveIn
<1>5. Still(y)
  BY <1>1 DEF Incoming, Still
<1> QED
  BY <1>3, <1>4, <1>5, ZenonT(40)

LEMMA JoinedHeld ==
  ASSUME NEW x, Typed(x), Held(x), Still(x), NEW c \in Pcbs, NEW y, Joined(x, y, c)
  PROVE  Held(y) /\ Still(y)
<1>1. x.myPcb \in Pcbs \cup {NoConn}
  BY StateParts DEF Typed
<1>2. \A d \in Pcbs : LiveIn(x, d) => LiveIn(y, d) /\ y.pcb[d].arg = x.pcb[d].arg
  BY DEF Joined, LiveIn
<1>3. Held(y)
  BY <1>1, <1>2 DEF Joined, Held
<1>4. Still(y)
  BY DEF Joined, Still
<1> QED
  BY <1>3, <1>4

LEMMA BegunHeld ==
  ASSUME NEW x, Still(x), NEW c \in Pcbs, NEW y, Begun(x, y, c)
  PROVE  (y.pcb[c].st = "SYN_SENT" => Held(y)) /\ Still(y)
<1>1. y.pcb[c].st = "SYN_SENT" => Held(y)
  BY DEF Begun, Held, LiveIn
<1>2. Still(y)
  BY DEF Begun, Still
<1> QED
  BY <1>1, <1>2

LEMMA GainedHeld ==
  ASSUME NEW x, Typed(x), Held(x), Still(x), NEW c \in Pcbs, NEW y, Gained(x, y, c)
  PROVE  Held(y) /\ Still(y)
<1>1. /\ y.myPcb = x.myPcb /\ y.active = x.active /\ \A d \in Pcbs \ {c} : y.pcb[d] = x.pcb[d]
      /\ y.pcb[c].st = x.pcb[c].st /\ y.pcb[c].arg = x.pcb[c].arg
      /\ \A i \in Ids : y.slot[i].quiet \in {0, x.slot[i].quiet} /\ y.slot[i].since = x.slot[i].since
  BY Zenon DEF Gained
<1>2. \A d \in Pcbs : LiveIn(x, d) => LiveIn(y, d) /\ y.pcb[d].arg = x.pcb[d].arg
  BY <1>1 DEF LiveIn
<1>3. x.myPcb \in Pcbs \cup {NoConn}
  BY StateParts DEF Typed
<1> QED
  BY <1>1, <1>2, <1>3 DEF Held, Still

LEMMA TookHeld ==
  ASSUME NEW x, Typed(x), Held(x), Still(x), NEW k, NEW y, Took(x, y, k)
  PROVE  Held(y) /\ Still(y)
<1> DEFINE c == x.slot[x.active].buf[k][1]
<1>1. /\ y.myPcb = x.myPcb /\ y.active = x.active /\ \A d \in Pcbs \ {c} : y.pcb[d] = x.pcb[d]
      /\ y.pcb[c].st = x.pcb[c].st /\ y.pcb[c].arg = x.pcb[c].arg
      /\ \A i \in Ids : y.slot[i].quiet = x.slot[i].quiet /\ y.slot[i].since = x.slot[i].since
  BY Zenon DEF Took
<1> HIDE DEF c
<1>2. \A d \in Pcbs : LiveIn(x, d) => LiveIn(y, d) /\ y.pcb[d].arg = x.pcb[d].arg
  BY <1>1 DEF LiveIn
<1>3. x.myPcb \in Pcbs \cup {NoConn}
  BY StateParts DEF Typed
<1> QED
  BY <1>1, <1>2, <1>3 DEF Held, Still

\* lwIP frees a pcb that was closed.
Gone(x, y, c) ==
  /\ x.pcb[c].st = "CLOSING" /\ y \in StateType
  /\ y.active = x.active /\ y.myPcb = x.myPcb /\ y.slot = x.slot
  /\ \A d \in Pcbs \ {c} : y.pcb[d] = x.pcb[d]
  /\ y.pcb[c].st = "gone" /\ ~y.pcb[c].pending

LEMMA GoneKeeps ==
  ASSUME NEW x, Typed(x), NEW c \in Pcbs, NEW y, Gone(x, y, c)
  PROVE  /\ Typed(y)
         /\ One(x) => One(y)
         /\ Held(x) /\ Still(x) => Held(y) /\ Still(y)
<1>1. /\ y \in StateType /\ y.active = x.active /\ y.myPcb = x.myPcb /\ y.slot = x.slot
      /\ \A d \in Pcbs \ {c} : y.pcb[d] = x.pcb[d]
      /\ x.pcb[c].st = "CLOSING" /\ y.pcb[c].st = "gone" /\ ~y.pcb[c].pending
  BY DEF Gone
<1>2. Typed(y)
  BY <1>1, OtherTyped DEF LiveIn
<1>3. \A d \in Pcbs : LiveIn(y, d) <=> LiveIn(x, d) /\ d # c
  BY <1>1 DEF LiveIn
<1>4. \A d \in Pcbs : LiveIn(y, d) => y.pcb[d] = x.pcb[d]
  BY <1>1, <1>3
<1>5. x.myPcb \in Pcbs \cup {NoConn}
  BY StateParts DEF Typed
<1>6. ASSUME One(x)
      PROVE  One(y)
  <2>1. Alone(y)
    <3>1. \A d \in Pcbs : (y.pcb[d].pending => x.pcb[d].pending) /\ y.pcb[d].st # "LISTEN"
      BY <1>1, <1>6 DEF One, Alone
    <3>2. \A d, e \in Pcbs : y.pcb[d].pending /\ y.pcb[e].pending => d = e
      BY <1>6, <3>1, ZenonT(40) DEF One, Alone
    <3> QED
      BY <1>1, <1>3, <1>4, <1>6, <3>1, <3>2 DEF One, Alone
  <2>2. Told(y)
    BY <1>1, <1>5, <1>6 DEF One, Told
  <2>3. Streams(y)
    <3> SUFFICES ASSUME NEW d \in Pcbs, LiveIn(y, d)
                 PROVE  /\ y.pcb[d].taken <= y.pcb[d].rcvd
                        /\ y.slot[y.pcb[d].arg].buf = UnreadIn(y, d)
      BY DEF Streams
    <3>1. LiveIn(x, d) /\ y.pcb[d] = x.pcb[d]
      BY <1>3, <1>4
    <3>2. UnreadIn(y, d) = UnreadIn(x, d)
      BY <3>1 DEF UnreadIn
    <3> QED
      BY <1>1, <1>6, <3>1, <3>2, KeptHalves DEF One, Streams
  <2>4. Owned(y)
    <3>1. \A d \in Pcbs : LiveIn(y, d) => LiveIn(x, d) /\ y.pcb[d].arg = x.pcb[d].arg
      BY <1>3, <1>4
    <3> QED
      BY <1>1, <1>6, <3>1, KeptHalves, StillOwned DEF One
  <2> QED
    BY <2>1, <2>2, <2>3, <2>4, KeptHalves DEF One
<1>7. ASSUME Held(x), Still(x)
      PROVE  Held(y) /\ Still(y)
  <2>1. Held(y)
    BY <1>1, <1>5, <1>7 DEF Held, LiveIn
  <2> QED
    BY <1>1, <1>7, <2>1 DEF Still
<1> QED
  BY <1>2, <1>6, <1>7

-----------------------------------------------------------------------------
(* Every step is of one of these kinds.                                    *)
StepOf(x, y, c) ==
  \/ Ended(x, y, c) \/ Promoted(x, y, c) \/ Joined(x, y, c) \/ Gone(x, y, c)
  \/ LiveIn(x, c) /\ Gained(x, y, c)
  \/ LiveIn(x, c) /\ \E z : Gained(x, z, c) /\ Ended(z, y, c)
  \/ /\ x.pcb[c].st = "unused" /\ Incoming(x, y, c)
     /\ (\E d \in Pcbs : x.pcb[d].st = "LISTEN") \/ \A d \in Pcbs : ~x.pcb[d].pending
  \/ Begun(x, y, c) /\ y.pcb[c].st # "CLOSED"
  \/ \E z : Begun(x, z, c) /\ Released(z, y)
  \/ Listened(x, y, c)

Step(x, y) ==
  \/ Same(x, y) \/ Released(x, y) \/ \E k : Took(x, y, k)
  \/ \E c \in Pcbs : StepOf(x, y, c)

\* A step in which no callback strikes.
Spared(x, y) ==
  \/ Same(x, y) \/ Released(x, y) \/ \E k : Took(x, y, k)
  \/ \E c \in Pcbs : StepOf(x, y, c) /\ ~StruckIn(x, y, c)

LEMMA StepTyped ==
  ASSUME NEW x, Typed(x), NEW y, Step(x, y)
  PROVE  Typed(y)
<1>1. ASSUME NEW c \in Pcbs, StepOf(x, y, c)
      PROVE  Typed(y)
  <2>1. CASE Ended(x, y, c)
    BY <2>1, EndedTyped DEF Ended, LiveIn
  <2>2. ASSUME NEW z, Begun(x, z, c), Released(z, y)
        PROVE  Typed(y)
    BY <2>2, BegunTyped, ReleasedTyped
  <2>3. ASSUME LiveIn(x, c), NEW z, Gained(x, z, c), Ended(z, y, c)
        PROVE  Typed(y)
    <3>1. Typed(z) /\ Ends(z, y, c) /\ z.pcb[c].st # "unused"
      BY <2>3, GainedTyped DEF Ended, LiveIn
    <3> QED
      BY <3>1, EndedTyped
  <2> QED
    BY <1>1, <2>1, <2>2, <2>3, PromotedTyped, JoinedTyped, GoneKeeps, GainedTyped, IncomingTyped,
       BegunTyped, ListenedTyped DEF StepOf
<1> QED
  BY <1>1, SameTyped, ReleasedTyped, TookTyped DEF Step

LEMMA StepOne ==
  ASSUME NEW x, Typed(x), One(x), ~ListenCalled, NEW y, Spared(x, y)
  PROVE  One(y)
<1>1. ASSUME NEW c \in Pcbs, StepOf(x, y, c), ~StruckIn(x, y, c)
      PROVE  One(y)
  <2>1. CASE Ended(x, y, c)
    <3>1. CASE LiveIn(x, c)
      BY <2>1, <3>1, EndedOne
    <3>2. CASE x.pcb[c].st = "CLOSING"
      BY <1>1, <2>1, <3>2, SparedOne DEF Ended
    <3> QED
      BY <2>1, <3>1, <3>2 DEF Ended
  <2>2. ASSUME NEW z, Begun(x, z, c), Released(z, y)
        PROVE  One(y)
    <3>1. Typed(z) /\ One(z)
      BY <2>2, BegunTyped, BegunOne
    <3> QED
      BY <2>2, <3>1, ReleasedOne DEF One
  <2>3. CASE /\ x.pcb[c].st = "unused" /\ Incoming(x, y, c)
             /\ (\E d \in Pcbs : x.pcb[d].st = "LISTEN") \/ \A d \in Pcbs : ~x.pcb[d].pending
    <3>1. \A d \in Pcbs : ~x.pcb[d].pending
      BY <2>3 DEF One, Alone
    <3> QED
      BY <2>3, <3>1, IncomingOne
  <2>4. ASSUME LiveIn(x, c), NEW z, Gained(x, z, c), Ended(z, y, c)
        PROVE  One(y)
    <3>1. Typed(z) /\ One(z)
      BY <2>4, GainedTyped, GainedOne
    <3>2. LiveIn(z, c)
      BY <2>4, ZenonT(40) DEF Gained, LiveIn
    <3> QED
      BY <2>4, <3>1, <3>2, EndedOne
  <2>5. ~Listened(x, y, c)
    BY DEF Listened
  <2> QED
    BY <1>1, <2>1, <2>2, <2>3, <2>4, <2>5, PromotedOne, JoinedOne, GoneKeeps, GainedOne, BegunOne
       DEF StepOf
<1>2. Released(x, y) => One(y)
  BY ReleasedOne DEF One
<1> QED
  BY <1>1, <1>2, SameOne, TookOne DEF Spared

LEMMA StepHeld ==
  ASSUME NEW x, Typed(x), Held(x), Still(x), ~ClockRuns, ~ListenCalled, NEW y, Step(x, y)
  PROVE  Held(y) /\ Still(y)
<1>1. ASSUME NEW c \in Pcbs, StepOf(x, y, c)
      PROVE  Held(y) /\ Still(y)
  <2>1. CASE Begun(x, y, c) /\ y.pcb[c].st # "CLOSED"
    <3>1. y.pcb[c].st = "SYN_SENT"
      BY <2>1 DEF Begun
    <3> QED
      BY <2>1, <3>1, BegunHeld, ZenonT(40)
  <2>2. ASSUME NEW z, Begun(x, z, c), Released(z, y)
        PROVE  Held(y) /\ Still(y)
    <3>1. Still(z)
      BY <2>2, BegunHeld
    <3> QED
      BY <2>2, <3>1, ReleasedHeld
  <2>3. ASSUME LiveIn(x, c), NEW z, Gained(x, z, c), Ended(z, y, c)
        PROVE  Held(y) /\ Still(y)
    <3>1. Typed(z) /\ Held(z) /\ Still(z)
      BY <2>3, GainedTyped, GainedHeld
    <3> QED
      BY <2>3, <3>1, EndedHeld
  <2>4. ~Listened(x, y, c)
    BY DEF Listened
  <2> QED
    BY <1>1, <2>1, <2>2, <2>3, <2>4, EndedHeld, PromotedHeld, JoinedHeld, GoneKeeps, GainedHeld, IncomingHeld DEF StepOf
<1> QED
  BY <1>1, SameHeld, ReleasedHeld, TookHeld DEF Step

-----------------------------------------------------------------------------
(* lwIP's actions.                                                         *)

\* Only what c's control does not depend on has changed, and when c's connection state was heard of.
Touched(x, y, c) ==
  /\ y \in StateType /\ y.myPcb = x.myPcb /\ y.active = x.active
  /\ \A d \in Pcbs \ {c} : y.pcb[d] = x.pcb[d]
  /\ y.pcb[c].st = x.pcb[c].st /\ y.pcb[c].arg = x.pcb[c].arg /\ y.pcb[c].cb = x.pcb[c].cb
  /\ y.pcb[c].poll = x.pcb[c].poll /\ (y.pcb[c].pending <=> x.pcb[c].pending)
  /\ y.pcb[c].rcvd = x.pcb[c].rcvd /\ y.pcb[c].taken = x.pcb[c].taken
  /\ \A i \in Ids : /\ i # x.pcb[c].arg => y.slot[i] = x.slot[i]
                    /\ y.slot[i].connected <=> x.slot[i].connected
                    /\ y.slot[i].buf = x.slot[i].buf
                    /\ y.slot[i].quiet \in {0, x.slot[i].quiet} /\ y.slot[i].since = x.slot[i].since

Finned(x, c) == [x EXCEPT !.pcb[c].fin = TRUE]
Busied(x, c, b) == [x EXCEPT !.pcb[c].busy = b]

LEMMA FinnedFacts ==
  ASSUME NEW x \in StateType, NEW c \in Pcbs, NEW y, y = Finned(x, c)
  PROVE  Touched(x, y, c)
<1> DEFINE p == x.pcb[c]
           q == [p EXCEPT !.fin = TRUE]
           u == [x.pcb EXCEPT ![c] = q]
<1>1. p \in PcbType /\ x.pcb \in [Pcbs -> PcbType] /\ x.slot \in [Ids -> SlotType]
  BY StateParts
<1>2. y = [x EXCEPT !.pcb = u]
  BY DEF Finned, StateType
<1>3. /\ q \in PcbType /\ q.st = p.st /\ q.arg = p.arg /\ q.cb = p.cb /\ q.poll = p.poll
      /\ (q.pending <=> p.pending) /\ q.rcvd = p.rcvd /\ q.taken = p.taken
  BY <1>1, Zenon DEF PcbType
<1> HIDE DEF q
<1>4. u \in [Pcbs -> PcbType] /\ u[c] = q /\ \A d \in Pcbs \ {c} : u[d] = x.pcb[d]
  BY <1>1, <1>3
<1> HIDE DEF u
<1>5. y \in StateType /\ y.active = x.active /\ y.myPcb = x.myPcb /\ y.slot = x.slot /\ y.pcb = u
  BY <1>2, <1>4 DEF StateType
<1> QED
  BY <1>3, <1>4, <1>5 DEF Touched

LEMMA BusiedFacts ==
  ASSUME NEW x \in StateType, NEW c \in Pcbs, NEW b \in BOOLEAN, NEW y, y = Busied(x, c, b)
  PROVE  Touched(x, y, c)
<1> DEFINE p == x.pcb[c]
           q == [p EXCEPT !.busy = b]
           u == [x.pcb EXCEPT ![c] = q]
<1>1. p \in PcbType /\ x.pcb \in [Pcbs -> PcbType] /\ x.slot \in [Ids -> SlotType]
  BY StateParts
<1>2. y = [x EXCEPT !.pcb = u]
  BY DEF Busied, StateType
<1>3. /\ q \in PcbType /\ q.st = p.st /\ q.arg = p.arg /\ q.cb = p.cb /\ q.poll = p.poll
      /\ (q.pending <=> p.pending) /\ q.rcvd = p.rcvd /\ q.taken = p.taken
  BY <1>1 DEF PcbType
<1> HIDE DEF q
<1>4. u \in [Pcbs -> PcbType] /\ u[c] = q /\ \A d \in Pcbs \ {c} : u[d] = x.pcb[d]
  BY <1>1, <1>3
<1> HIDE DEF u
<1>5. y \in StateType /\ y.active = x.active /\ y.myPcb = x.myPcb /\ y.slot = x.slot /\ y.pcb = u
  BY <1>2, <1>4 DEF StateType
<1> QED
  BY <1>3, <1>4, <1>5 DEF Touched

LEMMA HeardTouched ==
  ASSUME NEW x \in StateType, NEW c \in Pcbs, NEW y, y = Heard(x, x.pcb[c].arg)
  PROVE  Touched(x, y, c)
<1> DEFINE id == x.pcb[c].arg
<1>1. id \in Ids \cup {NoArg} /\ y = Heard(x, id) /\ id = x.pcb[c].arg
  BY StateParts, PcbParts, ZenonT(40)
<1> HIDE DEF id
<1>2. /\ y \in StateType /\ y.active = x.active /\ y.myPcb = x.myPcb /\ y.pcb = x.pcb
      /\ \A i \in Ids : /\ i # id => y.slot[i] = x.slot[i]
                        /\ i = id => y.slot[i].quiet = 0
                        /\ y.slot[i].connected = x.slot[i].connected
                        /\ y.slot[i].buf = x.slot[i].buf /\ y.slot[i].since = x.slot[i].since
  BY <1>1, HeardFacts, SMTT(60)
<1> QED
  BY <1>1, <1>2, ZenonT(40) DEF Touched

LEMMA TouchedSame ==
  ASSUME NEW x, NEW c \in Pcbs, x.pcb[c].st # "unused", x.active \in Ids, NEW y, Touched(x, y, c)
  PROVE  Same(x, y)
<1>1. \A d \in Pcbs : /\ y.pcb[d].st = x.pcb[d].st /\ y.pcb[d].arg = x.pcb[d].arg
                      /\ y.pcb[d].cb = x.pcb[d].cb /\ y.pcb[d].poll = x.pcb[d].poll
                      /\ y.pcb[d].pending <=> x.pcb[d].pending
                      /\ y.pcb[d].rcvd = x.pcb[d].rcvd /\ y.pcb[d].taken = x.pcb[d].taken
                      /\ x.pcb[d].st = "unused" => y.pcb[d] = x.pcb[d]
  BY ZenonT(40) DEF Touched
<1>2. /\ y \in StateType /\ y.myPcb = x.myPcb /\ y.active = x.active
      /\ y.slot[x.active].connected <=> x.slot[x.active].connected
      /\ \A i \in Ids : y.slot[i].buf = x.slot[i].buf
      /\ \A i \in Ids : y.slot[i].quiet \in {0, x.slot[i].quiet} /\ y.slot[i].since = x.slot[i].since
  BY ZenonT(40) DEF Touched
<1> QED
  BY <1>1, <1>2 DEF Same

LEMMA TouchedTwice ==
  ASSUME NEW x, NEW c \in Pcbs, NEW y, Touched(x, y, c), NEW z, Touched(y, z, c)
  PROVE  Touched(x, z, c)
BY SMTT(60) DEF Touched

LEMMA TouchedEnds ==
  ASSUME NEW x, NEW c \in Pcbs, NEW y, Touched(x, y, c), NEW z, Ends(y, z, c), Locally(y, z, c)
  PROVE  Ends(x, z, c) /\ Locally(x, z, c)
<1>1. Ends(x, z, c)
  BY SMTT(60) DEF Touched, Ends
<1>2. Locally(x, z, c)
  BY SMTT(60) DEF Touched, Locally
<1> QED
  BY <1>1, <1>2, ZenonT(40)

LEMMA TouchedGained ==
  ASSUME NEW x, NEW c \in Pcbs, NEW y, Touched(x, y, c), x.pcb[c].arg \in Ids, NEW z, Gained(y, z, c)
  PROVE  Gained(x, z, c)
<1> DEFINE id == x.pcb[c].arg
           n  == x.pcb[c].rcvd + 1
<1>1. /\ y.myPcb = x.myPcb /\ y.active = x.active /\ \A d \in Pcbs \ {c} : y.pcb[d] = x.pcb[d]
      /\ y.pcb[c].st = x.pcb[c].st /\ y.pcb[c].arg = id /\ y.pcb[c].cb = x.pcb[c].cb
      /\ y.pcb[c].poll = x.pcb[c].poll /\ (y.pcb[c].pending <=> x.pcb[c].pending)
      /\ y.pcb[c].rcvd + 1 = n /\ y.pcb[c].rcvd = x.pcb[c].rcvd /\ y.pcb[c].taken = x.pcb[c].taken
      /\ \A i \in Ids : /\ y.slot[i].connected <=> x.slot[i].connected
                        /\ y.slot[i].buf = x.slot[i].buf
                        /\ y.slot[i].quiet \in {0, x.slot[i].quiet} /\ y.slot[i].since = x.slot[i].since
  BY DEF Touched
<1>2. y.slot[id].buf = x.slot[id].buf
  BY <1>1
<1>3. /\ z \in StateType /\ z.myPcb = y.myPcb /\ z.active = y.active
      /\ \A d \in Pcbs \ {c} : z.pcb[d] = y.pcb[d]
      /\ z.pcb[c].st = y.pcb[c].st /\ z.pcb[c].arg = id /\ z.pcb[c].cb = y.pcb[c].cb
      /\ z.pcb[c].poll = y.pcb[c].poll /\ (z.pcb[c].pending <=> y.pcb[c].pending)
      /\ z.pcb[c].taken = y.pcb[c].taken
      /\ \A i \in Ids : /\ i # id => z.slot[i].buf = y.slot[i].buf
                        /\ z.slot[i].connected <=> y.slot[i].connected
                        /\ z.slot[i].quiet \in {0, y.slot[i].quiet}
                        /\ z.slot[i].since = y.slot[i].since
      /\ \/ z.pcb[c].rcvd = y.pcb[c].rcvd /\ z.slot[id].buf = y.slot[id].buf
         \/ /\ z.pcb[c].rcvd = n /\ z.slot[id].buf = Append(y.slot[id].buf, <<c, n>>)
            /\ Len(y.slot[id].buf) < BufSize /\ n \in 1 .. MaxRcvd
  BY <1>1, ZenonT(40) DEF Gained
<1> HIDE DEF id, n
<1>4. /\ z \in StateType /\ z.myPcb = x.myPcb /\ z.active = x.active
      /\ \A d \in Pcbs \ {c} : z.pcb[d] = x.pcb[d]
      /\ z.pcb[c].st = x.pcb[c].st /\ z.pcb[c].arg = id /\ z.pcb[c].cb = x.pcb[c].cb
      /\ z.pcb[c].poll = x.pcb[c].poll /\ (z.pcb[c].pending <=> x.pcb[c].pending)
      /\ z.pcb[c].taken = x.pcb[c].taken
      /\ \A i \in Ids : /\ i # id => z.slot[i].buf = x.slot[i].buf
                        /\ z.slot[i].connected <=> x.slot[i].connected
                        /\ z.slot[i].quiet \in {0, x.slot[i].quiet}
                        /\ z.slot[i].since = x.slot[i].since
      /\ \/ z.pcb[c].rcvd = x.pcb[c].rcvd /\ z.slot[id].buf = x.slot[id].buf
         \/ /\ z.pcb[c].rcvd = n /\ z.slot[id].buf = Append(x.slot[id].buf, <<c, n>>)
            /\ Len(x.slot[id].buf) < BufSize /\ n \in 1 .. MaxRcvd
  BY <1>1, <1>2, <1>3, ZenonT(90)
<1> QED
  BY <1>4, ZenonT(40) DEF Gained, id, n

Opened(x, c) == [x EXCEPT !.pcb[c].st = "OPEN"]
Connect(x, id) == SetConnected(x, id, TRUE)

LEMMA ConnectFacts ==
  ASSUME NEW x \in StateType, NEW id \in Ids \cup {NoArg}, NEW y, y = Connect(x, id)
  PROVE  /\ y \in StateType /\ y.active = x.active /\ y.myPcb = x.myPcb /\ y.pcb = x.pcb
         /\ \A i \in Ids : /\ i # id => y.slot[i] = x.slot[i]
                           /\ i = id => y.slot[i].connected
                           /\ y.slot[i].buf = x.slot[i].buf
                           /\ y.slot[i].quiet = x.slot[i].quiet /\ y.slot[i].since = x.slot[i].since
<1> DEFINE b == TRUE
           z == SetConnected(x, id, b)
<1>1. y = z /\ b
  BY DEF Connect
<1>a. b \in BOOLEAN /\ z = SetConnected(x, id, b)
  OBVIOUS
<1> HIDE DEF b, z
<1>2. /\ z \in StateType /\ z.active = x.active /\ z.myPcb = x.myPcb /\ z.pcb = x.pcb
      /\ \A i \in Ids : /\ i # id => z.slot[i] = x.slot[i]
                        /\ i = id => z.slot[i].connected = b
                        /\ z.slot[i].buf = x.slot[i].buf
                        /\ z.slot[i].quiet = x.slot[i].quiet /\ z.slot[i].since = x.slot[i].since
  BY <1>a, ConnectedFacts
<1> QED
  BY <1>1, <1>2, ZenonT(40)

LEMMA JoinedFacts ==
  ASSUME NEW x \in StateType, NEW c \in Pcbs, x.pcb[c].st = "SYN_SENT"
  PROVE  Joined(x, Connect(Opened(x, c), x.pcb[c].arg), c)
<1> DEFINE p == x.pcb[c]
           q == [p EXCEPT !.st = "OPEN"]
           u == [x.pcb EXCEPT ![c] = q]
           z == Opened(x, c)
           id == x.pcb[c].arg
           y == Connect(z, id)
<1>1. p \in PcbType /\ x.pcb \in [Pcbs -> PcbType] /\ x.slot \in [Ids -> SlotType]
  BY StateParts
<1>2. z = [x EXCEPT !.pcb = u]
  BY DEF Opened, StateType
<1>3. /\ q \in PcbType /\ q.st = "OPEN" /\ q.arg = p.arg /\ q.cb = p.cb
      /\ (q.pending <=> p.pending) /\ q.rcvd = p.rcvd /\ q.taken = p.taken
  BY <1>1 DEF PcbType
<1> HIDE DEF q
<1>4. u \in [Pcbs -> PcbType] /\ u[c] = q /\ \A d \in Pcbs \ {c} : u[d] = x.pcb[d]
  BY <1>1, <1>3
<1> HIDE DEF u
<1>5. id \in Ids \cup {NoArg} /\ id = x.pcb[c].arg
  BY <1>1, PcbParts, ZenonT(40)
<1> HIDE DEF z, id
<1>6. z \in StateType /\ z.active = x.active /\ z.myPcb = x.myPcb /\ z.slot = x.slot /\ z.pcb = u
  BY <1>2, <1>4, ZenonT(40) DEF StateType
<1>7. /\ y \in StateType /\ y.active = z.active /\ y.myPcb = z.myPcb /\ y.pcb = z.pcb
      /\ \A i \in Ids : /\ i # id => y.slot[i] = z.slot[i]
                        /\ i = id => y.slot[i].connected
                        /\ y.slot[i].buf = z.slot[i].buf
                        /\ y.slot[i].quiet = z.slot[i].quiet /\ y.slot[i].since = z.slot[i].since
  BY <1>5, <1>6, ConnectFacts, SMTT(60)
<1> HIDE DEF y
<1>8. Joined(x, y, c)
  BY <1>3, <1>4, <1>5, <1>6, <1>7 DEF Joined
<1> QED
  BY <1>8 DEF y, z, id

LEMMA ClockFacts ==
  ASSUME Typed(s), Clock
  PROVE  Same(s, s')
<1> DEFINE sl(i) == [s.slot[i] EXCEPT !.quiet = Older(@), !.since = Older(@)]
           v == [i \in Ids |-> sl(i)]
<1>1. s \in StateType /\ s.slot \in [Ids -> SlotType] /\ s.active \in Ids
  BY StateParts DEF Typed
<1>2. ClockRuns /\ s' = [s EXCEPT !.slot = v]
  BY Zenon DEF Clock
<1>3. ASSUME NEW i \in Ids
      PROVE  /\ sl(i) \in SlotType /\ (sl(i).connected <=> s.slot[i].connected)
             /\ sl(i).buf = s.slot[i].buf
  <2> DEFINE r == s.slot[i]
             n == Older(r.quiet)
             m == Older(r.since)
             q == [r EXCEPT !.quiet = n]
             w == [q EXCEPT !.since = m]
  <2>1. r \in SlotType /\ r.quiet \in 0 .. Timeout + 1 /\ r.since \in 0 .. Timeout + 1
    BY <1>1, SlotParts
  <2>2. n \in 0 .. Timeout + 1 /\ m \in 0 .. Timeout + 1
    BY <2>1, LwipAssumption DEF Older
  <2>3. sl(i) = w
    BY <2>1 DEF SlotType
  <2> HIDE DEF r, n, m
  <2>4. q \in SlotType /\ (q.connected <=> r.connected) /\ q.buf = r.buf
    BY <2>1, <2>2, Zenon DEF SlotType
  <2> HIDE DEF q
  <2>5. w \in SlotType /\ (w.connected <=> q.connected) /\ w.buf = q.buf
    BY <2>2, <2>4 DEF SlotType
  <2> HIDE DEF w
  <2> QED
    BY <2>3, <2>4, <2>5 DEF r
<1> HIDE DEF sl
<1>4. v \in [Ids -> SlotType] /\ \A i \in Ids : v[i] = sl(i)
  BY <1>3
<1> HIDE DEF v
<1>5. s' \in StateType /\ s'.active = s.active /\ s'.myPcb = s.myPcb /\ s'.slot = v /\ s'.pcb = s.pcb
  BY <1>1, <1>2, <1>4 DEF StateType
<1> QED
  BY <1>1, <1>2, <1>3, <1>4, <1>5 DEF Same

LEMMA GoneFacts ==
  ASSUME NEW x \in StateType, NEW c \in Pcbs, x.pcb[c].st = "CLOSING"
  PROVE  Gone(x, Remove(x, c), c)
<1> DEFINE z == Remove(x, c)
<1>1. /\ z \in StateType /\ z.active = x.active /\ z.myPcb = x.myPcb /\ z.slot = x.slot
      /\ \A d \in Pcbs \ {c} : z.pcb[d] = x.pcb[d]
      /\ z.pcb[c].st = "gone" /\ z.pcb[c].pending = FALSE
      /\ z.pcb[c].arg = x.pcb[c].arg /\ z.pcb[c].cb = x.pcb[c].cb
  BY RemoveFacts, ZenonT(40)
<1> HIDE DEF z
<1>2. Gone(x, z, c)
  BY <1>1 DEF Gone
<1> QED
  BY <1>2 DEF z

LEMMA LwipStep ==
  ASSUME Typed(s), NEW c \in Pcbs
  PROVE  /\ Inbound(c) => StepOf(s, s', c)
         /\ Handshake(c) => StepOf(s, s', c)
         /\ Reset(c) => StepOf(s, s', c)
         /\ Data(c) => StepOf(s, s', c)
         /\ LastData(c) => StepOf(s, s', c)
         /\ PeerFin(c) => Same(s, s') \/ StepOf(s, s', c)
         /\ Ack(c) => Same(s, s')
         /\ Poll(c) => Same(s, s') \/ StepOf(s, s', c)
         /\ Finish(c) => StepOf(s, s', c)
<1>1. s \in StateType /\ s.active \in Ids /\ s.myPcb \in Pcbs \cup {NoConn}
  BY StateParts DEF Typed
<1>a. Same(s, s)
  BY <1>1 DEF Same
<1>2. LiveIn(s, c) => s.pcb[c].arg \in Ids /\ s.pcb[c].cb # "none"
  BY LiveArg
<1>3. ASSUME Inbound(c)
      PROVE  StepOf(s, s', c)
  <2>1. /\ s.pcb[c].st = "unused" /\ s' = accept(s, c)
        /\ (\E d \in Pcbs : s.pcb[d].st = "LISTEN") \/ \A d \in Pcbs : ~s.pcb[d].pending
    BY <1>3 DEF Inbound, Fresh, Listening
  <2>2. Incoming(s, s', c)
    BY <1>1, <2>1, AcceptFacts
  <2> QED
    BY <2>1, <2>2 DEF StepOf
<1>4. ASSUME Handshake(c)
      PROVE  StepOf(s, s', c)
  <2>1. s.pcb[c].st = "SYN_SENT" /\ s' = Connect(Opened(s, c), s.pcb[c].arg)
    BY <1>4 DEF Handshake, Opened, Connect
  <2>2. Joined(s, s', c)
    BY <1>1, <2>1, JoinedFacts
  <2> QED
    BY <2>2 DEF StepOf
<1>5. ASSUME Reset(c)
      PROVE  StepOf(s, s', c)
  <2>1. /\ LiveIn(s, c) \/ (Lingers /\ s.pcb[c].st = "CLOSING")
        /\ s' = Report(s, c)
    BY <1>5 DEF Reset, Called, Live, Closing, LiveIn
  <2>2. /\ Ends(s, s', c)
        /\ s.pcb[c].cb # "none" =>
             Locally(s, s', c) /\ (s.pcb[c].arg = s.active => s'.myPcb = NoConn)
    BY <1>1, <2>1, ReportFacts
  <2>3. Ended(s, s', c)
    BY <1>2, <2>1, <2>2 DEF Ended
  <2> QED
    BY <2>3 DEF StepOf
<1>6. ASSUME Data(c)
      PROVE  StepOf(s, s', c)
  <2>1. /\ LiveIn(s, c) /\ s.pcb[c].rcvd < MaxRcvd
        /\ IF s.pcb[c].cb = "server" THEN s' = Stored(Heard(s, s.pcb[c].arg), c) ELSE s' = Stored(s, c)
    BY <1>6 DEF Data, Open, LiveIn, Received, srecv_callback, recv_callback
  <2>2. s.pcb[c].arg \in Ids /\ s.pcb[c].arg # NoArg
    BY <1>2, <2>1 DEF Ids, NoArg
  <2>3. ASSUME s' = Stored(s, c)
        PROVE  Gained(s, s', c)
    BY <1>1, <2>1, <2>2, <2>3, StoredFacts
  <2>4. ASSUME s' = Stored(Heard(s, s.pcb[c].arg), c)
        PROVE  Gained(s, s', c)
    <3> DEFINE y == Heard(s, s.pcb[c].arg)
    <3>1. y = Heard(s, s.pcb[c].arg) /\ s' = Stored(y, c)
      BY <2>4, ZenonT(40)
    <3> HIDE DEF y
    <3>2. Touched(s, y, c)
      BY <1>1, <3>1, HeardTouched
    <3>3. y \in StateType /\ y.pcb[c].arg # NoArg /\ y.pcb[c].rcvd < MaxRcvd
      BY <2>1, <2>2, <3>2 DEF Touched
    <3>4. Gained(y, s', c)
      BY <3>1, <3>3, StoredFacts
    <3> QED
      BY <2>2, <3>2, <3>4, TouchedGained
  <2>5. Gained(s, s', c)
    BY <2>1, <2>3, <2>4
  <2> QED
    BY <2>1, <2>5 DEF StepOf
<1>7. ASSUME PeerFin(c)
      PROVE  Same(s, s') \/ StepOf(s, s', c)
  <2> DEFINE x == Finned(s, c)
             y == Heard(x, x.pcb[c].arg)
  <2>1. /\ s.pcb[c].st = "OPEN" \/ (Lingers /\ s.pcb[c].st = "CLOSING")
        /\ IF x.pcb[c].cb = "none" THEN s' = x
           ELSE IF x.pcb[c].cb = "server" THEN s' \in PeerClosed(y, c) ELSE s' \in PeerClosed(x, c)
    BY <1>7 DEF PeerFin, Open, Closing, Received, srecv_callback, recv_callback, Finned
  <2>2. x = Finned(s, c) /\ y = Heard(x, x.pcb[c].arg)
    OBVIOUS
  <2> HIDE DEF x, y
  <2>3. Touched(s, x, c)
    BY <1>1, <2>2, FinnedFacts, SMTT(60)
  <2>4. x \in StateType
    BY <2>3 DEF Touched
  <2>5. Touched(x, y, c)
    BY <2>2, <2>4, HeardTouched
  <2>6. Touched(s, y, c)
    BY <2>3, <2>5, TouchedTwice
  <2>7. CASE x.pcb[c].cb = "none"
    BY <1>1, <2>1, <2>3, <2>7, TouchedSame, ZenonT(40)
  <2>8. ASSUME NEW z, Touched(s, z, c), x.pcb[c].cb # "none", s' \in PeerClosed(z, c)
        PROVE  StepOf(s, s', c)
    <3>1. /\ z \in StateType /\ z.pcb[c].st \in {"OPEN", "CLOSING"} /\ z.pcb[c].cb # "none"
          /\ z.myPcb = s.myPcb
      BY <2>1, <2>3, <2>8 DEF Touched
    <3>2. Ends(z, s', c) /\ Locally(z, s', c) /\ (c = z.myPcb => s'.myPcb = NoConn)
      BY <2>8, <3>1, PeerClosedFacts
    <3>3. Ends(s, s', c) /\ Locally(s, s', c)
      BY <2>8, <3>2, TouchedEnds
    <3>4. Ended(s, s', c)
      BY <2>1, <3>1, <3>2, <3>3 DEF Ended, LiveIn
    <3> QED
      BY <3>4 DEF StepOf
  <2> QED
    BY <2>1, <2>3, <2>6, <2>7, <2>8
<1>8. ASSUME Ack(c)
      PROVE  Same(s, s')
  <2> DEFINE x == Busied(s, c, FALSE)
             y == Heard(x, x.pcb[c].arg)
  <2>1. s.pcb[c].st # "unused" /\ s' = IF x.pcb[c].cb = "none" THEN x ELSE y
    BY <1>8 DEF Ack, Called, Live, Closing, Busied
  <2>2. x = Busied(s, c, FALSE) /\ FALSE \in BOOLEAN /\ y = Heard(x, x.pcb[c].arg)
    OBVIOUS
  <2> HIDE DEF x, y
  <2>3. Touched(s, x, c)
    <3> DEFINE b == FALSE
    <3>1. x = Busied(s, c, b) /\ b \in BOOLEAN
      BY <2>2
    <3> HIDE DEF b
    <3> QED
      BY <1>1, <3>1, BusiedFacts
  <2>4. x \in StateType
    BY <2>3 DEF Touched
  <2>5. Touched(x, y, c)
    BY <2>2, <2>4, HeardTouched, Zenon
  <2>6. Touched(s, s', c)
    BY <2>1, <2>3, <2>5, TouchedTwice
  <2> QED
    BY <1>1, <2>1, <2>6, TouchedSame
<1>9. ASSUME Poll(c)
      PROVE  Same(s, s') \/ StepOf(s, s', c)
  <2>1. LiveIn(s, c) \/ (Lingers /\ s.pcb[c].st = "CLOSING")
    BY <1>9 DEF Poll, Called, Live, Closing, LiveIn
  <2>2. CASE s.pcb[c].poll = "serverTimeouts"
    <3>1. s' \in serverTimeouts(s, c)
      BY <1>9, <2>2 DEF Poll
    <3>2. s.pcb[c].st \in {"SYN_SENT", "OPEN", "CLOSING"}
      BY <2>1 DEF LiveIn
    <3>3. \/ s' = s
          \/ /\ \E i \in Ids : s.slot[i].quiet > Timeout
             /\ Ends(s, s', c)
             /\ s.pcb[c].arg = s.active => Locally(s, s', c)
      BY <1>1, <3>1, <3>2, TimeoutFacts
    <3>4. s' = s \/ Ended(s, s', c)
      BY <2>1, <2>2, <3>3 DEF Ended
    <3> QED
      BY <1>a, <3>4 DEF StepOf
  <2>3. CASE s.pcb[c].poll = "closed_port"
    <3>1. s' \in closed_port(s, c)
      BY <1>9, <2>3 DEF Poll
    <3>2. CASE LiveIn(s, c)
      <4>1. \/ s' = s
            \/ Promoted(s, s', c)
            \/ /\ \E i \in Ids : s.slot[i].since > Timeout
               /\ Ends(s, s', c) /\ Locally(s, s', c)
        BY <1>1, <1>2, <3>1, <3>2, ClosedPortFacts
      <4>2. s' = s \/ Promoted(s, s', c) \/ Ended(s, s', c)
        BY <2>1, <4>1 DEF Ended
      <4> QED
        BY <1>a, <4>2 DEF StepOf
    <3>3. CASE ~LiveIn(s, c)
      <4>1. s.pcb[c].st # "OPEN"
        BY <3>3 DEF LiveIn
      <4>2. s' = s
        BY <3>1, <4>1, Zenon DEF closed_port
      <4> QED
        BY <1>a, <4>2
    <3> QED
      BY <3>2, <3>3
  <2>4. CASE s.pcb[c].poll \notin {"serverTimeouts", "closed_port"}
    <3>1. s' = s
      BY <1>9, <2>4 DEF Poll
    <3> QED
      BY <1>a, <3>1
  <2> QED
    BY <2>2, <2>3, <2>4
<1>10. ASSUME Finish(c)
       PROVE  StepOf(s, s', c)
  <2>1. s.pcb[c].st = "CLOSING" /\ s' = Remove(s, c)
    BY <1>10 DEF Finish, Closing
  <2>2. Gone(s, s', c)
    BY <1>1, <2>1, GoneFacts
  <2> QED
    BY <2>2 DEF StepOf
<1>11. ASSUME LastData(c)
       PROVE  StepOf(s, s', c)
  <2> DEFINE x == Finned(s, c)
             h == Heard(x, x.pcb[c].arg)
  <2>1. /\ LiveIn(s, c) /\ s.pcb[c].rcvd < MaxRcvd /\ s.pcb[c].st = "OPEN"
        /\ \E y \in Received(x, c, FALSE) :
             IF y.pcb[c].refused THEN s' = y ELSE s' \in Received(y, c, TRUE)
    BY <1>11 DEF LastData, Open, LiveIn, Finned
  <2>2. s.pcb[c].arg \in Ids /\ s.pcb[c].arg # NoArg /\ s.pcb[c].cb # "none"
    BY <1>2, <2>1 DEF Ids, NoArg
  <2>3. x = Finned(s, c) /\ h = Heard(x, x.pcb[c].arg)
    OBVIOUS
  <2> HIDE DEF x, h
  <2>4. PICK y \in Received(x, c, FALSE) :
          IF y.pcb[c].refused THEN s' = y ELSE s' \in Received(y, c, TRUE)
    BY <2>1
  <2>5. Touched(s, x, c)
    BY <1>1, <2>3, FinnedFacts, SMTT(60)
  <2>6. Touched(x, h, c)
    <3>1. x \in StateType
      BY <2>5 DEF Touched
    <3> QED
      BY <2>3, <3>1, HeardTouched
  <2>7. Touched(s, h, c)
    BY <2>5, <2>6, TouchedTwice
  <2>8. ASSUME NEW z, Touched(s, z, c), y = Stored(z, c)
        PROVE  Gained(s, y, c)
    <3>1. z \in StateType /\ z.pcb[c].arg # NoArg /\ z.pcb[c].rcvd < MaxRcvd
      BY <2>1, <2>2, <2>8 DEF Touched
    <3>2. Gained(z, y, c)
      BY <2>8, <3>1, StoredFacts
    <3> QED
      BY <2>2, <2>8, <3>2, TouchedGained
  <2>9. Gained(s, y, c)
    <3>1. y = Stored(x, c) \/ y = Stored(h, c)
      BY <2>3, <2>4 DEF Received, srecv_callback, recv_callback
    <3> QED
      BY <2>5, <2>7, <2>8, <3>1
  <2>10. CASE s' = y
    BY <2>1, <2>9, <2>10 DEF StepOf
  <2>11. CASE s' \in Received(y, c, TRUE)
    <3> DEFINE k == Heard(y, y.pcb[c].arg)
    <3>1. k = Heard(y, y.pcb[c].arg)
      OBVIOUS
    <3>2. s' \in PeerClosed(y, c) \/ s' \in PeerClosed(k, c)
      BY <2>11 DEF Received, srecv_callback, recv_callback
    <3> HIDE DEF k
    <3>3. y \in StateType /\ y.pcb[c].st = "OPEN" /\ y.pcb[c].cb # "none"
      BY <2>1, <2>2, <2>9, ZenonT(40) DEF Gained
    <3>4. Touched(y, k, c)
      BY <3>1, <3>3, HeardTouched
    <3>5. Touched(y, y, c)
      BY <3>3 DEF Touched
    <3>6. ASSUME NEW z, Touched(y, z, c), s' \in PeerClosed(z, c)
          PROVE  Ended(y, s', c)
      <4>1. /\ z \in StateType /\ z.pcb[c].st \in {"OPEN", "CLOSING"} /\ z.pcb[c].cb # "none"
            /\ z.myPcb = y.myPcb
        BY <3>3, <3>6 DEF Touched
      <4>2. Ends(z, s', c) /\ Locally(z, s', c) /\ (c = z.myPcb => s'.myPcb = NoConn)
        BY <3>6, <4>1, PeerClosedFacts
      <4>3. Ends(y, s', c) /\ Locally(y, s', c)
        BY <3>6, <4>2, TouchedEnds
      <4> QED
        BY <3>3, <4>1, <4>2, <4>3 DEF Ended, LiveIn
    <3>7. Ended(y, s', c)
      BY <3>2, <3>4, <3>5, <3>6
    <3> QED
      BY <2>1, <2>9, <3>7 DEF StepOf
  <2> QED
    BY <2>4, <2>10, <2>11
<1> QED
  BY <1>3, <1>4, <1>5, <1>6, <1>7, <1>8, <1>9, <1>10, <1>11

-----------------------------------------------------------------------------
(* The sketch's calls.                                                     *)
BeginIn(x, c) ==
  [x EXCEPT !.myPcb = c, !.slot[x.active].buf = << >>, !.slot[x.active].connected = FALSE,
            !.pcb[c].st = "CLOSED", !.pcb[c].arg = x.active, !.pcb[c].cb = "client"]
DialIn(x, c) == [BeginIn(x, c) EXCEPT !.pcb[c].st = "SYN_SENT"]
ListenIn(x, c) == [x EXCEPT !.myPcb = c, !.pcb[c].st = "LISTEN", !.slot[0].connected = FALSE]
TakeIn(x, k) ==
  [x EXCEPT !.slot[x.active].buf = SubSeq(@, k + 1, Len(@)),
            !.pcb[x.slot[x.active].buf[k][1]].taken = x.slot[x.active].buf[k][2]]

Hooked(x, c, i) == [x EXCEPT !.pcb[c].st = "CLOSED", !.pcb[c].arg = i, !.pcb[c].cb = "client"]
Hook(r, i) == [[[r EXCEPT !.st = "CLOSED"] EXCEPT !.arg = i] EXCEPT !.cb = "client"]

LEMMA BeginShape ==
  ASSUME NEW x, NEW c
  PROVE  BeginIn(x, c) =
           Hooked([x EXCEPT !.myPcb = c, !.slot[x.active].buf = << >>,
                            !.slot[x.active].connected = FALSE], c, x.active)
BY DEF BeginIn, Hooked

LEMMA HookedShape ==
  ASSUME NEW x \in StateType, NEW c \in Pcbs, NEW i
  PROVE  Hooked(x, c, i) = [x EXCEPT !.pcb = [x.pcb EXCEPT ![c] = Hook(x.pcb[c], i)]]
BY ZenonT(40) DEF StateType, Hook, Hooked

LEMMA BeginFacts ==
  ASSUME NEW x \in StateType, NEW c \in Pcbs, x.myPcb = NoConn, x.pcb[c] = NewPcb
  PROVE  /\ Begun(x, BeginIn(x, c), c) /\ BeginIn(x, c).pcb[c].st = "CLOSED"
         /\ Begun(x, DialIn(x, c), c) /\ DialIn(x, c).pcb[c].st = "SYN_SENT"
<1> DEFINE id == x.active
           e == << >>
           l == [x.slot[id] EXCEPT !.buf = e]
           m == [l EXCEPT !.connected = FALSE]
           v == [x.slot EXCEPT ![id] = m]
           p == x.pcb[c]
           q == [p EXCEPT !.st = "CLOSED"]
           r == [q EXCEPT !.arg = id]
           t == [r EXCEPT !.cb = "client"]
           u == [x.pcb EXCEPT ![c] = t]
           w == [t EXCEPT !.st = "SYN_SENT"]
           o == [u EXCEPT ![c] = w]
           y == BeginIn(x, c)
           z == DialIn(x, c)
           a == [x EXCEPT !.myPcb = c, !.slot[id].buf = e, !.slot[id].connected = FALSE]
<1>1. /\ id \in Ids /\ x.slot[id] \in SlotType /\ x.slot \in [Ids -> SlotType]
      /\ p \in PcbType /\ x.pcb \in [Pcbs -> PcbType]
  BY StateParts
<1>2. e \in Seq(Pcbs \X (1 .. MaxRcvd)) /\ e = << >>
  BY EmptySeq
<1>3. a = [[x EXCEPT !.myPcb = c] EXCEPT !.slot = v]
  BY Zenon DEF StateType
<1>a. y = Hooked(a, c, id)
  BY BeginShape, Zenon
<1>b. u = [x.pcb EXCEPT ![c] = Hook(x.pcb[c], id)]
  BY DEF Hook
<1>4. z = [y EXCEPT !.pcb = [y.pcb EXCEPT ![c] = [y.pcb[c] EXCEPT !.st = "SYN_SENT"]]]
  BY DEF DialIn
<1>5. /\ p.st = "unused" /\ p.rcvd = 0 /\ p.taken = 0 /\ ~p.pending
  BY DEF NewPcb
<1>6. x.pcb[c].st = "unused" /\ id = x.active
  BY <1>5
<1> HIDE DEF e, p, y, z, a, u
<1>7. l \in SlotType /\ l.buf = e /\ l.quiet = x.slot[id].quiet /\ l.since = x.slot[id].since
  BY <1>1, <1>2, Zenon DEF SlotType
<1> HIDE DEF l
<1>8. m \in SlotType /\ ~m.connected /\ m.buf = e /\ m.quiet = l.quiet /\ m.since = l.since
  BY <1>7, Zenon DEF SlotType
<1> HIDE DEF m
<1>9. v \in [Ids -> SlotType] /\ v[id] = m /\ \A i \in Ids \ {id} : v[i] = x.slot[i]
  BY <1>1, <1>8
<1> HIDE DEF v
<1>c. a \in StateType /\ a.active = x.active /\ a.myPcb = c /\ a.slot = v /\ a.pcb = x.pcb
  BY <1>3, <1>9, Zenon DEF StateType
<1>d. y = [a EXCEPT !.pcb = u]
  <2>1. y = [a EXCEPT !.pcb = [a.pcb EXCEPT ![c] = Hook(a.pcb[c], id)]]
    BY <1>a, <1>c, HookedShape
  <2> QED
    BY <1>b, <1>c, <2>1
<1>10. /\ q \in PcbType /\ q.st = "CLOSED" /\ (q.pending <=> p.pending)
       /\ q.rcvd = p.rcvd /\ q.taken = p.taken
  BY <1>1 DEF PcbType
<1> HIDE DEF q, id
<1>11. /\ r \in PcbType /\ r.st = "CLOSED" /\ (r.pending <=> q.pending)
       /\ r.rcvd = q.rcvd /\ r.taken = q.taken /\ r.arg = id
  BY <1>1, <1>10 DEF PcbType
<1> HIDE DEF r
<1>12. /\ t \in PcbType /\ t.st = "CLOSED" /\ (t.pending <=> r.pending)
       /\ t.rcvd = r.rcvd /\ t.taken = r.taken /\ t.arg = r.arg /\ t.cb = "client"
  BY <1>11 DEF PcbType
<1> HIDE DEF t
<1>13. /\ w \in PcbType /\ w.st = "SYN_SENT" /\ (w.pending <=> t.pending)
       /\ w.rcvd = t.rcvd /\ w.taken = t.taken /\ w.arg = t.arg /\ w.cb = t.cb
  BY <1>12 DEF PcbType
<1>14. u \in [Pcbs -> PcbType] /\ u[c] = t /\ \A d \in Pcbs \ {c} : u[d] = x.pcb[d]
  BY <1>1, <1>12 DEF u
<1>15. y \in StateType /\ y.active = x.active /\ y.myPcb = c /\ y.slot = v /\ y.pcb = u
  BY <1>c, <1>d, <1>14 DEF StateType
<1>16. z = [y EXCEPT !.pcb = o]
  BY <1>4, <1>14, <1>15
<1> HIDE DEF w
<1>17. o \in [Pcbs -> PcbType] /\ o[c] = w /\ \A d \in Pcbs \ {c} : o[d] = x.pcb[d]
  BY <1>13, <1>14
<1> HIDE DEF o
<1>18. z \in StateType /\ z.active = x.active /\ z.myPcb = c /\ z.slot = v /\ z.pcb = o
  BY <1>15, <1>16, <1>17 DEF StateType
<1>19. /\ v[x.active].buf = << >> /\ ~v[x.active].connected
       /\ \A i \in Ids : /\ v[i].buf \in {<< >>, x.slot[i].buf}
                         /\ i # x.active => v[i].buf = x.slot[i].buf
                         /\ v[i].quiet = x.slot[i].quiet /\ v[i].since = x.slot[i].since
  BY <1>1, <1>2, <1>6, <1>7, <1>8, <1>9, SMTT(60)
<1>20. Begun(x, y, c) /\ y.pcb[c].st = "CLOSED"
  BY <1>5, <1>6, <1>10, <1>11, <1>12, <1>14, <1>15, <1>19, SMTT(60) DEF Begun
<1>21. Begun(x, z, c) /\ z.pcb[c].st = "SYN_SENT"
  BY <1>5, <1>6, <1>10, <1>11, <1>12, <1>13, <1>17, <1>18, <1>19 DEF Begun
<1> QED
  BY <1>20, <1>21 DEF y, z

LEMMA ListenFacts ==
  ASSUME NEW x \in StateType, NEW c \in Pcbs, x.pcb[c].st = "unused", ListenCalled
  PROVE  Listened(x, ListenIn(x, c), c)
<1> DEFINE m == [x.slot[0] EXCEPT !.connected = FALSE]
           v == [x.slot EXCEPT ![0] = m]
           p == x.pcb[c]
           q == [p EXCEPT !.st = "LISTEN"]
           u == [x.pcb EXCEPT ![c] = q]
           y == ListenIn(x, c)
<1>1. /\ 0 \in Ids /\ x.slot[0] \in SlotType /\ x.slot \in [Ids -> SlotType]
      /\ p \in PcbType /\ x.pcb \in [Pcbs -> PcbType]
  BY StateParts DEF Ids
<1>2. y = [[[x EXCEPT !.myPcb = c] EXCEPT !.pcb = u] EXCEPT !.slot = v]
  BY DEF ListenIn, StateType
<1> HIDE DEF p, y
<1>3. /\ m \in SlotType /\ m.buf = x.slot[0].buf /\ m.quiet = x.slot[0].quiet
      /\ m.since = x.slot[0].since
  BY <1>1, Zenon DEF SlotType
<1>4. q \in PcbType /\ q.st = "LISTEN"
  BY <1>1 DEF PcbType
<1> HIDE DEF m, q
<1>5. v \in [Ids -> SlotType] /\ v[0] = m /\ \A i \in Ids \ {0} : v[i] = x.slot[i]
  BY <1>1, <1>3
<1>6. u \in [Pcbs -> PcbType] /\ u[c] = q /\ \A d \in Pcbs \ {c} : u[d] = x.pcb[d]
  BY <1>1, <1>4
<1> HIDE DEF u, v
<1>7. y \in StateType /\ y.active = x.active /\ y.myPcb = c /\ y.slot = v /\ y.pcb = u
  BY <1>2, <1>5, <1>6, Zenon DEF StateType
<1>8. Listened(x, y, c)
  BY <1>3, <1>4, <1>5, <1>6, <1>7 DEF Listened
<1> QED
  BY <1>8 DEF y

LEMMA TakeFacts ==
  ASSUME NEW x \in StateType, NEW k \in 1 .. Len(x.slot[x.active].buf)
  PROVE  Took(x, TakeIn(x, k), k)
<1> DEFINE id == x.active
           buf == x.slot[id].buf
           c == buf[k][1]
           n == buf[k][2]
           b == SubSeq(buf, k + 1, Len(buf))
           m == [x.slot[id] EXCEPT !.buf = b]
           v == [x.slot EXCEPT ![id] = m]
           p == x.pcb[c]
           q == [p EXCEPT !.taken = n]
           u == [x.pcb EXCEPT ![c] = q]
           y == TakeIn(x, k)
<1>1. /\ id \in Ids /\ x.slot[id] \in SlotType /\ x.slot \in [Ids -> SlotType]
      /\ x.pcb \in [Pcbs -> PcbType]
  BY StateParts, ZenonT(40)
<1>2. buf \in Seq(Pcbs \X (1 .. MaxRcvd)) /\ k \in 1 .. Len(buf)
  BY <1>1, SlotParts
<1>3. buf[k] \in Pcbs \X (1 .. MaxRcvd)
  BY <1>1, BufParts, ZenonT(40)
<1>4. c \in Pcbs /\ n \in 1 .. MaxRcvd
  BY <1>3, ZenonT(40)
<1>5. n \in 0 .. MaxRcvd /\ p \in PcbType
  BY <1>1, <1>4, LwipAssumption, SMTT(60)
<1>6. b \in Seq(Pcbs \X (1 .. MaxRcvd))
  <2> HIDE DEF buf
  <2> QED
    BY <1>2, DropAt
<1>7. y = [[x EXCEPT !.slot = v] EXCEPT !.pcb = u]
  BY DEF TakeIn, StateType
<1>8. id = x.active /\ buf = x.slot[x.active].buf /\ b = SubSeq(buf, k + 1, Len(buf))
  OBVIOUS
<1>9. c = buf[k][1] /\ n = buf[k][2]
  OBVIOUS
<1> HIDE DEF c, n, b, p, y
<1>10. /\ m \in SlotType /\ m.buf = b /\ (m.connected <=> x.slot[id].connected)
       /\ m.quiet = x.slot[id].quiet /\ m.since = x.slot[id].since
  BY <1>1, <1>6, Zenon DEF SlotType
<1> HIDE DEF buf
<1>11. /\ q \in PcbType /\ q.st = p.st /\ q.arg = p.arg /\ q.cb = p.cb /\ q.poll = p.poll
       /\ (q.pending <=> p.pending) /\ q.rcvd = p.rcvd /\ q.taken = n
  BY <1>5 DEF PcbType
<1> HIDE DEF m, q
<1>12. v \in [Ids -> SlotType] /\ v[id] = m /\ \A i \in Ids \ {id} : v[i] = x.slot[i]
  BY <1>1, <1>10
<1>13. u \in [Pcbs -> PcbType] /\ u[c] = q /\ \A d \in Pcbs \ {c} : u[d] = x.pcb[d]
  BY <1>1, <1>4, <1>11
<1> HIDE DEF u, v, id
<1>14. y \in StateType /\ y.active = x.active /\ y.myPcb = x.myPcb /\ y.slot = v /\ y.pcb = u
  BY <1>7, <1>12, <1>13, Zenon DEF StateType
<1>15. /\ \A d \in Pcbs \ {c} : y.pcb[d] = x.pcb[d]
       /\ y.pcb[c].st = x.pcb[c].st /\ y.pcb[c].arg = x.pcb[c].arg
       /\ y.pcb[c].cb = x.pcb[c].cb /\ y.pcb[c].poll = x.pcb[c].poll
       /\ (y.pcb[c].pending <=> x.pcb[c].pending)
       /\ y.pcb[c].rcvd = x.pcb[c].rcvd /\ y.pcb[c].taken = n
  BY <1>11, <1>13, <1>14 DEF p
<1>16. \A i \in Ids : /\ i # id => y.slot[i] = x.slot[i]
                      /\ i = id => y.slot[i].buf = b
                      /\ y.slot[i].connected <=> x.slot[i].connected
                      /\ y.slot[i].quiet = x.slot[i].quiet /\ y.slot[i].since = x.slot[i].since
  BY <1>1, <1>10, <1>12, <1>14
<1>17. Took(x, y, k)
  BY <1>2, <1>4, <1>8, <1>9, <1>14, <1>15, <1>16, ZenonT(40) DEF Took
<1> QED
  BY <1>17 DEF y

\* What _stop does to a state x.
Stopped(x, y) == (y = x /\ Drains(x)) \/ (~Drains(x) /\ y \in CloseCurrent(x))

LEMMA StoppedFacts ==
  ASSUME NEW x \in StateType, x.myPcb # NoConn => x.pcb[x.myPcb].st # "unused",
         NEW y, Stopped(x, y)
  PROVE  \/ y = x /\ x.slot[x.active].connected
         \/ Released(x, y)
<1>1. CASE y = x /\ Drains(x)
  BY <1>1 DEF Drains
<1>2. CASE y \in CloseCurrent(x)
  BY <1>2, CloseCurrentFacts, ZenonT(40)
<1> QED
  BY <1>1, <1>2 DEF Stopped

\* A stop after a write that failed is a stop.
LEMMA FailFacts ==
  ASSUME NEW x, Typed(x), NEW id \in Ids, NEW y, Stopped(Disconnect(x, id), y)
  PROVE  Same(x, y) \/ Released(x, y)
<1> DEFINE z == Disconnect(x, id)
<1>1. x \in StateType /\ x.active \in Ids /\ (x.myPcb # NoConn => x.pcb[x.myPcb].st # "unused")
  BY StateParts DEF Typed, Wired
<1>2. id \in Ids \cup {NoArg} /\ z = Disconnect(x, id)
  OBVIOUS
<1>3. Stopped(z, y)
  OBVIOUS
<1>4. /\ z \in StateType /\ z.active = x.active /\ z.myPcb = x.myPcb /\ z.pcb = x.pcb
      /\ \A i \in Ids : /\ i # id => z.slot[i] = x.slot[i]
                        /\ i = id => ~z.slot[i].connected
                        /\ z.slot[i].buf = x.slot[i].buf
                        /\ z.slot[i].quiet = x.slot[i].quiet /\ z.slot[i].since = x.slot[i].since
  BY <1>1, <1>2, DisconnectedFacts
<1> HIDE DEF z
<1>5. CASE y = z /\ z.slot[z.active].connected
  <2>1. id # x.active
    BY <1>1, <1>4, <1>5
  <2>2. Same(x, z)
    BY <1>1, <1>4, <2>1 DEF Same
  <2> QED
    BY <1>5, <2>2
<1>6. CASE Released(z, y)
  <2>1. Released(x, y)
    BY <1>4, <1>6 DEF Released
  <2> QED
    BY <2>1
<1>7. \/ y = z /\ z.slot[z.active].connected
      \/ Released(z, y)
  <2>1. z.myPcb # NoConn => z.pcb[z.myPcb].st # "unused"
    BY <1>1, <1>4
  <2> QED
    BY <1>3, <1>4, <2>1, StoppedFacts
<1> QED
  BY <1>5, <1>6, <1>7, ZenonT(40)

UserInv(u) == u \in UserType /\ (u.pc = "writing" => u.pcb # NoConn)

LEMMA RestingUser ==
  /\ UserInv(AtRest) /\ UserInv([AtRest EXCEPT !.pc = "draining"])
<1> DEFINE u == [AtRest EXCEPT !.pc = "draining"]
<1>1. AtRest = [pc |-> "idle", pcb |-> NoConn, id |-> 0]
  BY DEF AtRest
<1>2. u = [pc |-> "draining", pcb |-> NoConn, id |-> 0]
  BY <1>1
<1>3. UserInv(AtRest)
  BY <1>1 DEF UserInv, UserType, Ids
<1> HIDE DEF u
<1>4. UserInv(u)
  BY <1>2 DEF UserInv, UserType, Ids
<1> QED
  BY <1>3, <1>4 DEF u

LEMMA SketchStep ==
  ASSUME TypeInv, Sketch
  PROVE  Spared(s, s') /\ UserInv(user')
<1>1. /\ Typed(s) /\ s \in StateType /\ s.active \in Ids /\ s.myPcb \in Pcbs \cup {NoConn}
      /\ s.myPcb # NoConn => s.pcb[s.myPcb].st # "unused"
      /\ \A c \in Pcbs : s.pcb[c].st = "unused" => s.pcb[c] = NewPcb
  BY StateParts DEF TypeInv, Typed, Wired
<1>2. UserInv(user)
  BY DEF TypeInv, UserInv
<1>3. Same(s, s)
  BY <1>1 DEF Same
<1>5. ASSUME _stop(s)
      PROVE  Spared(s, s') /\ UserInv(user')
  <2>1. Stopped(s, s') /\ UserInv(user')
    BY <1>5, RestingUser DEF _stop, Stopped
  <2>2. s' = s \/ Released(s, s')
    BY <1>1, <2>1, StoppedFacts
  <2> QED
    BY <1>3, <2>1, <2>2 DEF Spared
<1>6. ASSUME NEW id \in Ids, WriteFail(id)
      PROVE  Spared(s, s') /\ UserInv(user')
  <2> DEFINE z == Disconnect(s, id)
  <2>1. \/ Drains(z) /\ s' = z /\ user' = [AtRest EXCEPT !.pc = "draining"]
        \/ ~Drains(z) /\ s' \in CloseCurrent(z) /\ user' = AtRest
    <3>1. id # NoArg
      BY DEF Ids, NoArg
    <3>2. z = [s EXCEPT !.slot[id].connected = FALSE]
      BY <3>1 DEF Disconnect, SetConnected
    <3> HIDE DEF z
    <3> QED
      BY <1>6, <3>2 DEF WriteFail, _stop
  <2>2. Stopped(z, s')
    BY <2>1 DEF Stopped
  <2>3. Same(s, s') \/ Released(s, s')
    BY <1>1, <2>2, FailFacts
  <2> HIDE DEF z
  <2> QED
    BY <2>1, <2>3, RestingUser DEF Spared
<1>7. ASSUME NEW id \in Ids, WriteChunk(id), s.myPcb # NoConn
      PROVE  Spared(s, s') /\ UserInv(user')
  <2>1. CASE UNCHANGED s /\ user' = [pc |-> "writing", pcb |-> s.myPcb, id |-> id]
    <3>1. UserInv(user')
      BY <1>1, <1>7, <2>1 DEF UserInv, UserType
    <3>2. s' = s
      BY <2>1
    <3> QED
      BY <1>3, <3>1, <3>2 DEF Spared
  <2>2. CASE WriteFail(id)
    BY <1>6, <2>2
  <2> QED
    BY <1>7, <2>1, <2>2 DEF WriteChunk
<1>8. ASSUME stop \/ ConnectBusy
      PROVE  Spared(s, s') /\ UserInv(user')
  BY <1>5, <1>8 DEF stop, ConnectBusy
<1>9. ASSUME Drained
      PROVE  Spared(s, s') /\ UserInv(user')
  <2>1. s' \in CloseCurrent(s) /\ user' = AtRest
    BY <1>9 DEF Drained
  <2>2. Released(s, s')
    BY <1>1, <2>1, CloseCurrentFacts
  <2> QED
    BY <2>1, <2>2, RestingUser DEF Spared
<1>10. ASSUME ConnectReturn
       PROVE  Spared(s, s') /\ UserInv(user')
  BY <1>3, <1>10, RestingUser DEF ConnectReturn, Spared
<1>11. ASSUME write
       PROVE  Spared(s, s') /\ UserInv(user')
  BY <1>1, <1>7, <1>11 DEF write
<1>12. ASSUME WriteSpace
       PROVE  Spared(s, s') /\ UserInv(user')
  <2>1. /\ user.pc = "writing" /\ user.pcb \in Pcbs /\ user.id \in Ids /\ user \in UserType
    BY <1>2, <1>12 DEF WriteSpace, UserInv, UserType
  <2>2. CASE /\ Open(user.pcb) /\ s' = [s EXCEPT !.pcb[user.pcb].busy = TRUE]
             /\ user' = [user EXCEPT !.pc = "written"]
    <3> DEFINE b == TRUE
               c == user.pcb
    <3>1. s' = Busied(s, c, b) /\ b \in BOOLEAN /\ c \in Pcbs /\ s.pcb[c].st # "unused"
      BY <2>1, <2>2 DEF Busied, Open
    <3>2. UserInv(user')
      BY <2>1, <2>2 DEF UserInv, UserType
    <3> HIDE DEF b, c
    <3>3. Touched(s, s', c)
      BY <1>1, <3>1, BusiedFacts
    <3>4. Same(s, s')
      BY <1>1, <3>1, <3>3, TouchedSame
    <3> QED
      BY <3>2, <3>4 DEF Spared
  <2>3. CASE WriteFail(user.id)
    BY <1>6, <2>1, <2>3
  <2> QED
    BY <1>12, <2>2, <2>3 DEF WriteSpace
<1>13. ASSUME WriteNext
       PROVE  Spared(s, s') /\ UserInv(user')
  <2>1. user.id \in Ids
    BY <1>2 DEF UserInv, UserType
  <2>2. CASE UNCHANGED s /\ user' = AtRest
    BY <1>3, <2>2, RestingUser DEF Spared
  <2>3. CASE s.myPcb # NoConn /\ WriteChunk(user.id)
    BY <1>7, <2>1, <2>3
  <2> QED
    BY <1>13, <2>2, <2>3 DEF WriteNext
<1>14. ASSUME read
       PROVE  Spared(s, s') /\ UserInv(user')
  <2>1. PICK k \in 1 .. BufSize : TakeFrom(k)
    BY <1>14, ZenonT(40) DEF read
  <2>2. k \in 1 .. Len(s.slot[s.active].buf) /\ s' = TakeIn(s, k) /\ user' = user
    BY <2>1 DEF TakeFrom, TakeIn, Buf
  <2>3. Took(s, s', k)
    BY <1>1, <2>2, TakeFacts
  <2> QED
    BY <1>2, <2>2, <2>3, ZenonT(40) DEF Spared
<1>15. ASSUME NEW c \in Pcbs, connect(c)
       PROVE  Spared(s, s') /\ UserInv(user')
  <2> DEFINE x == BeginIn(s, c)
  <2>1. /\ s.myPcb = NoConn /\ s.pcb[c].st = "unused"
        /\ \/ s' = DialIn(s, c) /\ user' = [pc |-> "connecting", pcb |-> c, id |-> s.active]
           \/ /\ Drains(x) /\ s' = x /\ user' = [AtRest EXCEPT !.pc = "draining"]
           \/ /\ ~Drains(x) /\ s' \in CloseCurrent(x) /\ user' = AtRest
    <3>1. x = [s EXCEPT !.myPcb = c, !.slot[s.active].buf = << >>, !.slot[s.active].connected = FALSE,
                        !.pcb[c].st = "CLOSED", !.pcb[c].arg = s.active, !.pcb[c].cb = "client"]
      BY DEF BeginIn
    <3>2. DialIn(s, c) = [x EXCEPT !.pcb[c].st = "SYN_SENT"]
      BY DEF DialIn
    <3> HIDE DEF x
    <3> QED
      BY <1>15, <3>1, <3>2, ZenonT(40) DEF connect, Fresh, _stop
  <2>2. /\ Begun(s, x, c) /\ x.pcb[c].st = "CLOSED"
        /\ Begun(s, DialIn(s, c), c) /\ DialIn(s, c).pcb[c].st = "SYN_SENT"
    BY <1>1, <2>1, BeginFacts
  <2> HIDE DEF x
  <2>3. CASE s' = DialIn(s, c) /\ user' = [pc |-> "connecting", pcb |-> c, id |-> s.active]
    <3>1. StepOf(s, s', c)
      BY <2>2, <2>3, ZenonT(40) DEF StepOf
    <3>3. ~StruckIn(s, s', c)
      BY <2>1 DEF StruckIn
    <3>2. UserInv(user')
      BY <1>1, <2>3, ZenonT(40) DEF UserInv, UserType
    <3> QED
      BY <3>1, <3>2, <3>3 DEF Spared
  <2>4. ~Drains(x)
    BY <2>2, ZenonT(40) DEF Drains, Begun
  <2>5. CASE s' \in CloseCurrent(x) /\ user' = AtRest
    <3>1. x \in StateType /\ (x.myPcb # NoConn => x.pcb[x.myPcb].st # "unused")
      BY <2>2 DEF Begun
    <3>2. Released(x, s')
      BY <2>5, <3>1, CloseCurrentFacts
    <3>3. StepOf(s, s', c)
      BY <2>2, <3>2 DEF StepOf
    <3>4. ~StruckIn(s, s', c)
      BY <2>1 DEF StruckIn
    <3> QED
      BY <2>5, <3>3, <3>4, RestingUser, ZenonT(40) DEF Spared
  <2> QED
    BY <2>1, <2>3, <2>4, <2>5
<1>16. ASSUME NEW c \in Pcbs, listen(c)
       PROVE  Spared(s, s') /\ UserInv(user')
  <2>1. /\ ListenCalled /\ s.pcb[c].st = "unused"
        /\ s' = ListenIn(s, c) /\ user' = user
    BY <1>16 DEF listen, ListenIn, Fresh
  <2>2. Listened(s, s', c)
    BY <1>1, <2>1, ListenFacts
  <2>3. StepOf(s, s', c)
    BY <2>2 DEF StepOf
  <2>4. ~StruckIn(s, s', c)
    BY <2>1 DEF StruckIn
  <2> QED
    BY <1>2, <2>1, <2>3, <2>4 DEF Spared
<1> QED
  BY <1>8, <1>9, <1>10, <1>11, <1>12, <1>13, <1>14, <1>15, <1>16, ZenonT(40) DEF Sketch

-----------------------------------------------------------------------------
(* The theorems.                                                           *)
LEMMA NextStep ==
  ASSUME TypeInv, [Next]_vars
  PROVE  /\ Step(s, s') /\ UserInv(user') /\ struck' \in BOOLEAN
         /\ struck' \/ (~struck /\ Spared(s, s'))
<1>1. Typed(s) /\ UserInv(user) /\ struck \in BOOLEAN
  BY DEF TypeInv, UserInv
<1>2. Same(s, s)
  BY StateParts DEF TypeInv, Typed, Same
<1>3. Spared(s, s') => Step(s, s')
  BY Zenon DEF Spared, Step
<1>4. CASE UNCHANGED vars
  <2>1. s' = s /\ user' = user /\ struck' = struck
    BY <1>4 DEF vars
  <2>2. Spared(s, s')
    BY <1>2, <2>1 DEF Spared
  <2> QED
    BY <1>1, <1>3, <2>1, <2>2, Zenon
<1>5. CASE Sketch /\ UNCHANGED struck
  BY <1>1, <1>3, <1>5, SketchStep
<1>6. CASE Clock /\ UNCHANGED <<user, struck>>
  <2>1. Spared(s, s')
    BY <1>1, <1>6, ClockFacts DEF Spared
  <2>2. user' = user /\ struck' = struck
    BY <1>6
  <2> QED
    BY <1>1, <1>3, <2>1, <2>2, Zenon
<1>7. ASSUME NEW c \in Pcbs,
             \/ Inbound(c) \/ Handshake(c) \/ Reset(c) \/ Data(c) \/ LastData(c)
             \/ PeerFin(c) \/ Ack(c) \/ Poll(c) \/ Finish(c),
             Watched(c)
      PROVE  /\ Step(s, s') /\ UserInv(user') /\ struck' \in BOOLEAN
             /\ struck' \/ (~struck /\ Spared(s, s'))
  <2>1. Same(s, s') \/ StepOf(s, s', c)
    BY <1>1, <1>7, LwipStep, ZenonT(40)
  <2>2. Step(s, s')
    BY <2>1, ZenonT(40) DEF Step
  <2>3. /\ user' = user /\ struck' \in BOOLEAN
        /\ struck' \/ (~struck /\ ~Strikes(c))
    BY <1>1, <1>7, Zenon DEF Watched
  <2>4. Strikes(c) <=> StruckIn(s, s', c)
    BY Zenon DEF Strikes, StruckIn, Closing, Live, LiveIn
  <2>5. ~Strikes(c) => Spared(s, s')
    BY <2>1, <2>4, Zenon DEF Spared
  <2> QED
    BY <1>1, <2>2, <2>3, <2>5, Zenon
<1> QED
  BY <1>4, <1>5, <1>6, <1>7 DEF Next, Lwip

LEMMA TypeInvKept ==
  ASSUME TypeInv, [Next]_vars
  PROVE  TypeInv'
<1>1. Step(s, s') /\ UserInv(user') /\ struck' \in BOOLEAN
  BY NextStep
<1>2. Typed(s')
  BY <1>1, StepTyped DEF TypeInv
<1> QED
  BY <1>1, <1>2, Zenon DEF TypeInv, UserInv, Typed, Wired, LiveIn

LEMMA InitFacts ==
  ASSUME Init
  PROVE  /\ TypeInv /\ ~struck /\ s.myPcb = NoConn /\ s.active = 0
         /\ \A i \in Ids : s.slot[i] = NewSlot
         /\ \A c \in Pcbs : s.pcb[c] = NewPcb
<1>1. /\ s = [myPcb |-> NoConn, active |-> 0,
              slot |-> [i \in Ids |-> NewSlot], pcb |-> [c \in Pcbs |-> NewPcb]]
      /\ user = AtRest /\ struck = FALSE
  BY DEF Init
<1>2. /\ s.myPcb = NoConn /\ s.active = 0
      /\ \A i \in Ids : s.slot[i] = NewSlot
      /\ \A c \in Pcbs : s.pcb[c] = NewPcb
  BY <1>1
<1>3. NewSlot \in SlotType /\ NewSlot.buf = << >>
  <2> DEFINE e == << >>
  <2>1. e \in Seq(Pcbs \X (1 .. MaxRcvd)) /\ 0 \in 0 .. Timeout + 1 /\ e = << >>
    BY EmptySeq, LwipAssumption
  <2>2. NewSlot = [connected |-> FALSE, accepted |-> FALSE, buf |-> e, quiet |-> 0, since |-> 0]
    BY DEF NewSlot
  <2> HIDE DEF e
  <2> QED
    BY <2>1, <2>2 DEF SlotType
<1>4. NewPcb \in PcbType /\ NewPcb.st = "unused"
  BY LwipAssumption DEF NewPcb, PcbType
<1>5. s \in StateType
  BY <1>1, <1>3, <1>4 DEF StateType, Ids
<1>6. \A i \in Ids : Len(s.slot[i].buf) = 0
  BY <1>2, <1>3, EmptySeq, ZenonT(40)
<1>7. Typed(s)
  <2>1. Wired(s)
    BY <1>2, <1>4, <1>6 DEF Wired, LiveIn
  <2> QED
    BY <1>5, <1>6, <2>1, LwipAssumption, SMTT(60) DEF Typed
<1>8. UserInv(user)
  BY <1>1, RestingUser
<1> QED
  BY <1>1, <1>2, <1>7, <1>8 DEF TypeInv, UserInv

LEMMA TypeInvAlways == Spec => []TypeInv
<1>1. Init => TypeInv
  BY InitFacts
<1>2. TypeInv /\ [Next]_vars => TypeInv'
  BY TypeInvKept
<1> QED
  BY <1>1, <1>2, PTL DEF Spec

(* Whatever lwIP and the sketch do, every variable keeps its type and no receive   *)
(* buffer holds more than INCOMING_DATA_SIZE (RF24Client.cpp, recv_callback,       *)
(* srecv_callback): for any number of connections, any size and any time limit.    *)
THEOREM LwipTypeCorrect == Spec => []TypeOK
<1>1. TypeInv => TypeOK
  BY DEF TypeInv, Typed, TypeOK
<1> QED
  BY <1>1, TypeInvAlways, PTL

LEMMA OneInvAlways == ~ListenCalled => (Spec => []OneInv)
<1> SUFFICES ASSUME ~ListenCalled
             PROVE  Spec => []OneInv
  OBVIOUS
<1>1. Init => OneInv
  <2> SUFFICES ASSUME Init
               PROVE  OneInv
    OBVIOUS
  <2>1. /\ TypeInv /\ s.myPcb = NoConn /\ s.active = 0
        /\ \A i \in Ids : s.slot[i] = NewSlot
        /\ \A c \in Pcbs : s.pcb[c] = NewPcb
    BY InitFacts
  <2>2. NewPcb.st = "unused" /\ ~NewPcb.pending /\ ~NewSlot.connected /\ NewSlot.buf = << >>
    BY DEF NewPcb, NewSlot
  <2>3. \A i \in Ids : Len(s.slot[i].buf) = 0
    BY <2>1, <2>2, EmptySeq
  <2>4. Alone(s) /\ Told(s)
    BY <2>1, <2>2, ZenonT(40) DEF Alone, Told, LiveIn, Ids
  <2>5. Kept(s)
    BY <2>1, <2>2, <2>3 DEF Kept, LiveIn
  <2> QED
    BY <2>1, <2>4, <2>5 DEF OneInv, One
<1>2. OneInv /\ [Next]_vars => OneInv'
  <2> SUFFICES ASSUME OneInv, [Next]_vars
               PROVE  OneInv'
    OBVIOUS
  <2>1. TypeInv /\ Typed(s) /\ (~struck => One(s))
    BY Zenon DEF OneInv, TypeInv
  <2>2. /\ struck' \/ (~struck /\ Spared(s, s'))
        /\ TypeInv'
    BY <2>1, NextStep, TypeInvKept
  <2>3. ~struck' => One(s')
    BY <2>1, <2>2, StepOne
  <2> QED
    BY <2>2, <2>3, Zenon DEF OneInv, One, Alone, Told, Kept, LiveIn, UnreadIn
<1> QED
  BY <1>1, <1>2, PTL DEF Spec

(* One connection at a time: whatever is open and is not the current one is       *)
(* delayed and has the other connection state to itself (accept, closed_port) -   *)
(* until a callback lwIP makes on a connection that was closed already changes    *)
(* what is kept of another, open one.  Assumes a sketch that does not call        *)
(* Ethernet.listen().                                                             *)
THEOREM OneCurrentHolds == ~ListenCalled => (Spec => []OneCurrent)
<1>1. OneInv => OneCurrent
  BY ZenonT(40) DEF OneInv, One, Alone, OneCurrent, LiveIn, Live, Current, Waiting
<1> QED
  BY <1>1, OneInvAlways, PTL

(* The flag gState[activeState]->connected, which _write, connect and connected() *)
(* go by, is that of the current connection: up when it is open, and only then,   *)
(* until a callback on a closed connection has struck.                            *)
THEOREM ConnectedHolds == ~ListenCalled => (Spec => []ConnectedIsTrue)
<1>1. OneInv => ConnectedIsTrue
  BY ZenonT(40) DEF OneInv, One, Told, ConnectedIsTrue, Open
<1> QED
  BY <1>1, OneInvAlways, PTL

(* What lwIP was told is received and read() has not returned is in the           *)
(* connection's buffer, in order and unmixed with another connection's, until a   *)
(* callback on a closed connection has struck.                                    *)
THEOREM StreamHolds == ~ListenCalled => (Spec => []BufferHoldsStream)
<1>1. OneInv => BufferHoldsStream
  BY Zenon DEF OneInv, One, Kept, BufferHoldsStream, LiveIn, Live, Unread, UnreadIn
<1> QED
  BY <1>1, OneInvAlways, PTL

(* myPcb never outlives its connection, and its callbacks act on                  *)
(* gState[activeState], as long as no time limit passes: serverTimeouts and       *)
(* closed_port are what breaks it, with Ethernet.listen().                        *)
THEOREM HandleHolds == ~ClockRuns /\ ~ListenCalled => (Spec => []HandleIsLive)
<1> SUFFICES ASSUME ~ClockRuns, ~ListenCalled
             PROVE  Spec => []HandleIsLive
  OBVIOUS
<1>1. Init => HandleInv
  <2> SUFFICES ASSUME Init
               PROVE  HandleInv
    OBVIOUS
  <2>1. TypeInv /\ s.myPcb = NoConn /\ \A i \in Ids : s.slot[i] = NewSlot
    BY InitFacts
  <2>2. NewSlot.quiet = 0 /\ NewSlot.since = 0
    BY DEF NewSlot
  <2> QED
    BY <2>1, <2>2 DEF HandleInv, Held, Still
<1>2. HandleInv /\ [Next]_vars => HandleInv'
  <2> SUFFICES ASSUME HandleInv, [Next]_vars
               PROVE  HandleInv'
    OBVIOUS
  <2>1. TypeInv /\ Typed(s) /\ Held(s) /\ Still(s)
    BY DEF HandleInv, TypeInv
  <2>2. Step(s, s') /\ TypeInv'
    BY <2>1, NextStep, TypeInvKept
  <2>3. Held(s') /\ Still(s')
    BY <2>1, <2>2, StepHeld
  <2> QED
    BY <2>2, <2>3 DEF HandleInv, Held, Still, LiveIn
<1>3. HandleInv => HandleIsLive
  BY DEF HandleInv, Held, HandleIsLive, LiveIn, Live
<1> QED
  BY <1>1, <1>2, <1>3, PTL DEF Spec

=============================================================================
