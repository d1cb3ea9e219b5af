---------------------------- MODULE UipTcpProofs ----------------------------
(***************************************************************************)
(* UipTcp: type correctness, and that connection and user data belong      *)
(* together (Attached), for any number of peers, any sizes, windows,       *)
(* limits and choices of the switches.                                     *)
(*                                                                         *)
(* UipInv is the inductive invariant: besides the types it says who will   *)
(* free user data that are in use (Held), which connections have user data *)
(* and may be stopped (Open), and what the calls that wait may rely on     *)
(* (Waits).  The proof follows the calls: the parts of serialip_appcall(), *)
(* then uip_process() for the timer and for each state a segment may find, *)
(* then the sketch's calls, and last the peers.                            *)
(***************************************************************************)
EXTENDS UipTcp, TLAPS, SequenceTheorems

Unit     == {"in", "out", "junk"} \X Int \X Int
Data     == Seq(Unit)
TcpFlags == {"SYN", "ACK", "FIN", "PSH", "RST"}
AppFlags == {"ACKDATA", "NEWDATA", "POLL", "REXMIT", "CLOSE", "TIMEDOUT", "ABORT", "CONNECTED"}
UFlags   == {"CONNECTED", "CLOSE", "REMOTECLOSED", "RESTART"}

ConnType ==
  [st : States, stopped : BOOLEAN, peer : Peers \cup {NoPeer}, server : BOOLEAN, app : BOOLEAN,
   iss : Int, snd : Int, len : 0 .. BufSize + 1, rcv : Int, nrtx : 0 .. MaxRtx, mss : 0 .. BufSize]

UType ==
  [state : SUBSET UFlags, hold : BOOLEAN, packets_in : BOOLEAN, packets_out : BOOLEAN,
   windowOpened : BOOLEAN, in_pos : 0 .. BufSize, dataCnt : 0 .. BufSize, out_pos : 0 .. BufSize,
   server : BOOLEAN, myData : [1 .. BufSize -> Unit]]

\* Segments to the peers, and to us.
OutType == [peer : Peers \cup {NoPeer}, flags : SUBSET TcpFlags, seq : Int, ack : Int,
            data : Data, open : BOOLEAN]
InType  == [peer : Peers, flags : SUBSET TcpFlags, seq : Int, ack : Int, data : Data, wnd : Nat]

PeerType == [st : {"idle", "SYN_SENT", "SYN_RCVD", "ESTABLISHED", "CLOSED"}, sent : Nat, una : Int,
             fin : BOOLEAN, rcv : Int, got : Data, open : BOOLEAN]

\* What a call of uip_process works on.
MType == [conn : ConnType, u : UType, flags : SUBSET AppFlags, data : Data,
          slen : 0 .. BufSize, out : OutType \cup {None}]

Fits(w) == w.in_pos + w.dataCnt <= BufSize

UipTypeOK ==
  /\ conn \in ConnType /\ u \in UType /\ Fits(u)
  /\ user \in [pc : {"idle", "connecting", "writing"}, data : BOOLEAN, todo : 0 .. MaxOut]
  /\ peer \in [Peers -> PeerType]
  /\ toUip \subseteq InType /\ toPeer \subseteq OutType
  /\ written \in [Peers -> Nat]

\* User data in use have a connection, or somebody who will free them.  x is
\* whether the sketch has a client.
Held(c, w, x) ==
  /\ c.app => "CONNECTED" \in w.state /\ "REMOTECLOSED" \notin w.state
  /\ w.state # {} => c.app \/ ("REMOTECLOSED" \in w.state /\ (w.packets_in \/ x))

\* Only an open connection has user data, and only one that has them is stopped.
Open(c) == (c.app => c.st \in {"ESTABLISHED", "LAST_ACK"}) /\ (c.stopped => c.app)

\* The calls that wait: connect() has left its old client behind, and _write
\* has a connection to write to.
Waits ==
  /\ user.pc = "connecting" => ~user.data /\ conn.st # "LAST_ACK"
  /\ user.pc = "writing" => conn.peer \in Peers

UipInv == UipTypeOK /\ Held(conn, u, user.data) /\ Open(conn) /\ Waits

LEMMA Constants ==
  /\ NPeers \in Nat /\ MaxIn \in Nat /\ MaxOut \in Nat /\ BufSize \in Nat /\ MaxRtx \in Nat
  /\ Windows \subseteq Nat /\ PortHigh \in BOOLEAN /\ PortLow \in BOOLEAN
BY UipAssumption

LEMMA SmallerFits ==
  ASSUME NEW a \in Nat, NEW b \in Nat
  PROVE  Smaller(a, b) \in Nat /\ Smaller(a, b) <= a /\ Smaller(a, b) <= b
BY DEF Smaller

LEMMA Fields ==
  ASSUME NEW m \in MType
  PROVE  /\ m.conn \in ConnType /\ m.u \in UType /\ m.flags \subseteq AppFlags /\ m.data \in Data
         /\ m.slen \in 0 .. BufSize /\ m.out \in OutType \cup {None}
BY DEF MType

LEMMA ConnFields ==
  ASSUME NEW c \in ConnType
  PROVE  /\ c.st \in States /\ c.stopped \in BOOLEAN /\ c.peer \in Peers \cup {NoPeer}
         /\ c.server \in BOOLEAN /\ c.app \in BOOLEAN /\ c.iss \in Int /\ c.snd \in Int
         /\ c.len \in 0 .. BufSize + 1 /\ c.rcv \in Int /\ c.nrtx \in 0 .. MaxRtx
         /\ c.mss \in 0 .. BufSize
BY DEF ConnType

LEMMA UFields ==
  ASSUME NEW w \in UType
  PROVE  /\ w.state \subseteq UFlags /\ w.hold \in BOOLEAN /\ w.packets_in \in BOOLEAN
         /\ w.packets_out \in BOOLEAN /\ w.windowOpened \in BOOLEAN
         /\ w.in_pos \in 0 .. BufSize /\ w.dataCnt \in 0 .. BufSize /\ w.out_pos \in 0 .. BufSize
         /\ w.server \in BOOLEAN /\ w.myData \in [1 .. BufSize -> Unit]
BY DEF UType

-----------------------------------------------------------------------------
\* What the parts of serialip_appcall keep.
Kept(m, r) ==
  /\ r \in MType /\ Fits(r.u)
  /\ r.conn.st = m.conn.st /\ r.conn.peer = m.conn.peer

LEMMA Allocates ==
  ASSUME NEW m \in MType, Fits(m.u), NEW x \in BOOLEAN, Held(m.conn, m.u, x)
  PROVE  LET a == _allocateData(m)
         IN  /\ Kept(m, a) /\ Held(a.conn, a.u, x)
             /\ a.flags = m.flags /\ a.data = m.data /\ a.conn.stopped = m.conn.stopped
             /\ m.conn.app => a.conn.app
             /\ a.conn.app => m.conn.app \/ "CONNECTED" \in m.flags
<1> DEFINE a == _allocateData(m)
<1>1. CASE m.conn.app \/ "CONNECTED" \notin m.flags \/ m.u.state # {}
  <2>1. a = m
    BY <1>1 DEF _allocateData
  <2>2. Kept(m, m)
    BY Zenon DEF Kept
  <2> HIDE DEF a
  <2> QED BY <2>1, <2>2, Zenon DEF a
<1>2. CASE ~(m.conn.app \/ "CONNECTED" \notin m.flags \/ m.u.state # {})
  <2> DEFINE w == [m.u EXCEPT !.state = {"CONNECTED"}, !.packets_in = FALSE,
                    !.packets_out = FALSE, !.dataCnt = 0, !.in_pos = 0, !.out_pos = 0, !.hold = FALSE]
             c == [m.conn EXCEPT !.app = TRUE]
  <2>1. w \in UType /\ w.state = {"CONNECTED"} /\ w.in_pos = 0 /\ w.dataCnt = 0
    <3>1. m.u \in UType
      BY Fields
    <3>2. 0 \in 0 .. BufSize /\ {"CONNECTED"} \in SUBSET UFlags
      BY Constants DEF UFlags
    <3>3. w \in UType
      BY <3>1, <3>2, Zenon DEF UType
    <3> QED BY <3>1, <3>3 DEF UType
  <2>2. /\ c \in ConnType /\ c.app /\ c.stopped = m.conn.stopped
        /\ c.st = m.conn.st /\ c.peer = m.conn.peer
    BY Fields, ZenonT(40) DEF ConnType
  <2>3. a = [[m EXCEPT !.conn = c] EXCEPT !.u = w]
    BY <1>2, Fields DEF _allocateData, MType
  <2> HIDE DEF a, c, w
  <2>4. a \in MType /\ a.conn = c /\ a.u = w /\ a.flags = m.flags /\ a.data = m.data
    BY <2>1, <2>2, <2>3, Zenon DEF MType
  <2>5. Fits(w)
    BY <2>1, Constants DEF Fits
  <2>6. Held(c, w, x)
    BY <2>1, <2>2 DEF Held
  <2>7. Kept(m, a)
    BY <2>2, <2>4, <2>5, Zenon DEF Kept
  <2> QED BY <1>2, <2>2, <2>4, <2>6, <2>7, Zenon DEF a
<1> QED BY <1>1, <1>2, Zenon

LEMMA Empties ==
  ASSUME NEW w \in UType, Fits(w)
  PROVE  /\ NothingOut(w) \in UType /\ Fits(NothingOut(w))
         /\ NothingOut(w).state = w.state /\ NothingOut(w).packets_in = w.packets_in
         /\ NothingOut(w).in_pos = w.in_pos /\ NothingOut(w).dataCnt = w.dataCnt
<1> DEFINE n == NothingOut(w)
<1>1. n \in UType
  <2>1. 0 \in 0 .. BufSize
    BY Constants
  <2> QED BY <2>1, Zenon DEF NothingOut, UType
<1>2. /\ n.state = w.state /\ n.packets_in = w.packets_in
      /\ n.in_pos = w.in_pos /\ n.dataCnt = w.dataCnt
  BY DEF NothingOut, UType
<1> QED BY <1>1, <1>2, Zenon DEF Fits

LEMMA Appends ==
  ASSUME NEW w \in UType, Fits(w), NEW d \in Data
  PROVE  /\ Append_(w, d) \in UType /\ Fits(Append_(w, d))
         /\ w.state \subseteq Append_(w, d).state
         /\ Append_(w, d).state \subseteq w.state \cup {"CLOSE"}
<1> DEFINE pos == w.in_pos + w.dataCnt
           md == [i \in 1 .. BufSize |-> IF i \in pos + 1 .. pos + Len(d) THEN d[i - pos] ELSE w.myData[i]]
<1>1. Len(d) \in Nat /\ pos \in Nat
  BY UFields DEF Data
<1>2. md \in [1 .. BufSize -> Unit]
  <2> SUFFICES ASSUME NEW i \in 1 .. BufSize PROVE md[i] \in Unit
    OBVIOUS
  <2>1. CASE i \in pos + 1 .. pos + Len(d)
    <3> HIDE DEF pos
    <3>1. i - pos \in 1 .. Len(d)
      BY <2>1, <1>1, Constants
    <3> QED BY <2>1, <3>1 DEF Data
  <2>2. CASE i \notin pos + 1 .. pos + Len(d)
    BY <2>2, UFields, Zenon
  <2> QED BY <2>1, <2>2
<1> DEFINE fit == pos <= BufSize /\ Len(d) <= BufSize - pos
<1>3. Append_(w, d) = IF fit THEN [w EXCEPT !.myData = md, !.dataCnt = @ + Len(d), !.packets_in = TRUE]
                      ELSE [w EXCEPT !.state = @ \cup {"CLOSE"}]
  BY DEF Append_
<1> HIDE DEF md
<1>4. CASE fit
  <2>1. w.dataCnt + Len(d) \in 0 .. BufSize /\ w.in_pos + (w.dataCnt + Len(d)) <= BufSize
    BY <1>4, <1>1, UFields, Constants, SMTT(30)
  <2> QED BY <1>3, <1>4, <1>2, <2>1, ZenonT(40) DEF UType, Fits
<1>5. CASE ~fit
  BY <1>3, <1>5 DEF UType, UFlags, Fits
<1> QED BY <1>4, <1>5

\* Changing a part of what uip_process works on.
LEMMA WithU ==
  ASSUME NEW m \in MType, NEW w \in UType
  PROVE  LET r == [m EXCEPT !.u = w]
         IN  /\ r \in MType /\ r.u = w /\ r.conn = m.conn /\ r.flags = m.flags
             /\ r.data = m.data /\ r.slen = m.slen
BY DEF MType

LEMMA WithConn ==
  ASSUME NEW m \in MType, NEW c \in ConnType
  PROVE  LET r == [m EXCEPT !.conn = c]
         IN  /\ r \in MType /\ r.conn = c /\ r.u = m.u /\ r.flags = m.flags
             /\ r.data = m.data /\ r.slen = m.slen
BY DEF MType

LEMMA WithFlags ==
  ASSUME NEW m \in MType, NEW f \in SUBSET AppFlags
  PROVE  LET r == [m EXCEPT !.flags = f]
         IN  /\ r \in MType /\ r.flags = f /\ r.u = m.u /\ r.conn = m.conn
             /\ r.data = m.data /\ r.slen = m.slen
BY DEF MType

LEMMA SetStopped ==
  ASSUME NEW m \in MType, NEW b \in BOOLEAN
  PROVE  LET r == [m EXCEPT !.conn.stopped = b]
         IN  /\ r \in MType /\ r.u = m.u /\ r.flags = m.flags /\ r.data = m.data
             /\ r.conn.st = m.conn.st /\ r.conn.peer = m.conn.peer
             /\ r.conn.app = m.conn.app /\ r.conn.stopped = b
<1> DEFINE c == [m.conn EXCEPT !.stopped = b]
<1>1. c \in ConnType /\ c.st = m.conn.st /\ c.peer = m.conn.peer /\ c.app = m.conn.app /\ c.stopped = b
  BY Fields DEF ConnType
<1> DEFINE r == [m EXCEPT !.conn.stopped = b]
<1>2. r = [m EXCEPT !.conn = c]
  BY DEF MType
<1> HIDE DEF c, r
<1>3. /\ r \in MType /\ r.u = m.u /\ r.flags = m.flags /\ r.data = m.data /\ r.conn = c
  BY <1>1, <1>2, WithConn, Zenon
<1> QED BY <1>1, <1>3, Zenon DEF r

LEMMA SetApp ==
  ASSUME NEW m \in MType, NEW b \in BOOLEAN
  PROVE  LET r == [m EXCEPT !.conn.app = b]
         IN  /\ r \in MType /\ r.u = m.u /\ r.flags = m.flags /\ r.data = m.data
             /\ r.conn.st = m.conn.st /\ r.conn.peer = m.conn.peer
             /\ r.conn.app = b /\ r.conn.stopped = m.conn.stopped
<1> DEFINE c == [m.conn EXCEPT !.app = b]
<1>1. /\ c \in ConnType /\ c.st = m.conn.st /\ c.peer = m.conn.peer /\ c.app = b
      /\ c.stopped = m.conn.stopped
  BY Fields DEF ConnType
<1> DEFINE r == [m EXCEPT !.conn.app = b]
<1>2. r = [m EXCEPT !.conn = c]
  BY DEF MType
<1> HIDE DEF c, r
<1>3. /\ r \in MType /\ r.u = m.u /\ r.flags = m.flags /\ r.data = m.data /\ r.conn = c
  BY <1>1, <1>2, WithConn, Zenon
<1> QED BY <1>1, <1>3, Zenon DEF r

LEMMA SetState ==
  ASSUME NEW w \in UType, NEW f \in SUBSET UFlags, Fits(w)
  PROVE  LET v == [w EXCEPT !.state = f]
         IN  /\ v \in UType /\ Fits(v) /\ v.state = f /\ v.packets_in = w.packets_in
             /\ v.packets_out = w.packets_out /\ v.out_pos = w.out_pos
BY DEF UType, Fits

-----------------------------------------------------------------------------
\* Incoming data: the connection keeps its user data, and may be stopped.
LEMMA TakesData ==
  ASSUME NEW m \in MType, Fits(m.u), NEW x \in BOOLEAN, Held(m.conn, m.u, x), m.conn.app
  PROVE  LET r == NewData(m)
         IN  /\ Kept(m, r) /\ Held(r.conn, r.u, x) /\ r.conn.app /\ r.flags = m.flags
<1> DEFINE w == NothingOut(m.u)
           v == [w EXCEPT !.state = @ \ {"RESTART"}]
           z == Append_(v, m.data)
<1>0. m.u \in UType /\ m.data \in Data
  BY Fields
<1>1. w \in UType /\ Fits(w) /\ w.state = m.u.state
  BY <1>0, Empties, Zenon
<1>2. "CONNECTED" \in w.state /\ "REMOTECLOSED" \notin w.state
  BY <1>1 DEF Held
<1>3. v \in UType /\ Fits(v) /\ v.state = w.state \ {"RESTART"}
  <2> HIDE DEF w
  <2>1. w.state \ {"RESTART"} \in SUBSET UFlags
    BY <1>1, UFields
  <2> QED BY <1>1, <2>1, SetState, Zenon
<1>4. z \in UType /\ Fits(z) /\ v.state \subseteq z.state /\ z.state \subseteq v.state \cup {"CLOSE"}
  <2> HIDE DEF v
  <2> QED BY <1>0, <1>3, Appends, Zenon
<1>5. "CONNECTED" \in z.state /\ "REMOTECLOSED" \notin z.state
  <2> HIDE DEF v, z, w
  <2> QED BY <1>2, <1>3, <1>4
<1>6. NewData(m) = [m EXCEPT !.u = w] \/ NewData(m) = [[m EXCEPT !.conn.stopped = TRUE] EXCEPT !.u = z]
  BY Zenon DEF NewData
<1> HIDE DEF v, w, z
<1>7. CASE NewData(m) = [m EXCEPT !.u = w]
  <2> DEFINE r == [m EXCEPT !.u = w]
  <2>1. r \in MType /\ r.u = w /\ r.conn = m.conn /\ r.flags = m.flags
    BY <1>1, WithU, Zenon
  <2> HIDE DEF r
  <2> QED BY <1>1, <1>2, <1>7, <2>1, Zenon DEF Kept, Held, r
<1>8. CASE NewData(m) = [[m EXCEPT !.conn.stopped = TRUE] EXCEPT !.u = z]
  <2> DEFINE q == [m EXCEPT !.conn.stopped = TRUE]
             r == [q EXCEPT !.u = z]
  <2>1. /\ q \in MType /\ q.flags = m.flags
        /\ q.conn.st = m.conn.st /\ q.conn.peer = m.conn.peer /\ q.conn.app = m.conn.app
    BY SetStopped, Zenon
  <2> HIDE DEF q
  <2>2. r \in MType /\ r.u = z /\ r.conn = q.conn /\ r.flags = q.flags
    BY <1>4, <2>1, WithU, Zenon
  <2>3. NewData(m) = r
    BY <1>8, Zenon DEF q
  <2> HIDE DEF r
  <2> QED BY <1>4, <1>5, <2>1, <2>2, <2>3, Zenon DEF Kept, Held
<1> QED BY <1>6, <1>7, <1>8, Zenon

\* The connection has ended: it has no user data any more.
LEMMA Closes ==
  ASSUME NEW m \in MType, Fits(m.u), NEW x \in BOOLEAN, Held(m.conn, m.u, x), m.conn.app
  PROVE  LET r == Closed(m)
         IN  /\ Kept(m, r) /\ Held(r.conn, r.u, x) /\ ~r.conn.app
             /\ r.conn.stopped = m.conn.stopped /\ r.flags = m.flags
<1> DEFINE q == [m EXCEPT !.conn.app = FALSE]
           v == [m.u EXCEPT !.state = @ \cup {"REMOTECLOSED"}, !.server = m.conn.server,
                            !.packets_out = PortHigh, !.windowOpened = PortLow]
           z == [m.u EXCEPT !.state = {}, !.packets_out = FALSE]
           w == IF m.u.packets_in THEN v ELSE z
<1>1. /\ q \in MType /\ q.flags = m.flags /\ ~q.conn.app
      /\ q.conn.st = m.conn.st /\ q.conn.peer = m.conn.peer /\ q.conn.stopped = m.conn.stopped
  BY SetApp, Zenon
<1>2. m.u \in UType /\ m.conn.server \in BOOLEAN
  BY Fields DEF ConnType
<1>3. v \in UType /\ Fits(v) /\ "REMOTECLOSED" \in v.state /\ v.packets_in = m.u.packets_in
  <2>1. "REMOTECLOSED" \in UFlags
    BY DEF UFlags
  <2>2. v \in UType
    BY <1>2, <2>1, Constants, Zenon DEF UType
  <2> QED BY <1>2, <2>2 DEF UType, Fits
<1>4. z \in UType /\ Fits(z) /\ z.state = {}
  BY <1>2, Zenon DEF UType, Fits
<1>5. w \in UType /\ Fits(w) /\ (w.state # {} => "REMOTECLOSED" \in w.state /\ w.packets_in)
  <2> HIDE DEF v, z
  <2> QED BY <1>3, <1>4
<1>6. Closed(m) = [q EXCEPT !.u = w]
  BY Zenon DEF Closed
<1> HIDE DEF q, w
<1>7. LET r == [q EXCEPT !.u = w] IN r \in MType /\ r.u = w /\ r.conn = q.conn /\ r.flags = q.flags
  BY <1>1, <1>5, WithU, Zenon
<1> QED BY <1>1, <1>5, <1>6, <1>7, ZenonT(40) DEF Kept, Held

LEMMA Acks ==
  ASSUME NEW m \in MType, Fits(m.u), NEW x \in BOOLEAN, Held(m.conn, m.u, x), m.conn.app
  PROVE  LET r == Acked(m)
         IN  Kept(m, r) /\ Held(r.conn, r.u, x) /\ r.conn = m.conn /\ r.flags = m.flags
<1> DEFINE w == NothingOut(m.u)
           v == [w EXCEPT !.state = @ \ {"RESTART"}]
<1>1. w \in UType /\ Fits(w) /\ w.state = m.u.state
  <2>1. m.u \in UType
    BY Fields
  <2> QED BY <2>1, Empties, Zenon
<1>2. v \in UType /\ Fits(v) /\ v.state = w.state \ {"RESTART"}
  <2> HIDE DEF w
  <2>1. w.state \ {"RESTART"} \in SUBSET UFlags
    BY <1>1, UFields
  <2> QED BY <1>1, <2>1, SetState, Zenon
<1>3. "CONNECTED" \in v.state /\ "REMOTECLOSED" \notin v.state
  <2> HIDE DEF v, w
  <2> QED BY <1>1, <1>2 DEF Held
<1>4. Acked(m) = m \/ Acked(m) = [m EXCEPT !.u = v]
  BY Zenon DEF Acked
<1>5. CASE Acked(m) = m
  BY <1>5, Zenon DEF Kept
<1>6. CASE Acked(m) = [m EXCEPT !.u = v]
  <2> HIDE DEF v
  <2> DEFINE r == [m EXCEPT !.u = v]
  <2>1. r \in MType /\ r.u = v /\ r.conn = m.conn /\ r.flags = m.flags
    BY <1>2, WithU, Zenon
  <2> HIDE DEF r
  <2> QED BY <1>2, <1>3, <1>6, <2>1, Zenon DEF Kept, Held, r
<1> QED BY <1>4, <1>5, <1>6, Zenon

LEMMA SendsOut ==
  ASSUME NEW m \in MType, Fits(m.u), NEW x \in BOOLEAN, Held(m.conn, m.u, x)
  PROVE  LET r == SendOut(m)
         IN  Kept(m, r) /\ Held(r.conn, r.u, x) /\ r.conn = m.conn /\ r.flags = m.flags
<1> DEFINE v == [m.u EXCEPT !.hold = TRUE]
           q == [m EXCEPT !.u = v]
           r == [q EXCEPT !.slen = m.u.out_pos]
<1>1. m.u \in UType /\ m.u.out_pos \in 0 .. BufSize
  BY Fields, UFields
<1>2. v \in UType /\ Fits(v) /\ v.state = m.u.state /\ v.packets_in = m.u.packets_in
  BY <1>1, Zenon DEF UType, Fits
<1>3. SendOut(m) = r
  BY Fields DEF SendOut, uip_send, MType
<1> HIDE DEF v
<1>4. q \in MType /\ q.u = v /\ q.conn = m.conn /\ q.flags = m.flags
  BY <1>2, WithU, Zenon
<1> HIDE DEF q
<1>5. r \in MType /\ r.u = q.u /\ r.conn = q.conn /\ r.flags = q.flags
  BY <1>1, <1>4 DEF MType
<1> HIDE DEF r
<1> QED BY <1>2, <1>3, <1>4, <1>5, Zenon DEF Kept, Held

LEMMA Restarts ==
  ASSUME NEW m \in MType
  PROVE  LET r == uip_restart(m)
         IN  /\ r \in MType /\ r.u = m.u /\ r.flags = m.flags \cup {"NEWDATA"}
             /\ r.conn.st = m.conn.st /\ r.conn.peer = m.conn.peer
             /\ r.conn.app = m.conn.app /\ ~r.conn.stopped
<1> DEFINE q == [m EXCEPT !.flags = @ \cup {"NEWDATA"}]
<1>1. m.flags \cup {"NEWDATA"} \in SUBSET AppFlags
  BY Fields DEF AppFlags
<1>2. q \in MType /\ q.flags = m.flags \cup {"NEWDATA"} /\ q.u = m.u /\ q.conn = m.conn
  BY <1>1, WithFlags, Zenon
<1>3. uip_restart(m) = [q EXCEPT !.conn.stopped = FALSE]
  BY Zenon DEF uip_restart
<1> HIDE DEF q
<1> DEFINE r == [q EXCEPT !.conn.stopped = FALSE]
<1>4. /\ r \in MType /\ r.u = q.u /\ r.flags = q.flags
      /\ r.conn.st = q.conn.st /\ r.conn.peer = q.conn.peer
      /\ r.conn.app = q.conn.app /\ ~r.conn.stopped
  BY <1>2, SetStopped, Zenon
<1> HIDE DEF r
<1> QED BY <1>2, <1>3, <1>4, Zenon DEF r

\* The window is opened again, and nothing else happens.
Reopened(m, r) ==
  /\ r.conn.app = m.conn.app /\ (r.conn.stopped => m.conn.stopped)
  /\ r.flags = m.flags \/ r.flags = m.flags \cup {"NEWDATA"}

LEMMA RestartsAgain ==
  ASSUME NEW m \in MType, Fits(m.u), NEW x \in BOOLEAN, Held(m.conn, m.u, x), NEW again
  PROVE  LET r == RestartAgain(m, again)
         IN  Kept(m, r) /\ Held(r.conn, r.u, x) /\ Reopened(m, r)
<1> DEFINE q == uip_restart(m)
<1>1. /\ q \in MType /\ q.u = m.u /\ q.flags = m.flags \cup {"NEWDATA"}
      /\ q.conn.st = m.conn.st /\ q.conn.peer = m.conn.peer
      /\ q.conn.app = m.conn.app /\ ~q.conn.stopped
  BY Restarts, Zenon
<1>2. RestartAgain(m, again) = m \/ RestartAgain(m, again) = q
  BY Zenon DEF RestartAgain
<1> HIDE DEF q
<1>3. Kept(m, q) /\ Held(q.conn, q.u, x) /\ Reopened(m, q)
  BY <1>1, Zenon DEF Kept, Held, Reopened
<1>4. Kept(m, m) /\ Reopened(m, m)
  BY Zenon DEF Kept, Reopened
<1> QED BY <1>2, <1>3, <1>4, Zenon

LEMMA Finishes ==
  ASSUME NEW m \in MType, Fits(m.u), NEW x \in BOOLEAN, Held(m.conn, m.u, x)
  PROVE  LET r == Finish(m)
         IN  Kept(m, r) /\ Held(r.conn, r.u, x) /\ Reopened(m, r)
<1> DEFINE q == uip_restart(m)
           v == [q.u EXCEPT !.windowOpened = TRUE]
           r == [q EXCEPT !.u = v]
<1>1. /\ q \in MType /\ q.u = m.u /\ q.flags = m.flags \cup {"NEWDATA"}
      /\ q.conn.st = m.conn.st /\ q.conn.peer = m.conn.peer
      /\ q.conn.app = m.conn.app /\ ~q.conn.stopped
  BY Restarts, Zenon
<1>2. Finish(m) = m \/ Finish(m) = r
  BY Zenon DEF Finish
<1> HIDE DEF q
<1>3. v \in UType /\ Fits(v) /\ v.state = m.u.state /\ v.packets_in = m.u.packets_in
  <2>1. m.u \in UType
    BY Fields
  <2> QED BY <1>1, <2>1, Zenon DEF UType, Fits
<1> HIDE DEF v
<1>4. r \in MType /\ r.u = v /\ r.conn = q.conn /\ r.flags = q.flags
  BY <1>1, <1>3, WithU, ZenonT(40)
<1> HIDE DEF r
<1>5. Kept(m, r) /\ Held(r.conn, r.u, x) /\ Reopened(m, r)
  BY <1>1, <1>3, <1>4, Zenon DEF Kept, Held, Reopened
<1>6. Kept(m, m) /\ Reopened(m, m)
  BY Zenon DEF Kept, Reopened
<1> QED BY <1>2, <1>5, <1>6, Zenon

LEMMA ClosesWhenSent ==
  ASSUME NEW m \in MType, Fits(m.u), NEW x \in BOOLEAN, Held(m.conn, m.u, x), m.conn.app
  PROVE  LET r == CloseWhenSent(m)
         IN  /\ Kept(m, r) /\ Held(r.conn, r.u, x)
             /\ (r.conn.app /\ r.flags = m.flags) \/ (~r.conn.app /\ "CLOSE" \in r.flags)
<1> DEFINE v == [m.u EXCEPT !.state = {}]
           p == [m EXCEPT !.u = v]
           q == [p EXCEPT !.conn.app = FALSE]
           r == [q EXCEPT !.flags = {"CLOSE"}]
           s == [m EXCEPT !.conn.stopped = TRUE]
<1>1. \/ CloseWhenSent(m) = m
      \/ CloseWhenSent(m) = s
      \/ CloseWhenSent(m) = r
  <2>1. [m EXCEPT !.u.state = {}, !.conn.app = FALSE, !.flags = {"CLOSE"}] = r
    BY Fields DEF MType
  <2> HIDE DEF r, s
  <2> QED BY <2>1, Zenon DEF CloseWhenSent, s
<1>2. CASE CloseWhenSent(m) = m
  <2>1. Kept(m, m)
    BY Zenon DEF Kept
  <2> QED BY <1>2, <2>1, Zenon
<1>3. CASE CloseWhenSent(m) = s
  <2>1. /\ s \in MType /\ s.u = m.u /\ s.flags = m.flags /\ s.conn.app = m.conn.app
        /\ s.conn.st = m.conn.st /\ s.conn.peer = m.conn.peer
    BY SetStopped, Zenon
  <2> HIDE DEF s
  <2> QED BY <1>3, <2>1, Zenon DEF Kept, Held
<1>4. CASE CloseWhenSent(m) = r
  <2>1. v \in UType /\ Fits(v) /\ v.state = {}
    <3>1. m.u \in UType /\ {} \in SUBSET UFlags
      BY Fields
    <3> QED BY <3>1, SetState, Zenon
  <2> HIDE DEF v
  <2>2. p \in MType /\ p.u = v /\ p.conn = m.conn
    BY <2>1, WithU, Zenon
  <2> HIDE DEF p
  <2>3. /\ q \in MType /\ q.u = p.u
        /\ q.conn.st = p.conn.st /\ q.conn.peer = p.conn.peer /\ ~q.conn.app
    BY <2>2, SetApp, Zenon
  <2> HIDE DEF q
  <2>4. r \in MType /\ r.u = q.u /\ r.conn = q.conn /\ r.flags = {"CLOSE"}
    <3>1. {"CLOSE"} \in SUBSET AppFlags
      BY DEF AppFlags
    <3> QED BY <2>3, <3>1, WithFlags, ZenonT(40)
  <2> HIDE DEF r
  <2>5. "CLOSE" \in r.flags
    BY <2>4
  <2> QED BY <1>4, <2>1, <2>2, <2>3, <2>4, <2>5, Zenon DEF Kept, Held
<1> QED BY <1>1, <1>2, <1>3, <1>4, Zenon

\* The flags that end a connection.
Ending(m) == m.flags \cap {"CLOSE", "TIMEDOUT", "ABORT"} # {}

\* What a call of the application does.
Called(m, r) ==
  /\ r.conn.app => m.conn.app \/ "CONNECTED" \in m.flags
  /\ Ending(m) /\ "NEWDATA" \notin m.flags => ~r.conn.app \/ "CONNECTED" \in m.flags
  /\ ~Ending(m) => /\ "CLOSE" \in r.flags => ~r.conn.app
                   /\ r.conn.stopped => r.conn.app \/ "CLOSE" \in r.flags
  /\ ~Ending(m) /\ "REXMIT" \in m.flags => "CLOSE" \notin r.flags
  /\ Ending(m) /\ "NEWDATA" \notin m.flags /\ ~m.conn.stopped => ~r.conn.stopped

\* The same before the window is looked at: m has user data.
Answered(m, z) ==
  /\ Ending(m) /\ "NEWDATA" \notin m.flags => ~z.conn.app /\ z.conn.stopped = m.conn.stopped
  /\ ~Ending(m) => \/ z.conn.app /\ "CLOSE" \notin z.flags
                   \/ ~z.conn.app /\ "CLOSE" \in z.flags /\ "REXMIT" \notin m.flags

LEMMA Answers ==
  ASSUME NEW m \in MType, Fits(m.u), NEW x \in BOOLEAN, Held(m.conn, m.u, x), m.conn.app, NEW again
  PROVE  LET k == Acked(m)
             z == IF "NEWDATA" \in m.flags THEN NewData(m)
                  ELSE IF m.flags \cap {"CLOSE", "TIMEDOUT", "ABORT"} # {} THEN Closed(m)
                  ELSE IF "REXMIT" \in m.flags THEN SendOut(m)
                  ELSE IF "POLL" \in m.flags /\ m.u.packets_out /\ ~m.u.hold THEN SendOut(m)
                  ELSE CloseWhenSent(RestartAgain(k, again))
         IN  Kept(m, z) /\ Held(z.conn, z.u, x) /\ Answered(m, z)
<1> DEFINE k == Acked(m)
           a == RestartAgain(k, again)
           e == CloseWhenSent(a)
           z == IF "NEWDATA" \in m.flags THEN NewData(m)
                ELSE IF Ending(m) THEN Closed(m)
                ELSE IF "REXMIT" \in m.flags THEN SendOut(m)
                ELSE IF "POLL" \in m.flags /\ m.u.packets_out /\ ~m.u.hold THEN SendOut(m)
                ELSE e
<1>0. ~Ending(m) => "CLOSE" \notin m.flags
  BY DEF Ending
<1>1. CASE "NEWDATA" \in m.flags
  <2>1. LET r == NewData(m)
        IN  Kept(m, r) /\ Held(r.conn, r.u, x) /\ r.conn.app /\ r.flags = m.flags
    BY TakesData, Zenon
  <2>2. z = NewData(m)
    BY <1>1, Zenon
  <2> HIDE DEF z
  <2> QED BY <1>0, <1>1, <2>1, <2>2, Zenon DEF Answered, Ending, z
<1>2. CASE "NEWDATA" \notin m.flags /\ Ending(m)
  <2>1. LET r == Closed(m)
        IN  /\ Kept(m, r) /\ Held(r.conn, r.u, x) /\ ~r.conn.app
            /\ r.conn.stopped = m.conn.stopped /\ r.flags = m.flags
    BY Closes, Zenon
  <2>2. z = Closed(m)
    BY <1>2, Zenon
  <2> HIDE DEF z
  <2> QED BY <1>2, <2>1, <2>2, Zenon DEF Answered, Ending, z
<1>3. ASSUME "NEWDATA" \notin m.flags, ~Ending(m), z = SendOut(m)
      PROVE  Kept(m, z) /\ Held(z.conn, z.u, x) /\ Answered(m, z)
  <2>1. LET r == SendOut(m)
        IN  Kept(m, r) /\ Held(r.conn, r.u, x) /\ r.conn = m.conn /\ r.flags = m.flags
    BY SendsOut, Zenon
  <2> HIDE DEF z
  <2> QED BY <1>0, <1>3, <2>1, Zenon DEF Answered
<1>4. ASSUME "NEWDATA" \notin m.flags, ~Ending(m), "REXMIT" \notin m.flags, z = e
      PROVE  Kept(m, z) /\ Held(z.conn, z.u, x) /\ Answered(m, z)
  <2>1. Kept(m, k) /\ Held(k.conn, k.u, x) /\ k.conn = m.conn /\ k.flags = m.flags
    BY Acks, Zenon
  <2> HIDE DEF k
  <2>2. Kept(k, a) /\ Held(a.conn, a.u, x) /\ Reopened(k, a)
    <3>1. k \in MType /\ Fits(k.u)
      BY <2>1, Zenon DEF Kept
    <3> QED BY <2>1, <3>1, RestartsAgain, Zenon
  <2> HIDE DEF a
  <2>3. /\ Kept(a, e) /\ Held(e.conn, e.u, x)
        /\ (e.conn.app /\ e.flags = a.flags) \/ (~e.conn.app /\ "CLOSE" \in e.flags)
    <3>1. a \in MType /\ Fits(a.u) /\ a.conn.app
      BY <2>1, <2>2, Zenon DEF Kept, Reopened
    <3> QED BY <2>2, <3>1, ClosesWhenSent, Zenon
  <2>4. "CLOSE" \notin a.flags
    BY <1>0, <1>4, <2>1, <2>2 DEF Reopened
  <2>5. Kept(m, e)
    BY <2>1, <2>2, <2>3, Zenon DEF Kept
  <2> HIDE DEF e, z
  <2> QED BY <1>4, <2>3, <2>4, <2>5, Zenon DEF Answered
<1>5. CASE "NEWDATA" \notin m.flags /\ ~Ending(m)
  <2>1. z = SendOut(m) \/ ("REXMIT" \notin m.flags /\ z = e)
    <3> HIDE DEF e
    <3> QED BY <1>5, Zenon
  <2> HIDE DEF z
  <2>2. Kept(m, z) /\ Held(z.conn, z.u, x) /\ Answered(m, z)
    BY <1>3, <1>4, <1>5, <2>1, Zenon
  <2> QED BY <2>2, Zenon DEF z, Ending, e, a, k
<1>6. Kept(m, z) /\ Held(z.conn, z.u, x) /\ Answered(m, z) =>
        (LET kk == Acked(m)
             zz == IF "NEWDATA" \in m.flags THEN NewData(m)
                  ELSE IF m.flags \cap {"CLOSE", "TIMEDOUT", "ABORT"} # {} THEN Closed(m)
                  ELSE IF "REXMIT" \in m.flags THEN SendOut(m)
                  ELSE IF "POLL" \in m.flags /\ m.u.packets_out /\ ~m.u.hold THEN SendOut(m)
                  ELSE CloseWhenSent(RestartAgain(kk, again))
         IN  Kept(m, zz) /\ Held(zz.conn, zz.u, x) /\ Answered(m, zz))
  BY Zenon DEF Ending
<1> QED BY <1>1, <1>2, <1>5, Zenon

LEMMA Calls ==
  ASSUME NEW m0 \in MType, Fits(m0.u), NEW x \in BOOLEAN, Held(m0.conn, m0.u, x),
         m0.conn.stopped => m0.conn.app, NEW late, NEW again
  PROVE  LET r == serialip_appcall(m0, late, again)
         IN  Kept(m0, r) /\ Held(r.conn, r.u, x) /\ Called(m0, r)
<1> DEFINE a == _allocateData(m0)
           v == [a.u EXCEPT !.state = @ \cup {"CLOSE"}]
           m == IF late THEN [a EXCEPT !.u = v] ELSE a
           k == Acked(m)
           z == IF "NEWDATA" \in m.flags THEN NewData(m)
                ELSE IF m.flags \cap {"CLOSE", "TIMEDOUT", "ABORT"} # {} THEN Closed(m)
                ELSE IF "REXMIT" \in m.flags THEN SendOut(m)
                ELSE IF "POLL" \in m.flags /\ m.u.packets_out /\ ~m.u.hold THEN SendOut(m)
                ELSE CloseWhenSent(RestartAgain(k, again))
           r == serialip_appcall(m0, late, again)
<1>1. /\ Kept(m0, a) /\ Held(a.conn, a.u, x)
      /\ a.flags = m0.flags /\ a.conn.stopped = m0.conn.stopped
      /\ m0.conn.app => a.conn.app
      /\ a.conn.app => m0.conn.app \/ "CONNECTED" \in m0.flags
  BY Allocates, Zenon
<1>2. r = IF ~a.conn.app THEN a ELSE Finish(z)
  <2>1. [a EXCEPT !.u.state = @ \cup {"CLOSE"}] = [a EXCEPT !.u = v]
    BY <1>1 DEF Kept, MType
  <2> QED BY <2>1, Zenon DEF serialip_appcall
<1> HIDE DEF a
<1>3. CASE ~a.conn.app
  <2>1. r = a
    BY <1>2, <1>3, Zenon
  <2>2. Called(m0, a)
    BY <1>1, <1>3, Zenon DEF Called, Ending
  <2> HIDE DEF r
  <2> QED BY <1>1, <2>1, <2>2, Zenon DEF r
<1>4. CASE a.conn.app
  <2> HIDE DEF r
  <2>1. /\ Kept(a, m) /\ Held(m.conn, m.u, x) /\ m.conn = a.conn /\ m.flags = a.flags
    <3>1. Kept(a, a)
      BY <1>1, Zenon DEF Kept
    <3>2. a \in MType /\ a.u \in UType /\ Fits(a.u) /\ a.u.state \cup {"CLOSE"} \in SUBSET UFlags
      <4>1. a \in MType /\ Fits(a.u)
        BY <1>1, Zenon DEF Kept
      <4>2. a.u \in UType
        BY <4>1, Fields, Zenon
      <4> QED BY <4>1, <4>2, UFields DEF UFlags
    <3>3. v \in UType /\ Fits(v) /\ v.state = a.u.state \cup {"CLOSE"}
      BY <3>2, SetState, Zenon
    <3> DEFINE q == [a EXCEPT !.u = v]
    <3> HIDE DEF v
    <3>4. q \in MType /\ q.u = v /\ q.conn = a.conn /\ q.flags = a.flags
      BY <3>2, <3>3, WithU, ZenonT(40)
    <3> HIDE DEF q
    <3>5. "CONNECTED" \in v.state /\ "REMOTECLOSED" \notin v.state
      BY <1>1, <1>4, <3>3 DEF Held
    <3>6. Kept(a, q) /\ Held(q.conn, q.u, x)
      BY <1>4, <3>3, <3>4, <3>5, Zenon DEF Kept, Held
    <3> QED BY <1>1, <3>1, <3>4, <3>6, Zenon DEF q
  <2> HIDE DEF m
  <2>2. m \in MType /\ Fits(m.u) /\ m.conn.app
    BY <1>4, <2>1, Zenon DEF Kept
  <2>3. Kept(m, z) /\ Held(z.conn, z.u, x) /\ Answered(m, z)
    BY <2>1, <2>2, Answers, Zenon
  <2> HIDE DEF z
  <2>4. z \in MType /\ Fits(z.u)
    BY <2>3, Zenon DEF Kept
  <2> DEFINE f == Finish(z)
  <2>5. Kept(z, f) /\ Held(f.conn, f.u, x) /\ Reopened(z, f)
    BY <2>3, <2>4, Finishes, Zenon
  <2>6. r = f
    BY <1>2, <1>4, Zenon
  <2> HIDE DEF f
  <2>7. Kept(m0, f)
    BY <1>1, <2>1, <2>3, <2>5, Zenon DEF Kept
  <2>8. "CLOSE" \in f.flags <=> "CLOSE" \in z.flags
    BY <2>5 DEF Reopened
  <2>9. Called(m0, f)
    <3>1. Answered(a, z) /\ (Ending(a) <=> Ending(m0))
      BY <1>1, <2>1, <2>3, Zenon DEF Answered, Ending
    <3> QED BY <1>1, <1>4, <2>5, <2>8, <3>1, Zenon DEF Called, Answered, Reopened
  <2> QED BY <2>5, <2>6, <2>7, <2>9, Zenon DEF r
<1> QED BY <1>3, <1>4, Zenon

\* Only the packet changes.
SameState(m, r) == r \in MType /\ r.conn = m.conn /\ r.u = m.u /\ r.flags = m.flags

LEMMA Sends ==
  ASSUME NEW m \in MType, NEW f \in SUBSET TcpFlags, NEW d \in Data
  PROVE  SameState(m, tcp_send(m, f, d))
<1> DEFINE o == [peer |-> m.conn.peer, flags |-> f, seq |-> m.conn.snd,
                 ack |-> m.conn.rcv, data |-> d, open |-> ~m.conn.stopped]
<1>1. o \in OutType
  <2>1. m.conn \in ConnType
    BY Fields
  <2>2. /\ m.conn.peer \in Peers \cup {NoPeer} /\ m.conn.snd \in Int /\ m.conn.rcv \in Int
        /\ m.conn.stopped \in BOOLEAN
    BY <2>1, ConnFields
  <2> QED BY <2>2 DEF OutType
<1> HIDE DEF o
<1>2. tcp_send(m, f, d) = [m EXCEPT !.out = o]
  BY Zenon DEF tcp_send, o
<1>3. SameState(m, [m EXCEPT !.out = o])
  BY <1>1 DEF SameState, MType
<1> QED BY <1>2, <1>3, Zenon

LEMMA SendsAck ==
  ASSUME NEW m \in MType
  PROVE  SameState(m, tcp_send_ack(m)) /\ SameState(m, tcp_send_finack(m))
<1>1. << >> \in Data /\ {"ACK"} \in SUBSET TcpFlags /\ {"FIN", "ACK"} \in SUBSET TcpFlags
  BY DEF Data, TcpFlags
<1> QED BY <1>1, Sends, Zenon DEF tcp_send_ack, tcp_send_finack

LEMMA Becomes ==
  ASSUME NEW m \in MType, NEW st \in States
  PROVE  LET r == Become(m, st)
         IN  /\ r \in MType /\ r.u = m.u /\ r.flags = m.flags
             /\ r.conn.st = st /\ ~r.conn.stopped /\ r.conn.app = m.conn.app
             /\ r.conn.peer = m.conn.peer
<1> DEFINE c == [[m.conn EXCEPT !.st = st] EXCEPT !.stopped = FALSE]
<1>1. c \in ConnType /\ c.st = st /\ ~c.stopped /\ c.app = m.conn.app /\ c.peer = m.conn.peer
  BY Fields, ZenonT(40) DEF ConnType
<1>2. Become(m, st) = [m EXCEPT !.conn = c]
  BY Fields, Zenon DEF Become, MType
<1> HIDE DEF c
<1> DEFINE r == [m EXCEPT !.conn = c]
<1>3. r \in MType /\ r.u = m.u /\ r.flags = m.flags /\ r.conn = c
  BY <1>1, WithConn, Zenon
<1> HIDE DEF r
<1> QED BY <1>1, <1>2, <1>3, Zenon DEF r

\* The fields of a connection that say nothing about its user data.
SameUse(m, r) ==
  /\ r \in MType /\ r.u = m.u /\ r.flags = m.flags
  /\ r.conn.st = m.conn.st /\ r.conn.stopped = m.conn.stopped /\ r.conn.app = m.conn.app
  /\ r.conn.peer = m.conn.peer

LEMMA SetLen ==
  ASSUME NEW m \in MType, NEW k \in 0 .. BufSize + 1, NEW n \in 0 .. MaxRtx
  PROVE  SameUse(m, [m EXCEPT !.conn.len = k, !.conn.nrtx = n])
<1> DEFINE c == [[m.conn EXCEPT !.len = k] EXCEPT !.nrtx = n]
           r == [m EXCEPT !.conn.len = k, !.conn.nrtx = n]
<1>1. /\ c \in ConnType /\ c.st = m.conn.st /\ c.stopped = m.conn.stopped
      /\ c.app = m.conn.app /\ c.peer = m.conn.peer
  BY Fields, ZenonT(40) DEF ConnType
<1>2. r = [m EXCEPT !.conn = c]
  BY Fields, Zenon DEF MType
<1> HIDE DEF c, r
<1>3. r \in MType /\ r.u = m.u /\ r.flags = m.flags /\ r.conn = c
  BY <1>1, <1>2, WithConn, Zenon
<1> QED BY <1>1, <1>3, Zenon DEF SameUse, r

LEMMA InBufferIsData ==
  ASSUME NEW m \in MType
  PROVE  InBuffer(m) \in Data
<1>1. m.u \in UType /\ m.conn \in ConnType
  BY Fields
<1>2. m.conn.len \in Nat /\ m.u.out_pos \in 0 .. BufSize /\ m.u.myData \in [1 .. BufSize -> Unit]
  BY <1>1, ConnFields, UFields, Constants
<1>3. Junk \in Unit
  BY DEF Junk, NoPeer, Unit
<1>4. \A i \in 1 .. m.conn.len : (IF i <= m.u.out_pos THEN m.u.myData[i] ELSE Junk) \in Unit
  BY <1>2, <1>3, Constants
<1> QED BY <1>2, <1>4 DEF InBuffer, Data

LEMMA Rexmits ==
  ASSUME NEW m \in MType
  PROVE  SameState(m, apprexmit(m))
<1>1. SameState(m, m)
  BY Zenon DEF SameState
<1>2. {"ACK", "PSH"} \in SUBSET TcpFlags
  BY DEF TcpFlags
<1>3. SameState(m, tcp_send(m, {"ACK", "PSH"}, InBuffer(m))) /\ SameState(m, tcp_send_ack(m))
  BY <1>2, InBufferIsData, Sends, SendsAck, Zenon
<1> QED BY <1>1, <1>3, Zenon DEF apprexmit

LEMMA AppSends ==
  ASSUME NEW m \in MType
  PROVE  LET r == appsend(m)
         IN  /\ r \in MType /\ r.u = m.u /\ r.conn.app = m.conn.app /\ r.conn.peer = m.conn.peer
             /\ "CLOSE" \in m.flags => r.conn.st = "FIN_WAIT_1" /\ ~r.conn.stopped
             /\ "CLOSE" \notin m.flags => r.conn.st = m.conn.st /\ r.conn.stopped = m.conn.stopped
<1> DEFINE b == Become(m, "FIN_WAIT_1")
           p == [b EXCEPT !.conn.len = 1, !.conn.nrtx = 0]
           len == IF "ACKDATA" \in m.flags THEN 0 ELSE m.conn.len
           new == IF m.slen = 0 THEN m.conn.len
                  ELSE IF len = 0 THEN Smaller(m.slen, m.conn.mss) ELSE len
           q == [m EXCEPT !.conn.len = new, !.conn.nrtx = 0]
<1>0. 0 \in 0 .. MaxRtx /\ 1 \in 0 .. BufSize + 1 /\ "FIN_WAIT_1" \in States
  BY Constants DEF States
<1>1. /\ b \in MType /\ b.u = m.u /\ b.flags = m.flags /\ b.conn.st = "FIN_WAIT_1"
      /\ ~b.conn.stopped /\ b.conn.app = m.conn.app /\ b.conn.peer = m.conn.peer
  BY <1>0, Becomes, Zenon
<1> HIDE DEF b
<1>2. SameUse(b, p)
  BY <1>0, <1>1, SetLen, Zenon
<1>3. SameUse(m, q)
  <2>1. m.conn \in ConnType /\ m.slen \in 0 .. BufSize
    BY Fields
  <2>2. m.conn.len \in 0 .. BufSize + 1 /\ m.conn.mss \in 0 .. BufSize
    BY <2>1, ConnFields
  <2>3. new \in 0 .. BufSize + 1
    BY <2>1, <2>2, Constants DEF Smaller
  <2> HIDE DEF new
  <2> QED BY <1>0, <2>3, SetLen, Zenon
<1>4. appsend(m) = IF "CLOSE" \in m.flags THEN tcp_send_finack(p) ELSE apprexmit(q)
  BY Zenon DEF appsend, b
<1> HIDE DEF p, q
<1>5. SameState(p, tcp_send_finack(p)) /\ SameState(q, apprexmit(q))
  BY <1>2, <1>3, SendsAck, Rexmits, Zenon DEF SameUse
<1>6. CASE "CLOSE" \in m.flags
  BY <1>1, <1>2, <1>4, <1>5, <1>6, Zenon DEF SameUse, SameState
<1>7. CASE "CLOSE" \notin m.flags
  BY <1>3, <1>4, <1>5, <1>7, Zenon DEF SameUse, SameState
<1> QED BY <1>6, <1>7, Zenon

\* What uip_process starts from, and what it leaves.
Ready(m, x) == m \in MType /\ Fits(m.u) /\ Held(m.conn, m.u, x) /\ Open(m.conn)

Stepped(m, r, x) ==
  /\ Ready(r, x)
  /\ r.conn.st = "LAST_ACK" => m.conn.st \in {"ESTABLISHED", "LAST_ACK"}
  /\ m.conn.peer \in Peers => r.conn.peer \in Peers

LEMMA SendKeeps ==
  ASSUME NEW m, NEW r, NEW s, NEW x, Stepped(m, r, x), SameState(r, s)
  PROVE  Stepped(m, s, x)
BY Zenon DEF Stepped, Ready, SameState

LEMMA StaysReady ==
  ASSUME NEW m, NEW x, Ready(m, x)
  PROVE  Stepped(m, m, x)
BY DEF Stepped

LEMMA UseKeeps ==
  ASSUME NEW m, NEW r, NEW x, Ready(m, x), SameUse(m, r)
  PROVE  Stepped(m, r, x) /\ Ready(r, x)
BY Zenon DEF Stepped, Ready, SameUse, Held, Open, Fits

LEMMA WithSeen ==
  ASSUME NEW m \in MType, NEW f \in SUBSET AppFlags, NEW d \in Data
  PROVE  LET r == [m EXCEPT !.flags = f, !.data = d]
         IN  r \in MType /\ r.conn = m.conn /\ r.u = m.u /\ r.flags = f
BY Zenon DEF MType

LEMMA SetRcv ==
  ASSUME NEW m \in MType, NEW k \in Int
  PROVE  SameUse(m, [m EXCEPT !.conn.rcv = k])
<1> DEFINE c == [m.conn EXCEPT !.rcv = k]
           r == [m EXCEPT !.conn.rcv = k]
<1>1. /\ c \in ConnType /\ c.st = m.conn.st /\ c.stopped = m.conn.stopped
      /\ c.app = m.conn.app /\ c.peer = m.conn.peer
  BY Fields DEF ConnType
<1>2. r = [m EXCEPT !.conn = c]
  BY Fields DEF MType
<1> HIDE DEF c, r
<1>3. r \in MType /\ r.u = m.u /\ r.flags = m.flags /\ r.conn = c
  BY <1>1, <1>2, WithConn, Zenon
<1> QED BY <1>1, <1>3, Zenon DEF SameUse, r

LEMMA Receives ==
  ASSUME NEW m \in MType, NEW n \in Int
  PROVE  SameUse(m, Receive(m, n))
<1>1. m.conn.rcv + n \in Int
  BY Fields, ConnFields
<1>2. Receive(m, n) = [m EXCEPT !.conn.rcv = m.conn.rcv + n]
  BY DEF Receive, MType
<1> QED BY <1>1, <1>2, SetRcv, Zenon

LEMMA SetMss ==
  ASSUME NEW m \in MType, NEW w \in Nat
  PROVE  SameUse(m, [m EXCEPT !.conn.mss = Mss(w)])
<1>0. Mss(w) \in 0 .. BufSize
  BY Constants DEF Mss, Smaller
<1> DEFINE c == [m.conn EXCEPT !.mss = Mss(w)]
           r == [m EXCEPT !.conn.mss = Mss(w)]
<1>1. /\ c \in ConnType /\ c.st = m.conn.st /\ c.stopped = m.conn.stopped
      /\ c.app = m.conn.app /\ c.peer = m.conn.peer
  BY <1>0, Fields DEF ConnType
<1>2. r = [m EXCEPT !.conn = c]
  BY Fields DEF MType
<1> HIDE DEF c, r
<1>3. r \in MType /\ r.u = m.u /\ r.flags = m.flags /\ r.conn = c
  BY <1>1, <1>2, WithConn, Zenon
<1> QED BY <1>1, <1>3, Zenon DEF SameUse, r

LEMMA SetNrtx ==
  ASSUME NEW m \in MType, m.conn.nrtx # MaxRtx
  PROVE  SameUse(m, [m EXCEPT !.conn.nrtx = @ + 1])
<1>0. m.conn \in ConnType /\ m.conn.nrtx + 1 \in 0 .. MaxRtx
  BY Fields, ConnFields, Constants
<1> DEFINE c == [m.conn EXCEPT !.nrtx = m.conn.nrtx + 1]
           r == [m EXCEPT !.conn.nrtx = @ + 1]
<1>1. /\ c \in ConnType /\ c.st = m.conn.st /\ c.stopped = m.conn.stopped
      /\ c.app = m.conn.app /\ c.peer = m.conn.peer
  BY <1>0 DEF ConnType
<1>2. r = [m EXCEPT !.conn = c]
  BY Fields DEF MType
<1> HIDE DEF c, r
<1>3. r \in MType /\ r.u = m.u /\ r.flags = m.flags /\ r.conn = c
  BY <1>1, <1>2, WithConn, Zenon
<1> QED BY <1>1, <1>3, Zenon DEF SameUse, r

-----------------------------------------------------------------------------
\* An open connection, which may just have come to be so.
Asked(m, x) ==
  /\ m \in MType /\ Fits(m.u) /\ Held(m.conn, m.u, x)
  /\ m.conn.stopped => m.conn.app
  /\ m.conn.st = "ESTABLISHED"

\* It stays open, or the application closes it.
Replied(m, r, x) ==
  Ready(r, x) /\ r.conn.st \in {"ESTABLISHED", "FIN_WAIT_1"} /\ r.conn.peer = m.conn.peer

LEMMA ReadyIsAsked ==
  ASSUME NEW m, NEW x, Ready(m, x), m.conn.st = "ESTABLISHED"
  PROVE  Asked(m, x)
BY Zenon DEF Ready, Open, Asked

\* The application is asked, on an open connection, and what it answers sent.
LEMMA Asks ==
  ASSUME NEW m, NEW x \in BOOLEAN, Asked(m, x), ~Ending(m), NEW late, NEW again
  PROVE  Replied(m, appsend(serialip_appcall(m, late, again)), x)
<1> DEFINE a == serialip_appcall(m, late, again)
           r == appsend(a)
<1>0. /\ m \in MType /\ Fits(m.u) /\ Held(m.conn, m.u, x) /\ (m.conn.stopped => m.conn.app)
      /\ m.conn.st = "ESTABLISHED"
  BY Zenon DEF Asked
<1>1. Kept(m, a) /\ Held(a.conn, a.u, x) /\ Called(m, a)
  BY <1>0, Calls, Zenon
<1> HIDE DEF a
<1>2. a \in MType
  BY <1>1, Zenon DEF Kept
<1>3. /\ r \in MType /\ r.u = a.u /\ r.conn.app = a.conn.app /\ r.conn.peer = a.conn.peer
      /\ "CLOSE" \in a.flags => r.conn.st = "FIN_WAIT_1" /\ ~r.conn.stopped
      /\ "CLOSE" \notin a.flags => r.conn.st = a.conn.st /\ r.conn.stopped = a.conn.stopped
  BY <1>2, AppSends, Zenon
<1> HIDE DEF r
<1>4. Held(r.conn, r.u, x) /\ Fits(r.u)
  BY <1>1, <1>3, Zenon DEF Held, Kept
<1>5. CASE "CLOSE" \in a.flags
  <2>1. ~r.conn.app /\ ~r.conn.stopped /\ r.conn.st = "FIN_WAIT_1"
    BY <1>1, <1>3, <1>5, Zenon DEF Called
  <2>2. r.conn.st \in {"ESTABLISHED", "FIN_WAIT_1"} /\ Open(r.conn)
    BY <2>1 DEF Open
  <2> QED BY <1>1, <1>3, <1>4, <2>2, Zenon DEF Replied, Ready, Kept, r, a
<1>6. CASE "CLOSE" \notin a.flags
  <2>1. (r.conn.stopped => r.conn.app) /\ r.conn.st = "ESTABLISHED"
    BY <1>0, <1>1, <1>3, <1>6, Zenon DEF Called, Kept
  <2>2. r.conn.st \in {"ESTABLISHED", "FIN_WAIT_1"} /\ Open(r.conn)
    BY <2>1 DEF Open
  <2> QED BY <1>1, <1>3, <1>4, <2>2, Zenon DEF Replied, Ready, Kept, r, a
<1> QED BY <1>5, <1>6, Zenon

\* The application hears that its connection has ended.
EndFlags == {{"CLOSE"}, {"TIMEDOUT"}, {"ABORT"}}

Gone(m, r, x) ==
  Ready(r, x) /\ ~r.conn.app /\ r.conn.st = m.conn.st /\ r.conn.peer = m.conn.peer

LEMMA HearsOf ==
  ASSUME NEW n \in MType, Fits(n.u), NEW x \in BOOLEAN, Held(n.conn, n.u, x),
         ~n.conn.stopped, n.flags \in EndFlags, NEW late
  PROVE  Gone(n, serialip_appcall(n, late, FALSE), x)
<1> DEFINE r == serialip_appcall(n, late, FALSE)
<1>1. Kept(n, r) /\ Held(r.conn, r.u, x) /\ Called(n, r)
  BY Calls, Zenon
<1>2. Ending(n) /\ "NEWDATA" \notin n.flags /\ "CONNECTED" \notin n.flags
  BY DEF Ending, EndFlags
<1> HIDE DEF r
<1>3. ~r.conn.app /\ ~r.conn.stopped
  BY <1>1, <1>2, Zenon DEF Called
<1> QED BY <1>1, <1>3, Zenon DEF Gone, Ready, Kept, Open, r

LEMMA Hears ==
  ASSUME NEW m \in MType, Fits(m.u), NEW x \in BOOLEAN, Held(m.conn, m.u, x),
         ~m.conn.stopped, NEW f \in EndFlags,
         NEW d \in Data, NEW late
  PROVE  Gone(m, AppSees(m, f, d, late), x)
<1> DEFINE n == [m EXCEPT !.flags = f, !.data = d]
           r == serialip_appcall(n, late, FALSE)
<1>0. f \in SUBSET AppFlags
  BY DEF AppFlags, EndFlags
<1>1. n \in MType /\ n.conn = m.conn /\ n.u = m.u /\ n.flags = f
  BY <1>0, WithSeen, ZenonT(40)
<1>2. AppSees(m, f, d, late) = r
  BY Zenon DEF AppSees
<1> HIDE DEF n
<1>3. Gone(n, r, x)
  <2>1. Fits(n.u) /\ Held(n.conn, n.u, x) /\ ~n.conn.stopped
    BY <1>1, Zenon
  <2> QED BY <1>1, <2>1, HearsOf, Zenon
<1> HIDE DEF r
<1> QED BY <1>1, <1>2, <1>3, Zenon DEF Gone

LEMMA Waiting ==
  ASSUME NEW m, NEW x, Ready(m, x), m.conn.st \notin {"ESTABLISHED", "LAST_ACK"}
  PROVE  ~m.conn.app /\ ~m.conn.stopped
BY Zenon DEF Ready, Open

\* An ended or not yet open connection goes from one state to another.
LEMMA Moves ==
  ASSUME NEW m, NEW x, Ready(m, x), ~m.conn.app, NEW st \in States
  PROVE  LET r == Become(m, st)
         IN  /\ Ready(r, x) /\ r.conn.st = st /\ r.conn.peer = m.conn.peer /\ ~r.conn.app
             /\ r.flags = m.flags
<1> DEFINE r == Become(m, st)
<1>1. m \in MType
  BY DEF Ready
<1>2. /\ r \in MType /\ r.u = m.u /\ r.flags = m.flags
      /\ r.conn.st = st /\ ~r.conn.stopped /\ r.conn.app = m.conn.app
      /\ r.conn.peer = m.conn.peer
  BY <1>1, Becomes, Zenon
<1> HIDE DEF r
<1> QED BY <1>1, <1>2, Zenon DEF Ready, Held, Open, Fits, r

LEMMA MovesOn ==
  ASSUME NEW m, NEW x, Ready(m, x), m.conn.st \notin {"ESTABLISHED", "LAST_ACK"},
         NEW st \in States, st # "LAST_ACK"
  PROVE  Stepped(m, Become(m, st), x) /\ Become(m, st) \in MType
BY Waiting, Moves, Zenon DEF Stepped, Ready

\* Enough retransmissions: the connection is given up.
LEMMA GivesItUp ==
  ASSUME NEW m, NEW x \in BOOLEAN, Ready(m, x), NEW late
  PROVE  Stepped(m, tcp_send(serialip_appcall([Become(m, "CLOSED") EXCEPT !.flags = {"TIMEDOUT"}],
                                              late, FALSE), {"RST", "ACK"}, << >>), x)
<1> DEFINE b == Become(m, "CLOSED")
           n == [b EXCEPT !.flags = {"TIMEDOUT"}]
           r == serialip_appcall(n, late, FALSE)
           s == tcp_send(r, {"RST", "ACK"}, << >>)
<1>1. m \in MType /\ Fits(m.u) /\ Held(m.conn, m.u, x) /\ "CLOSED" \in States
  BY DEF Ready, States
<1>2. /\ b \in MType /\ b.u = m.u /\ b.conn.st = "CLOSED" /\ ~b.conn.stopped
      /\ b.conn.app = m.conn.app /\ b.conn.peer = m.conn.peer
  BY <1>1, Becomes, Zenon
<1> HIDE DEF b
<1>3. n \in MType /\ n.flags = {"TIMEDOUT"} /\ n.u = b.u /\ n.conn = b.conn
  <2>1. {"TIMEDOUT"} \in SUBSET AppFlags
    BY DEF AppFlags
  <2> QED BY <1>2, <2>1, WithFlags, Zenon
<1> HIDE DEF n
<1>4. Gone(n, r, x)
  <2>1. Fits(n.u) /\ Held(n.conn, n.u, x) /\ ~n.conn.stopped
    BY <1>1, <1>2, <1>3, Zenon DEF Held
  <2>2. n.flags \in EndFlags
    BY <1>3 DEF EndFlags
  <2> QED BY <1>3, <2>1, <2>2, HearsOf, Zenon
<1> HIDE DEF r
<1>5. r.conn.st # "LAST_ACK"
  BY <1>2, <1>3, <1>4 DEF Gone
<1>6. Stepped(m, r, x)
  BY <1>2, <1>3, <1>4, <1>5, Zenon DEF Stepped, Gone
<1>7. SameState(r, s)
  <2>1. << >> \in Data /\ {"RST", "ACK"} \in SUBSET TcpFlags
    BY DEF Data, TcpFlags
  <2> QED BY <1>4, <2>1, Sends, Zenon DEF Ready, Gone
<1> HIDE DEF s
<1>8. Stepped(m, s, x)
  BY <1>6, <1>7, SendKeeps, Zenon
<1> QED BY <1>8, Zenon DEF s, r, n, b

\* The application writes what it had written once more.
LEMMA AsksAgain ==
  ASSUME NEW m, NEW x \in BOOLEAN, Ready(m, x), m.conn.st = "ESTABLISHED", NEW late
  PROVE  Stepped(m, apprexmit(serialip_appcall([m EXCEPT !.flags = {"REXMIT"}], late, FALSE)), x)
<1> DEFINE n == [m EXCEPT !.flags = {"REXMIT"}]
           r == serialip_appcall(n, late, FALSE)
           s == apprexmit(r)
<1>1. n \in MType /\ n.flags = {"REXMIT"} /\ n.u = m.u /\ n.conn = m.conn
  <2>1. m \in MType /\ {"REXMIT"} \in SUBSET AppFlags
    BY DEF AppFlags, Ready
  <2> QED BY <2>1, WithFlags, Zenon
<1> HIDE DEF n
<1>2. Kept(n, r) /\ Held(r.conn, r.u, x) /\ Called(n, r)
  <2>1. Fits(n.u) /\ Held(n.conn, n.u, x) /\ (n.conn.stopped => n.conn.app)
    BY <1>1, Zenon DEF Ready, Open
  <2> QED BY <1>1, <2>1, Calls, Zenon
<1>3. ~Ending(n) /\ "REXMIT" \in n.flags
  BY <1>1 DEF Ending
<1> HIDE DEF r
<1>4. r.conn.stopped => r.conn.app
  BY <1>2, <1>3, Zenon DEF Called
<1>5. r.conn.st = "ESTABLISHED"
  BY <1>1, <1>2, Zenon DEF Kept
<1>6. r.conn.st # "LAST_ACK" /\ Open(r.conn)
  BY <1>4, <1>5 DEF Open
<1>7. Stepped(m, r, x)
  BY <1>1, <1>2, <1>6, Zenon DEF Stepped, Ready, Kept
<1>8. SameState(r, s)
  BY <1>2, Rexmits, Zenon DEF Kept
<1> HIDE DEF s
<1>9. Stepped(m, s, x)
  BY <1>7, <1>8, SendKeeps, Zenon
<1> QED BY <1>9, Zenon DEF s, r, n

LEMMA RexmitSteps ==
  ASSUME NEW m, NEW x \in BOOLEAN, Ready(m, x), NEW late
  PROVE  Stepped(m, Rexmit(m, late), x)
<1> DEFINE over == m.conn.nrtx = MaxRtx \/ (m.conn.st \in Handshake /\ m.conn.nrtx = MaxSynRtx)
           g == tcp_send(serialip_appcall([Become(m, "CLOSED") EXCEPT !.flags = {"TIMEDOUT"}],
                                          late, FALSE), {"RST", "ACK"}, << >>)
           r == [m EXCEPT !.conn.nrtx = @ + 1]
           e == apprexmit(serialip_appcall([r EXCEPT !.flags = {"REXMIT"}], late, FALSE))
<1>1. over => Rexmit(m, late) = g
  BY Zenon DEF Rexmit
<1>2. ~over =>
        \/ Rexmit(m, late) = tcp_send(r, {"SYN", "ACK"}, << >>)
        \/ Rexmit(m, late) = tcp_send(r, {"SYN"}, << >>)
        \/ Rexmit(m, late) = e /\ m.conn.st = "ESTABLISHED"
        \/ Rexmit(m, late) = tcp_send_finack(r)
  <2> HIDE DEF r, e, g
  <2> QED BY Zenon DEF Rexmit, r, e
<1>3. CASE over
  BY <1>1, <1>3, GivesItUp, Zenon
<1>4. CASE ~over
  <2>1. m \in MType /\ m.conn.nrtx # MaxRtx
    BY <1>4 DEF Ready
  <2>2. SameUse(m, r)
    BY <2>1, SetNrtx, Zenon
  <2> HIDE DEF r
  <2>3. Stepped(m, r, x) /\ Ready(r, x) /\ r \in MType /\ r.conn.st = m.conn.st
    BY <2>2, UseKeeps, Zenon DEF SameUse
  <2>4. << >> \in Data /\ {"SYN", "ACK"} \in SUBSET TcpFlags /\ {"SYN"} \in SUBSET TcpFlags
    BY DEF Data, TcpFlags
  <2>5. /\ SameState(r, tcp_send(r, {"SYN", "ACK"}, << >>)) /\ SameState(r, tcp_send(r, {"SYN"}, << >>))
        /\ SameState(r, tcp_send_finack(r))
    BY <2>3, <2>4, Sends, SendsAck, Zenon
  <2>6. ASSUME m.conn.st = "ESTABLISHED" PROVE Stepped(m, e, x)
    <3>1. Stepped(r, e, x)
      BY <2>3, <2>6, AsksAgain, Zenon
    <3> HIDE DEF e
    <3> QED BY <2>2, <2>3, <3>1, Zenon DEF Stepped, SameUse
  <2> HIDE DEF e, over
  <2> QED BY <1>2, <1>4, <2>3, <2>5, <2>6, SendKeeps, Zenon
<1> QED BY <1>3, <1>4, Zenon

LEMMA PeriodicSteps ==
  ASSUME NEW m, NEW x \in BOOLEAN, Ready(m, x), NEW due, NEW late, NEW again
  PROVE  Stepped(m, uip_periodic(m, due, late, again), x)
<1> DEFINE n == [m EXCEPT !.flags = {"POLL"}]
           a == appsend(serialip_appcall(n, late, again))
           r == uip_periodic(m, due, late, again)
<1>0. Stepped(m, m, x) /\ m \in MType /\ Fits(m.u) /\ Held(m.conn, m.u, x)
  BY StaysReady, Zenon DEF Ready
<1>1. \/ m.conn.st \in {"TIME_WAIT", "FIN_WAIT_2"} /\ r = Become(m, "CLOSED")
      \/ r = m
      \/ r = Rexmit(m, late)
      \/ m.conn.st = "ESTABLISHED" /\ r = a
  <2> HIDE DEF n
  <2> QED BY DEF uip_periodic, n
<1>2. CASE m.conn.st \in {"TIME_WAIT", "FIN_WAIT_2"} /\ r = Become(m, "CLOSED")
  <2>1. m.conn.st \notin {"ESTABLISHED", "LAST_ACK"} /\ "CLOSED" \in States
    BY <1>2 DEF States
  <2>2. Stepped(m, Become(m, "CLOSED"), x)
    BY <2>1, MovesOn, Zenon
  <2> QED BY <1>2, <2>2, Zenon
<1>3. CASE m.conn.st = "ESTABLISHED" /\ r = a
  <2>1. n \in MType /\ n.flags = {"POLL"} /\ n.u = m.u /\ n.conn = m.conn
    <3>1. {"POLL"} \in SUBSET AppFlags
      BY DEF AppFlags
    <3> QED BY <1>0, <3>1, WithFlags, Zenon
  <2> HIDE DEF n, r
  <2>2. ~Ending(n)
    BY <2>1 DEF Ending
  <2>3. Replied(n, a, x)
    <3>1. Asked(n, x)
      BY <1>0, <1>3, <2>1, Zenon DEF Ready, Open, Asked
    <3> QED BY <2>2, <3>1, Asks, Zenon
  <2> HIDE DEF a
  <2>4. a.conn.st # "LAST_ACK"
    BY <2>3 DEF Replied
  <2>5. Stepped(m, a, x)
    BY <2>1, <2>3, <2>4, Zenon DEF Stepped, Replied
  <2> QED BY <1>3, <2>5, Zenon DEF r
<1>4. CASE r = Rexmit(m, late)
  BY <1>4, RexmitSteps, Zenon
<1> HIDE DEF r
<1> QED BY <1>0, <1>1, <1>2, <1>3, <1>4, Zenon DEF r

LEMMA SegmentFields ==
  ASSUME NEW g \in InType
  PROVE  /\ g.peer \in Peers /\ g.flags \in SUBSET TcpFlags /\ g.seq \in Int /\ g.ack \in Int
         /\ g.data \in Data /\ Len(g.data) \in Nat /\ g.wnd \in Nat
BY DEF InType, Data

\* A reset changes nothing of ours.
LEMMA Refuses ==
  ASSUME NEW m \in MType, NEW g \in InType
  PROVE  SameState(m, reset(m, g))
<1> DEFINE o == [peer |-> g.peer, flags |-> {"RST", "ACK"}, seq |-> g.ack,
                 ack |-> g.seq + 1, data |-> << >>, open |-> TRUE]
<1>1. o \in OutType
  <2>1. << >> \in Data /\ {"RST", "ACK"} \in SUBSET TcpFlags /\ g.seq + 1 \in Int
    BY SegmentFields DEF Data, TcpFlags
  <2>2. g.peer \in Peers \cup {NoPeer} /\ g.ack \in Int
    BY SegmentFields
  <2> QED BY <2>1, <2>2 DEF OutType
<1>2. SameState(m, m) /\ SameState(m, [m EXCEPT !.out = o])
  <2> HIDE DEF o
  <2> QED BY <1>1 DEF SameState, MType
<1>3. reset(m, g) = m \/ reset(m, g) = [m EXCEPT !.out = o]
  BY Zenon DEF reset
<1> HIDE DEF o
<1> QED BY <1>2, <1>3, Zenon

\* What was outstanding is acknowledged, or not.
SameButFlags(m, r) ==
  /\ r \in MType /\ r.u = m.u
  /\ r.conn.st = m.conn.st /\ r.conn.stopped = m.conn.stopped /\ r.conn.app = m.conn.app
  /\ r.conn.peer = m.conn.peer

LEMMA Acknowledged ==
  ASSUME NEW m \in MType, m.flags = {}, NEW g \in InType
  PROVE  SameButFlags(m, Acknowledge(m, g)) /\ Acknowledge(m, g).flags \subseteq {"ACKDATA"}
<1> DEFINE c == [[m.conn EXCEPT !.snd = g.ack] EXCEPT !.len = 0]
           q == [m EXCEPT !.conn = c]
           r == [q EXCEPT !.flags = {"ACKDATA"}]
<1>1. /\ c \in ConnType /\ c.st = m.conn.st /\ c.stopped = m.conn.stopped
      /\ c.app = m.conn.app /\ c.peer = m.conn.peer
  <2>1. g.ack \in Int /\ 0 \in 0 .. BufSize + 1 /\ m.conn \in ConnType
    BY SegmentFields, Constants, Fields
  <2> QED BY <2>1, Zenon DEF ConnType
<1>2. [m EXCEPT !.conn.snd = g.ack, !.conn.len = 0, !.flags = {"ACKDATA"}] = r
  BY Fields, Zenon DEF MType
<1> HIDE DEF c
<1>3. q \in MType /\ q.u = m.u /\ q.conn = c
  BY <1>1, WithConn, Zenon
<1> HIDE DEF q
<1>4. r \in MType /\ r.u = q.u /\ r.conn = q.conn /\ r.flags = {"ACKDATA"}
  <2>1. {"ACKDATA"} \in SUBSET AppFlags
    BY DEF AppFlags
  <2> QED BY <1>3, <2>1, WithFlags, Zenon
<1> HIDE DEF r
<1>5. Acknowledge(m, g) = m \/ Acknowledge(m, g) = r
  BY <1>2, Zenon DEF Acknowledge
<1>6. SameButFlags(m, r) /\ r.flags \subseteq {"ACKDATA"}
  <2>1. r.flags \subseteq {"ACKDATA"}
    BY <1>4
  <2> QED BY <1>1, <1>3, <1>4, <2>1, Zenon DEF SameButFlags
<1>7. SameButFlags(m, m) /\ m.flags \subseteq {"ACKDATA"}
  <2>1. m.flags \subseteq {"ACKDATA"}
    OBVIOUS
  <2> QED BY <2>1, Zenon DEF SameButFlags
<1> QED BY <1>5, <1>6, <1>7, Zenon

\* Data, or the news that the connection is open, go to the application.
LEMMA AppSeesOpen ==
  ASSUME NEW m, NEW x \in BOOLEAN, Asked(m, x),
         NEW f \in SUBSET {"ACKDATA", "NEWDATA", "CONNECTED"}, NEW d \in Data, NEW late
  PROVE  Replied(m, appsend(AppSees(m, f, d, late)), x)
<1> DEFINE n == [m EXCEPT !.flags = f, !.data = d]
           r == appsend(serialip_appcall(n, late, FALSE))
<1>0. f \in SUBSET AppFlags /\ m \in MType
  BY DEF AppFlags, Asked
<1>1. n \in MType /\ n.conn = m.conn /\ n.u = m.u /\ n.flags = f
  BY <1>0, WithSeen, ZenonT(40)
<1>2. appsend(AppSees(m, f, d, late)) = r
  BY Zenon DEF AppSees
<1> HIDE DEF n
<1>3. ~Ending(n)
  BY <1>1 DEF Ending
<1>4. Asked(n, x)
  BY <1>1, Zenon DEF Asked
<1>5. Replied(n, r, x)
  BY <1>3, <1>4, Asks, Zenon
<1> HIDE DEF r
<1>6. Replied(m, r, x)
  BY <1>1, <1>5, Zenon DEF Replied
<1> QED BY <1>2, <1>6, Zenon

LEMMA OpensOrCloses ==
  ASSUME NEW m, NEW n, NEW r, NEW x, Replied(n, r, x), n.conn.peer = m.conn.peer
  PROVE  Stepped(m, r, x)
<1>1. r.conn.st # "LAST_ACK"
  BY DEF Replied
<1> QED BY <1>1, Zenon DEF Stepped, Replied

\* From here on g is the segment, and m what is left after Acknowledge.
Input(m, x) == Ready(m, x) /\ m.flags \subseteq {"ACKDATA"}

LEMMA SynRcvdSteps ==
  ASSUME NEW m, NEW x \in BOOLEAN, Input(m, x), m.conn.st = "SYN_RCVD", NEW g \in InType, NEW late
  PROVE  Stepped(m, InSynRcvd(m, g, late), x)
<1> DEFINE b == Become(m, "ESTABLISHED")
           n == Receive(b, Len(g.data))
           f == {"CONNECTED"} \cup (IF g.data = << >> THEN {} ELSE {"NEWDATA"})
           r == appsend(AppSees(n, f, g.data, late))
<1>0. m \in MType /\ Ready(m, x) /\ ~m.conn.app /\ "ESTABLISHED" \in States
  BY Waiting DEF Input, Ready, States
<1>1. Ready(b, x) /\ b.conn.st = "ESTABLISHED" /\ b.conn.peer = m.conn.peer
  BY <1>0, Moves, Zenon
<1> HIDE DEF b
<1>2. SameUse(b, n)
  BY <1>1, SegmentFields, Receives DEF Ready
<1> HIDE DEF n
<1>3. Ready(n, x) /\ n.conn.st = "ESTABLISHED" /\ n.conn.peer = m.conn.peer
  BY <1>1, <1>2, UseKeeps, Zenon DEF SameUse
<1>4. f \in SUBSET {"ACKDATA", "NEWDATA", "CONNECTED"} /\ g.data \in Data
  BY SegmentFields
<1> HIDE DEF f
<1>5. Replied(n, r, x)
  <2>1. Asked(n, x)
    BY <1>3, ReadyIsAsked, Zenon
  <2> QED BY <2>1, <1>4, AppSeesOpen, Zenon
<1>6. InSynRcvd(m, g, late) = m \/ InSynRcvd(m, g, late) = r
  BY Zenon DEF InSynRcvd, r, n, b, f
<1> HIDE DEF r
<1>7. Stepped(m, r, x) /\ Stepped(m, m, x)
  BY <1>0, <1>3, <1>5, OpensOrCloses, StaysReady, Zenon
<1> QED BY <1>6, <1>7, Zenon

LEMMA SynSentSteps ==
  ASSUME NEW m, NEW x \in BOOLEAN, Input(m, x), m.conn.st = "SYN_SENT", NEW g \in InType, NEW late
  PROVE  Stepped(m, InSynSent(m, g, late), x)
<1> DEFINE b == Become(m, "ESTABLISHED")
           n == [b EXCEPT !.conn.rcv = g.seq + 1]
           f == {"CONNECTED", "NEWDATA"}
           r == appsend(AppSees(n, f, << >>, late))
           a == AppSees(m, {"ABORT"}, << >>, late)
           c == Become(a, "CLOSED")
           s == reset(c, g)
<1>0. /\ m \in MType /\ Fits(m.u) /\ Held(m.conn, m.u, x) /\ Ready(m, x)
      /\ ~m.conn.app /\ ~m.conn.stopped
      /\ "ESTABLISHED" \in States /\ "CLOSED" \in States /\ << >> \in Data
  BY Waiting DEF Input, Ready, States, Data
<1>1. Ready(b, x) /\ b.conn.st = "ESTABLISHED" /\ b.conn.peer = m.conn.peer
  BY <1>0, Moves, Zenon
<1> HIDE DEF b
<1>2. SameUse(b, n)
  <2>1. g.seq + 1 \in Int /\ b \in MType
    BY <1>1, SegmentFields DEF Ready
  <2> QED BY <2>1, SetRcv, Zenon
<1> HIDE DEF n
<1>3. Ready(n, x) /\ n.conn.st = "ESTABLISHED" /\ n.conn.peer = m.conn.peer
  BY <1>1, <1>2, UseKeeps, Zenon DEF SameUse
<1>4. f \in SUBSET {"ACKDATA", "NEWDATA", "CONNECTED"}
  OBVIOUS
<1> HIDE DEF f
<1>5. Replied(n, r, x)
  <2>1. Asked(n, x)
    BY <1>3, ReadyIsAsked, Zenon
  <2> QED BY <2>1, <1>0, <1>4, AppSeesOpen, Zenon
<1>6. Gone(m, a, x)
  <2>1. {"ABORT"} \in EndFlags
    BY DEF EndFlags
  <2> QED BY <1>0, <2>1, Hears, Zenon
<1> HIDE DEF a
<1>7. Ready(c, x) /\ c.conn.st = "CLOSED" /\ c.conn.peer = m.conn.peer
  BY <1>0, <1>6, Moves, ZenonT(40) DEF Gone
<1> HIDE DEF c
<1>8. SameState(c, s)
  BY <1>7, Refuses, Zenon DEF Ready
<1>9. Stepped(m, c, x)
  <2>1. c.conn.st # "LAST_ACK"
    BY <1>7
  <2> QED BY <1>7, <2>1, Zenon DEF Stepped
<1>10. InSynSent(m, g, late) = r \/ InSynSent(m, g, late) = s
  BY Zenon DEF InSynSent, r, n, b, f, s, c, a
<1> HIDE DEF r, s
<1>11. Stepped(m, r, x) /\ Stepped(m, s, x)
  BY <1>3, <1>5, <1>8, <1>9, OpensOrCloses, SendKeeps, Zenon
<1> QED BY <1>10, <1>11, Zenon

LEMMA FinSteps ==
  ASSUME NEW m, NEW x \in BOOLEAN, Input(m, x), m.conn.st = "ESTABLISHED", NEW g \in InType, NEW late
  PROVE  Stepped(m, FinWhileOpen(m, g, late), x)
<1> DEFINE n == Receive(m, 1 + Len(g.data))
           f == m.flags \cup {"CLOSE"} \cup (IF g.data = << >> THEN {} ELSE {"NEWDATA"})
           k == [n EXCEPT !.flags = f, !.data = g.data]
           h == serialip_appcall(k, late, FALSE)
           b == Become(h, "LAST_ACK")
           c == [b EXCEPT !.conn.len = 1, !.conn.nrtx = 0]
           s == tcp_send_finack(c)
<1>0. /\ m \in MType /\ Ready(m, x) /\ "LAST_ACK" \in States
      /\ 1 \in 0 .. BufSize + 1 /\ 0 \in 0 .. MaxRtx /\ m.flags \subseteq {"ACKDATA"}
  BY Constants DEF Input, Ready, States
<1>1. SameUse(m, n)
  <2>1. 1 + Len(g.data) \in Int
    BY SegmentFields
  <2> QED BY <1>0, <2>1, Receives, Zenon
<1> HIDE DEF n
<1>2. Ready(n, x) /\ n \in MType /\ n.conn.peer = m.conn.peer
  BY <1>0, <1>1, UseKeeps, Zenon DEF SameUse
<1>3. f \in SUBSET AppFlags /\ g.data \in Data
  BY <1>0, SegmentFields DEF AppFlags
<1> HIDE DEF f
<1>4. k \in MType /\ k.conn = n.conn /\ k.u = n.u
  <2>1. n \in MType
    BY <1>2, Zenon
  <2> QED BY <2>1, <1>3, Zenon DEF MType
<1> HIDE DEF k
<1>5. Kept(k, h) /\ Held(h.conn, h.u, x)
  <2>1. Fits(k.u) /\ Held(k.conn, k.u, x) /\ (k.conn.stopped => k.conn.app)
    BY <1>2, <1>4, Zenon DEF Ready, Open
  <2> QED BY <1>4, <2>1, Calls, Zenon
<1> HIDE DEF h
<1>6. /\ b \in MType /\ b.u = h.u /\ b.conn.st = "LAST_ACK" /\ ~b.conn.stopped
      /\ b.conn.app = h.conn.app /\ b.conn.peer = h.conn.peer
  BY <1>0, <1>5, Becomes, ZenonT(40) DEF Kept
<1> HIDE DEF b
<1>7. Ready(b, x)
  <2>1. Open(b.conn)
    BY <1>6 DEF Open
  <2> QED BY <1>5, <1>6, <2>1, Zenon DEF Ready, Held, Kept
<1>8. SameUse(b, c)
  BY <1>0, <1>6, SetLen, Zenon
<1> HIDE DEF c
<1>9. Ready(c, x) /\ c \in MType /\ c.conn.peer = m.conn.peer
  BY <1>2, <1>4, <1>5, <1>6, <1>7, <1>8, UseKeeps, Zenon DEF SameUse, Kept
<1>10. Stepped(m, c, x)
  <2>1. m.conn.st \in {"ESTABLISHED", "LAST_ACK"}
    OBVIOUS
  <2> QED BY <1>9, <2>1, Zenon DEF Stepped
<1>11. SameState(c, s)
  BY <1>9, SendsAck, Zenon
<1>12. FinWhileOpen(m, g, late) = m \/ FinWhileOpen(m, g, late) = s
  BY Zenon DEF FinWhileOpen, AppSees, s, c, b, h, k, f, n
<1> HIDE DEF s
<1>13. Stepped(m, m, x) /\ Stepped(m, s, x)
  BY <1>0, <1>10, <1>11, StaysReady, SendKeeps, Zenon
<1> QED BY <1>12, <1>13, Zenon

LEMMA EstablishedSteps ==
  ASSUME NEW m, NEW x \in BOOLEAN, Input(m, x), m.conn.st = "ESTABLISHED", NEW g \in InType, NEW late
  PROVE  Stepped(m, InEstablished(m, g, late), x)
<1> DEFINE takes == g.data # << >> /\ ~m.conn.stopped
           i == IF takes THEN Len(g.data) ELSE 0
           q == Receive(m, i)
           n == [q EXCEPT !.conn.mss = Mss(g.wnd)]
           f == m.flags \cup (IF takes THEN {"NEWDATA"} ELSE {})
           r == appsend(AppSees(n, f, g.data, late))
<1>0. m \in MType /\ Ready(m, x) /\ m.flags \subseteq {"ACKDATA"}
  BY DEF Input, Ready
<1>1. SameUse(m, q)
  <2>1. i \in Int
    BY SegmentFields
  <2> HIDE DEF i
  <2> QED BY <1>0, <2>1, Receives, Zenon
<1> HIDE DEF q
<1>2. SameUse(q, n)
  BY <1>1, SegmentFields, SetMss, Zenon DEF SameUse
<1> HIDE DEF n
<1>3. Ready(n, x) /\ n.conn.st = "ESTABLISHED" /\ n.conn.peer = m.conn.peer /\ Stepped(m, n, x)
  <2>1. SameUse(m, n)
    BY <1>1, <1>2, Zenon DEF SameUse
  <2> QED BY <1>0, <2>1, UseKeeps, Zenon DEF SameUse
<1>4. f \in SUBSET {"ACKDATA", "NEWDATA", "CONNECTED"} /\ g.data \in Data
  BY <1>0, SegmentFields
<1>5. \/ InEstablished(m, g, late) = FinWhileOpen(m, g, late)
      \/ InEstablished(m, g, late) = n
      \/ InEstablished(m, g, late) = r
  BY Zenon DEF InEstablished, n, q
<1> HIDE DEF f
<1>6. Replied(n, r, x)
  <2>1. Asked(n, x)
    BY <1>3, ReadyIsAsked, Zenon
  <2> QED BY <2>1, <1>4, AppSeesOpen, Zenon
<1> HIDE DEF r
<1>7. Stepped(m, r, x) /\ Stepped(m, FinWhileOpen(m, g, late), x)
  BY <1>3, <1>6, OpensOrCloses, FinSteps, Zenon
<1> QED BY <1>3, <1>5, <1>7, Zenon

\* A connection that is over, and whose end the application hears of.
LEMMA EndSteps ==
  ASSUME NEW m, NEW x \in BOOLEAN, Ready(m, x), NEW st \in States, st # "LAST_ACK",
         NEW f \in EndFlags, NEW d \in Data, NEW late
  PROVE  LET b == Become(m, st)
             r == AppSees(b, f, d, late)
         IN  Gone(b, r, x) /\ Stepped(m, r, x) /\ r.conn.st = st
<1> DEFINE b == Become(m, st)
           r == AppSees(b, f, d, late)
<1>1. m \in MType /\ Fits(m.u) /\ Held(m.conn, m.u, x)
  BY DEF Ready
<1>2. /\ b \in MType /\ b.u = m.u /\ b.conn.st = st /\ ~b.conn.stopped
      /\ b.conn.app = m.conn.app /\ b.conn.peer = m.conn.peer
  BY <1>1, Becomes, Zenon
<1> HIDE DEF b
<1>3. Gone(b, r, x)
  <2>1. Fits(b.u) /\ Held(b.conn, b.u, x)
    BY <1>1, <1>2, Zenon DEF Held
  <2> QED BY <1>2, <2>1, Hears, Zenon
<1> HIDE DEF r
<1>4. Stepped(m, r, x) /\ r.conn.st = st
  BY <1>2, <1>3, Zenon DEF Stepped, Gone
<1> QED BY <1>3, <1>4, Zenon DEF r, b

LEMMA LastAckSteps ==
  ASSUME NEW m, NEW x \in BOOLEAN, Input(m, x), NEW g \in InType, NEW late
  PROVE  Stepped(m, InLastAck(m, g, late), x)
<1> DEFINE r == AppSees(Become(m, "CLOSED"), {"CLOSE"}, g.data, late)
<1>1. Ready(m, x) /\ "CLOSED" \in States /\ {"CLOSE"} \in EndFlags /\ g.data \in Data /\ "CLOSED" # "LAST_ACK"
  BY SegmentFields DEF Input, States, EndFlags
<1>2. Stepped(m, r, x) /\ Stepped(m, m, x)
  BY <1>1, EndSteps, StaysReady, ZenonT(40)
<1>3. InLastAck(m, g, late) = m \/ InLastAck(m, g, late) = r
  BY Zenon DEF InLastAck
<1> HIDE DEF r
<1> QED BY <1>2, <1>3, Zenon

LEMMA FinWaitSteps ==
  ASSUME NEW m, NEW x \in BOOLEAN, Input(m, x), m.conn.st \in {"FIN_WAIT_1", "FIN_WAIT_2"},
         NEW g \in InType, NEW late
  PROVE  Stepped(m, InFinWait(m, g, late), x)
<1> DEFINE n == Receive(m, Len(g.data))
           end == IF m.conn.st = "FIN_WAIT_2" \/ IsAcked(m) THEN "TIME_WAIT" ELSE "CLOSING"
           b == Become(n, end)
           q == Receive(b, 1)
           a == AppSees(q, {"CLOSE"}, g.data, late)
           s == tcp_send_ack(a)
           w == Become(n, "FIN_WAIT_2")
           z == tcp_send_ack(n)
<1>0. /\ m \in MType /\ Ready(m, x) /\ Len(g.data) \in Int /\ g.data \in Data
      /\ m.conn.st \notin {"ESTABLISHED", "LAST_ACK"} /\ {"CLOSE"} \in EndFlags /\ 1 \in Int
      /\ "FIN_WAIT_2" \in States /\ "FIN_WAIT_2" # "LAST_ACK"
  BY SegmentFields DEF Input, Ready, EndFlags, States
<1>1. SameUse(m, n)
  BY <1>0, Receives, Zenon
<1> HIDE DEF n
<1>2. /\ Ready(n, x) /\ Stepped(m, n, x) /\ n.conn.peer = m.conn.peer /\ n.conn.st = m.conn.st
      /\ n \in MType /\ ~n.conn.app
  <2>1. ~m.conn.app
    BY <1>0, Waiting, Zenon
  <2> QED BY <1>0, <1>1, <2>1, UseKeeps, Zenon DEF SameUse
<1>3. end \in States /\ end # "LAST_ACK"
  BY DEF States
<1> HIDE DEF end
<1>4. Ready(b, x) /\ b.conn.st = end /\ b.conn.peer = n.conn.peer /\ ~b.conn.app /\ b \in MType
  BY <1>2, <1>3, Moves, Zenon DEF Ready
<1> HIDE DEF b
<1>5. SameUse(b, q)
  BY <1>0, <1>4, Receives, Zenon
<1> HIDE DEF q
<1>6. Ready(q, x) /\ q \in MType /\ ~q.conn.stopped /\ q.conn.st = end /\ q.conn.peer = m.conn.peer
  <2>1. Ready(q, x) /\ ~q.conn.app
    BY <1>4, <1>5, UseKeeps, Zenon DEF SameUse
  <2> QED BY <1>2, <1>4, <1>5, <2>1, Zenon DEF SameUse, Ready, Open
<1>7. Gone(q, a, x)
  <2>1. Fits(q.u) /\ Held(q.conn, q.u, x)
    BY <1>6, Zenon DEF Ready
  <2> QED BY <1>0, <1>6, <2>1, Hears, Zenon
<1> HIDE DEF a
<1>8. Stepped(m, a, x) /\ a \in MType
  BY <1>3, <1>6, <1>7, Zenon DEF Gone, Stepped, Ready
<1>9. Ready(w, x) /\ w.conn.st = "FIN_WAIT_2" /\ w.conn.peer = n.conn.peer
  BY <1>0, <1>2, Moves, Zenon
<1>10. SameState(a, s) /\ SameState(n, z)
  BY <1>2, <1>8, SendsAck, Zenon
<1> HIDE DEF w, s, z
<1>11. Stepped(m, w, x)
  BY <1>0, <1>2, <1>9, Zenon DEF Stepped
<1>12. Stepped(m, s, x) /\ Stepped(m, z, x)
  BY <1>2, <1>8, <1>10, SendKeeps, Zenon
<1>13. \/ InFinWait(m, g, late) = s \/ InFinWait(m, g, late) = w
       \/ InFinWait(m, g, late) = z \/ InFinWait(m, g, late) = n
  BY Zenon DEF InFinWait, s, w, z, a, q, b, end, n
<1> QED BY <1>2, <1>11, <1>12, <1>13, Zenon

LEMMA FoundSteps ==
  ASSUME NEW m0, NEW x \in BOOLEAN, Ready(m0, x), m0.flags = {}, m0.conn.st # "CLOSED",
         NEW g \in InType, NEW late
  PROVE  Stepped(m0, found(m0, g, late), x)
<1> DEFINE m == Acknowledge(m0, g)
           b == AppSees(Become(m0, "CLOSED"), {"ABORT"}, << >>, late)
           r == found(m0, g, late)
<1>0. /\ m0 \in MType /\ "CLOSED" \in States /\ {"ABORT"} \in EndFlags /\ << >> \in Data
      /\ "CLOSED" # "LAST_ACK"
  BY DEF Ready, States, EndFlags, Data
<1>1. Stepped(m0, b, x)
  BY <1>0, EndSteps, ZenonT(40)
<1>2. Stepped(m0, tcp_send_ack(m0), x)
  BY <1>0, StaysReady, SendsAck, SendKeeps, Zenon
<1>3. SameButFlags(m0, m) /\ m.flags \subseteq {"ACKDATA"}
  BY <1>0, Acknowledged, Zenon
<1>4. \/ r = b \/ r = tcp_send_ack(m0)
      \/ m.conn.st = "SYN_RCVD" /\ r = InSynRcvd(m, g, late)
      \/ m.conn.st = "SYN_SENT" /\ r = InSynSent(m, g, late)
      \/ m.conn.st = "ESTABLISHED" /\ r = InEstablished(m, g, late)
      \/ r = InLastAck(m, g, late)
      \/ m.conn.st \in {"FIN_WAIT_1", "FIN_WAIT_2"} /\ r = InFinWait(m, g, late)
      \/ r = tcp_send_ack(m)
      \/ m.conn.st = "CLOSING" /\ r = InClosing(m)
  <2> HIDE DEF m, b
  <2>1. m.conn.st \in States \ {"CLOSED"}
    BY <1>0, <1>3, Fields, ConnFields DEF SameButFlags
  <2>2. \/ m.conn.st \in {"SYN_RCVD", "SYN_SENT", "ESTABLISHED", "LAST_ACK"}
        \/ m.conn.st \in {"FIN_WAIT_1", "FIN_WAIT_2"}
        \/ m.conn.st \in {"TIME_WAIT", "CLOSING"}
    BY <2>1 DEF States
  <2> QED BY <2>2, ZenonT(40) DEF found, b, m
<1> HIDE DEF b, m
<1>5. Ready(m, x) /\ Input(m, x)
  BY <1>3, Zenon DEF SameButFlags, Ready, Input, Held, Open
<1>6. ASSUME NEW s, Stepped(m, s, x) PROVE Stepped(m0, s, x)
  BY <1>3, <1>6, Zenon DEF Stepped, SameButFlags
<1>7. Stepped(m, tcp_send_ack(m), x)
  <2>1. m \in MType
    BY <1>5, Zenon DEF Ready
  <2> QED BY <1>5, <2>1, StaysReady, SendsAck, SendKeeps, Zenon
<1>8. ASSUME m.conn.st = "CLOSING" PROVE Stepped(m, InClosing(m), x)
  <2>1. "TIME_WAIT" \in States /\ "TIME_WAIT" # "LAST_ACK" /\ m.conn.st \notin {"ESTABLISHED", "LAST_ACK"}
    BY <1>8 DEF States
  <2>2. Stepped(m, Become(m, "TIME_WAIT"), x)
    BY <1>5, <2>1, MovesOn, Zenon
  <2> QED BY <1>5, <2>2, StaysReady, Zenon DEF InClosing
<1>9. ASSUME m.conn.st = "SYN_RCVD" PROVE Stepped(m, InSynRcvd(m, g, late), x)
  BY <1>5, <1>9, SynRcvdSteps, Zenon
<1>10. ASSUME m.conn.st = "SYN_SENT" PROVE Stepped(m, InSynSent(m, g, late), x)
  BY <1>5, <1>10, SynSentSteps, Zenon
<1>11. ASSUME m.conn.st = "ESTABLISHED" PROVE Stepped(m, InEstablished(m, g, late), x)
  BY <1>5, <1>11, EstablishedSteps, Zenon
<1>12. Stepped(m, InLastAck(m, g, late), x)
  BY <1>5, LastAckSteps, Zenon
<1>13. ASSUME m.conn.st \in {"FIN_WAIT_1", "FIN_WAIT_2"} PROVE Stepped(m, InFinWait(m, g, late), x)
  BY <1>5, <1>13, FinWaitSteps, Zenon
<1> HIDE DEF r
<1>14. Stepped(m0, r, x)
  BY <1>1, <1>2, <1>4, <1>6, <1>7, <1>8, <1>9, <1>10, <1>11, <1>12, <1>13, Zenon
<1> QED BY <1>14, Zenon DEF r

LEMMA OpensConn ==
  ASSUME NEW c \in ConnType, NEW p \in Peers, NEW server \in BOOLEAN
  PROVE  LET o == Opened(c, p, server)
         IN  /\ o \in ConnType /\ o.st = c.st /\ o.stopped = c.stopped /\ o.app = c.app
             /\ o.peer = p
<1>1. /\ c.iss + IssStep \in Int /\ 1 \in 0 .. BufSize + 1 /\ 0 \in 0 .. MaxRtx
      /\ BufSize \in 0 .. BufSize
  BY ConnFields, Constants DEF IssStep
<1>2. p \in Peers \cup {NoPeer}
  OBVIOUS
<1> DEFINE c1 == [c EXCEPT !.peer = p]
           c2 == [c1 EXCEPT !.server = server]
           c3 == [c2 EXCEPT !.iss = c.iss + IssStep]
           c4 == [c3 EXCEPT !.snd = c.iss + IssStep]
           c5 == [c4 EXCEPT !.len = 1]
           c6 == [c5 EXCEPT !.nrtx = 0]
           c7 == [c6 EXCEPT !.mss = BufSize]
<1>3. Opened(c, p, server) = c7
  BY DEF Opened, ConnType
<1>4. c1 \in ConnType /\ c1.st = c.st /\ c1.stopped = c.stopped /\ c1.app = c.app /\ c1.peer = p
  BY <1>2 DEF ConnType
<1> HIDE DEF c1
<1>5. c2 \in ConnType /\ c2.st = c.st /\ c2.stopped = c.stopped /\ c2.app = c.app /\ c2.peer = p
  BY <1>4 DEF ConnType
<1> HIDE DEF c2
<1>6. c3 \in ConnType /\ c3.st = c.st /\ c3.stopped = c.stopped /\ c3.app = c.app /\ c3.peer = p
  BY <1>1, <1>5 DEF ConnType
<1> HIDE DEF c3
<1>7. c4 \in ConnType /\ c4.st = c.st /\ c4.stopped = c.stopped /\ c4.app = c.app /\ c4.peer = p
  BY <1>1, <1>6 DEF ConnType
<1> HIDE DEF c4
<1>8. c5 \in ConnType /\ c5.st = c.st /\ c5.stopped = c.stopped /\ c5.app = c.app /\ c5.peer = p
  BY <1>1, <1>7 DEF ConnType
<1> HIDE DEF c5
<1>9. c6 \in ConnType /\ c6.st = c.st /\ c6.stopped = c.stopped /\ c6.app = c.app /\ c6.peer = p
  BY <1>1, <1>8 DEF ConnType
<1> HIDE DEF c6
<1>10. c7 \in ConnType /\ c7.st = c.st /\ c7.stopped = c.stopped /\ c7.app = c.app /\ c7.peer = p
  BY <1>1, <1>9 DEF ConnType
<1> HIDE DEF c7
<1> QED BY <1>3, <1>10, Zenon

LEMMA ListenSteps ==
  ASSUME NEW m, NEW x \in BOOLEAN, Ready(m, x), NEW g \in InType
  PROVE  Stepped(m, found_listen(m, g), x)
<1> DEFINE b == Become(m, "SYN_RCVD")
           o == Opened(b.conn, g.peer, TRUE)
           q == [b EXCEPT !.conn = o]
           r == [q EXCEPT !.conn.rcv = g.seq + 1]
           s == tcp_send(r, {"SYN", "ACK"}, << >>)
<1>1. CASE m.conn.st \notin {"CLOSED", "TIME_WAIT"}
  <2>1. found_listen(m, g) = m
    BY <1>1, Zenon DEF found_listen
  <2> QED BY <2>1, StaysReady, Zenon
<1>2. CASE m.conn.st \in {"CLOSED", "TIME_WAIT"}
  <2>0. /\ m.conn.st \notin {"ESTABLISHED", "LAST_ACK"} /\ "SYN_RCVD" \in States
        /\ g.peer \in Peers /\ g.seq + 1 \in Int /\ g.peer \in Peers \cup {NoPeer}
        /\ << >> \in Data /\ {"SYN", "ACK"} \in SUBSET TcpFlags
    BY <1>2, SegmentFields DEF States, Data, TcpFlags
  <2>1. Ready(b, x) /\ b.conn.st = "SYN_RCVD" /\ ~b.conn.app /\ b \in MType
    <3>1. ~m.conn.app
      BY <2>0, Waiting, Zenon
    <3> QED BY <2>0, <3>1, Moves, Zenon DEF Ready
  <2>2. found_listen(m, g) = s
    <3>1. b.conn.rcv = b.conn.rcv
      OBVIOUS
    <3>2. [b EXCEPT !.conn = Opened(@, g.peer, TRUE), !.conn.rcv = g.seq + 1] = r
      <4> HIDE DEF b
      <4> QED BY <2>1 DEF MType
    <3> HIDE DEF r
    <3> QED BY <1>2, <3>2, Zenon DEF found_listen, s
  <2> HIDE DEF b
  <2>3. b.conn \in ConnType
    BY <2>1, Fields, Zenon
  <2>4. o \in ConnType /\ o.st = b.conn.st /\ o.stopped = b.conn.stopped /\ o.app = b.conn.app /\ o.peer = g.peer
    BY <2>0, <2>3, OpensConn, Zenon
  <2> HIDE DEF o
  <2>5. q \in MType /\ q.conn = o /\ q.u = b.u
    BY <2>1, <2>4, WithConn, Zenon
  <2> HIDE DEF q
  <2>6. SameUse(q, r)
    BY <2>0, <2>5, SetRcv, Zenon
  <2> HIDE DEF r
  <2>7. r.conn.st # "LAST_ACK" /\ r.conn.peer \in Peers
    BY <2>0, <2>1, <2>4, <2>5, <2>6 DEF SameUse
  <2>8. Ready(q, x)
    <3>1. ~q.conn.app /\ ~q.conn.stopped
      BY <2>1, <2>4, <2>5, Zenon DEF Ready, Open
    <3> QED BY <2>1, <2>4, <2>5, <3>1, Zenon DEF Ready, Held, Open
  <2>9. Stepped(m, r, x) /\ r \in MType
    BY <2>6, <2>7, <2>8, UseKeeps, Zenon DEF Stepped, SameUse
  <2>10. SameState(r, s)
    BY <2>0, <2>9, Sends, Zenon
  <2> HIDE DEF s
  <2> QED BY <2>2, <2>9, <2>10, SendKeeps, Zenon
<1> QED BY <1>1, <1>2, Zenon

LEMMA InputSteps ==
  ASSUME NEW m, NEW x \in BOOLEAN, Ready(m, x), m.flags = {}, NEW g \in InType, NEW late
  PROVE  Stepped(m, uip_input(m, g, late), x)
<1> DEFINE r == uip_input(m, g, late)
<1>1. \/ m.conn.st # "CLOSED" /\ r = found(m, g, late)
      \/ r = found_listen(m, g)
      \/ r = reset(m, g)
  BY Zenon DEF uip_input
<1>2. Stepped(m, found_listen(m, g), x)
  BY ListenSteps, Zenon
<1>3. Stepped(m, reset(m, g), x)
  <2>1. m \in MType
    BY DEF Ready
  <2> QED BY <2>1, StaysReady, Refuses, SendKeeps, Zenon
<1>4. ASSUME m.conn.st # "CLOSED" PROVE Stepped(m, found(m, g, late), x)
  BY <1>4, FoundSteps, Zenon
<1> HIDE DEF r
<1>5. Stepped(m, r, x)
  BY <1>1, <1>2, <1>3, <1>4, Zenon
<1> QED BY <1>5, Zenon DEF r

-----------------------------------------------------------------------------
LEMMA SentTyped ==
  ASSUME NEW S, NEW net, net \subseteq S, NEW g, g \in S \cup {None}, NEW cap,
         NEW n \in Sent(net, g, cap)
  PROVE  n \subseteq S
BY DEF Sent

LEMMA TakenTyped ==
  ASSUME NEW S, NEW net, net \subseteq S, NEW g, NEW n \in Taken(net, g)
  PROVE  n \subseteq S
BY DEF Taken

\* What uip_process works on, when it begins.
LEMMA Begins ==
  ASSUME UipInv
  PROVE  LET m == Machine({}, << >>)
         IN  /\ Ready(m, user.data) /\ m.flags = {} /\ m.conn = conn /\ m.u = u
             /\ user.data \in BOOLEAN
<1> DEFINE m == Machine({}, << >>)
<1>1. conn \in ConnType /\ u \in UType /\ Fits(u) /\ user.data \in BOOLEAN
  BY DEF UipInv, UipTypeOK
<1>2. m.flags = {} /\ m.conn = conn /\ m.u = u /\ m \in MType
  <2>1. {} \in SUBSET AppFlags /\ << >> \in Data /\ 0 \in 0 .. BufSize
    BY Constants DEF Data
  <2> QED BY <1>1, <2>1 DEF Machine, MType
<1> HIDE DEF m
<1>3. Ready(m, user.data)
  BY <1>1, <1>2, Zenon DEF Ready, UipInv
<1> QED BY <1>1, <1>2, <1>3, Zenon DEF m

\* What a tick does to the invariant.
LEMMA TickKeeps ==
  ASSUME UipInv, NEW r, Stepped(Machine({}, << >>), r, user.data), Handled(r), ~Resumes,
         toUip' \subseteq InType, UNCHANGED <<user, peer, written>>
  PROVE  UipInv'
<1> DEFINE m == Machine({}, << >>)
<1>1. m.conn = conn
  BY Begins, Zenon
<1> HIDE DEF m
<1>2. /\ Ready(r, user.data)
      /\ r.conn.st = "LAST_ACK" => conn.st \in {"ESTABLISHED", "LAST_ACK"}
      /\ conn.peer \in Peers => r.conn.peer \in Peers
  BY <1>1, Zenon DEF Stepped, m
<1>3. conn' = r.conn /\ u' = r.u /\ toPeer' \in Sent(toPeer, r.out, ToPeerCap)
  BY DEF Handled
<1>4. r \in MType /\ Fits(r.u) /\ Held(r.conn, r.u, user.data) /\ Open(r.conn)
  BY <1>2, Zenon DEF Ready
<1>5. r.conn \in ConnType /\ r.u \in UType /\ r.out \in OutType \cup {None}
  BY <1>4, Fields, Zenon
<1>6. toPeer' \subseteq OutType
  <2>1. toPeer \subseteq OutType
    BY DEF UipInv, UipTypeOK
  <2> QED BY <1>3, <1>5, <2>1, SMTT(30) DEF Sent
<1>7. UipTypeOK'
  <2>1. /\ user \in [pc : {"idle", "connecting", "writing"}, data : BOOLEAN, todo : 0 .. MaxOut]
        /\ peer \in [Peers -> PeerType] /\ written \in [Peers -> Nat]
        /\ UNCHANGED user /\ UNCHANGED peer /\ UNCHANGED written
    BY DEF UipInv, UipTypeOK
  <2>2. conn' \in ConnType /\ u' \in UType /\ Fits(u')
    BY <1>3, <1>4, <1>5, Zenon
  <2> QED BY <1>6, <2>1, <2>2 DEF UipTypeOK
<1>8. Waits'
  <2>1. user'.pc = "connecting" => ~user'.data /\ conn'.st # "LAST_ACK"
    BY <1>2, <1>3 DEF UipInv, Waits, Resumes
  <2>2. user'.pc = "writing" => conn'.peer \in Peers
    BY <1>2, <1>3 DEF UipInv, Waits
  <2> QED BY <2>1, <2>2, Zenon DEF Waits
<1> QED BY <1>3, <1>4, <1>7, <1>8, Zenon DEF UipInv

LEMMA TickInputKeeps ==
  ASSUME UipInv, TickInput
  PROVE  UipInv'
<1>1. PICK g \in toUip, late \in Late :
        /\ ~Resumes /\ toUip' \in Taken(toUip, g)
        /\ Handled(uip_input(Machine({}, << >>), g, late))
        /\ UNCHANGED <<user, peer, written>>
  BY Zenon DEF TickInput
<1>2. g \in InType /\ toUip \subseteq InType
  BY DEF UipInv, UipTypeOK
<1>3. Stepped(Machine({}, << >>), uip_input(Machine({}, << >>), g, late), user.data)
  BY <1>2, Begins, InputSteps, Zenon
<1>4. toUip' \subseteq InType
  BY <1>1, <1>2, TakenTyped, Zenon
<1> QED BY <1>1, <1>3, <1>4, TickKeeps, Zenon

LEMMA TickPeriodicKeeps ==
  ASSUME UipInv, TickPeriodic
  PROVE  UipInv'
<1>1. PICK due \in BOOLEAN, again \in BOOLEAN, late \in Late :
        /\ ~Resumes /\ Handled(uip_periodic(Machine({}, << >>), due, late, again))
        /\ UNCHANGED <<user, peer, toUip, written>>
  BY Zenon DEF TickPeriodic
<1>2. Stepped(Machine({}, << >>), uip_periodic(Machine({}, << >>), due, late, again), user.data)
  BY Begins, PeriodicSteps, Zenon
<1>3. toUip' \subseteq InType
  BY <1>1 DEF UipInv, UipTypeOK
<1> QED BY <1>1, <1>2, <1>3, TickKeeps, Zenon

UserType == [pc : {"idle", "connecting", "writing"}, data : BOOLEAN, todo : 0 .. MaxOut]

LEMMA InvParts ==
  ASSUME UipInv
  PROVE  /\ conn \in ConnType /\ u \in UType /\ Fits(u) /\ user \in UserType
         /\ peer \in [Peers -> PeerType] /\ toUip \subseteq InType /\ toPeer \subseteq OutType
         /\ written \in [Peers -> Nat]
         /\ Held(conn, u, user.data) /\ Open(conn) /\ Waits
BY DEF UipInv, UipTypeOK, UserType

\* A call of the sketch that is no tick: the peers and the network stay.
LEMMA SketchKeeps ==
  ASSUME UipInv, UNCHANGED <<peer, toUip, toPeer>>,
         conn' \in ConnType, u' \in UType, Fits(u'), user' \in UserType, written' \in [Peers -> Nat],
         Held(conn', u', user'.data), Open(conn'), Waits'
  PROVE  UipInv'
<1>1. peer' \in [Peers -> PeerType] /\ toUip' \subseteq InType /\ toPeer' \subseteq OutType
  <2>1. /\ peer \in [Peers -> PeerType] /\ toUip \subseteq InType /\ toPeer \subseteq OutType
        /\ peer' = peer /\ toUip' = toUip /\ toPeer' = toPeer
    BY InvParts
  <2> QED BY <2>1
<1>2. UipTypeOK'
  BY <1>1, Zenon DEF UipTypeOK, UserType
<1> QED BY <1>2, Zenon DEF UipInv

LEMMA StopFacts ==
  ASSUME NEW c \in ConnType, NEW w \in UType, Fits(w), NEW x \in BOOLEAN, Held(c, w, x)
  PROVE  LET v == StopData(w) IN v \in UType /\ Fits(v) /\ \A y \in BOOLEAN : Held(c, v, y)
<1> DEFINE f == IF "REMOTECLOSED" \in w.state THEN {} ELSE w.state \cup {"CLOSE"}
           z == [[w EXCEPT !.packets_in = FALSE] EXCEPT !.dataCnt = 0]
           v == [z EXCEPT !.state = f]
<1>1. CASE w.state = {}
  <2>1. StopData(w) = w
    BY <1>1, Zenon DEF StopData
  <2>2. \A y \in BOOLEAN : Held(c, w, y)
    BY <1>1 DEF Held
  <2> QED BY <2>1, <2>2, Zenon
<1>2. CASE w.state # {}
  <2>1. StopData(w) = v
    BY <1>2 DEF StopData, UType
  <2>2. f \in SUBSET UFlags
    BY UFields DEF UFlags
  <2>3. z \in UType /\ Fits(z)
    <3>1. 0 \in 0 .. BufSize /\ w.in_pos \in 0 .. BufSize
      BY Constants, UFields
    <3>2. z \in UType /\ z.dataCnt = 0 /\ z.in_pos = w.in_pos
      BY <3>1, Zenon DEF UType
    <3> HIDE DEF z
    <3> QED BY <3>1, <3>2, Constants DEF Fits
  <2>4. \A y \in BOOLEAN : (c.app => "CONNECTED" \in f /\ "REMOTECLOSED" \notin f) /\ (f # {} => c.app)
    BY <1>2 DEF Held
  <2> HIDE DEF f, z
  <2>5. v \in UType /\ Fits(v) /\ v.state = f
    BY <2>2, <2>3, SetState, Zenon
  <2> HIDE DEF v
  <2> QED BY <2>1, <2>4, <2>5, Zenon DEF Held
<1> QED BY <1>1, <1>2, Zenon

LEMMA AvailableKeeps ==
  ASSUME UipInv, available
  PROVE  UipInv'
<1>1. /\ user.pc = "idle" /\ user' = [user EXCEPT !.data = TRUE]
      /\ UNCHANGED <<conn, u, peer, toUip, toPeer, written>>
  BY DEF available
<1>2. user' \in UserType /\ user'.data = TRUE /\ user'.pc = "idle"
  BY <1>1, InvParts, Zenon DEF UserType
<1>3. Waits'
  BY <1>2 DEF Waits
<1>4. /\ conn' \in ConnType /\ u' \in UType /\ Fits(u') /\ written' \in [Peers -> Nat] /\ Open(conn')
  BY <1>1, InvParts
<1>5. Held(conn', u', user'.data)
  BY <1>1, <1>2, InvParts DEF Held
<1> QED BY <1>1, <1>2, <1>3, <1>4, <1>5, SketchKeeps

LEMMA StopKeeps ==
  ASSUME UipInv, stop
  PROVE  UipInv'
<1>1. /\ user.pc = "idle" /\ u' = StopData(u) /\ user' = [user EXCEPT !.data = FALSE]
      /\ UNCHANGED <<conn, peer, toUip, toPeer, written>>
  BY DEF stop
<1>2. user' \in UserType /\ user'.data = FALSE /\ user'.pc = "idle"
  BY <1>1, InvParts, Zenon DEF UserType
<1>3. Waits'
  BY <1>2 DEF Waits
<1>4. conn' \in ConnType /\ written' \in [Peers -> Nat] /\ Open(conn')
  BY <1>1, InvParts
<1>5. u' \in UType /\ Fits(u') /\ Held(conn', u', user'.data)
  <2>1. user.data \in BOOLEAN
    BY InvParts DEF UserType
  <2>2. StopData(u) \in UType /\ Fits(StopData(u)) /\ Held(conn, StopData(u), FALSE)
    BY <2>1, InvParts, StopFacts, Zenon
  <2> QED BY <1>1, <1>2, <2>2, Zenon
<1> QED BY <1>1, <1>2, <1>3, <1>4, <1>5, SketchKeeps

LEMMA ConnectKeeps ==
  ASSUME UipInv, NEW p \in Peers, connect(p)
  PROVE  UipInv'
<1>0. /\ conn \in ConnType /\ u \in UType /\ Fits(u) /\ user \in UserType /\ written \in [Peers -> Nat]
      /\ Held(conn, u, user.data) /\ Open(conn) /\ user.data \in BOOLEAN
  BY InvParts DEF UserType
<1>1. /\ user.pc = "idle" /\ u' = IF user.data THEN StopData(u) ELSE u
      /\ UNCHANGED <<peer, toUip, toPeer, written>>
  BY DEF connect
<1>2. u' \in UType /\ Fits(u') /\ Held(conn, u', FALSE)
  <2>1. StopData(u) \in UType /\ Fits(StopData(u)) /\ Held(conn, StopData(u), FALSE)
    BY <1>0, StopFacts, Zenon
  <2>2. CASE user.data
    BY <1>1, <2>1, <2>2, Zenon
  <2>3. CASE ~user.data
    <3>1. u' = u /\ user.data = FALSE
      BY <1>0, <1>1, <2>3
    <3> QED BY <1>0, <3>1, Zenon
  <2> QED BY <2>2, <2>3, Zenon
<1>3. CASE conn.st \in {"CLOSED", "TIME_WAIT"}
  <2> DEFINE o == Opened(conn, p, FALSE)
             c == [[o EXCEPT !.st = "SYN_SENT"] EXCEPT !.stopped = FALSE]
  <2>1. conn' = c /\ user' = [user EXCEPT !.data = FALSE, !.pc = "connecting"]
    BY <1>3 DEF connect
  <2>2. o \in ConnType /\ o.app = conn.app /\ o.peer = p
    BY <1>0, OpensConn, Zenon
  <2>3. ~conn.app
    BY <1>0, <1>3 DEF Open
  <2> HIDE DEF o
  <2>4. c \in ConnType /\ ~c.app /\ ~c.stopped /\ c.st = "SYN_SENT"
    BY <2>2, <2>3, Zenon DEF ConnType, States
  <2> HIDE DEF c
  <2>5. user' \in UserType /\ user'.data = FALSE /\ user'.pc = "connecting"
    BY <1>0, <2>1, Zenon DEF UserType
  <2>6. conn' \in ConnType /\ Open(conn') /\ Held(conn', u', user'.data)
    BY <1>2, <2>1, <2>3, <2>4, <2>5, Zenon DEF Open, Held
  <2>7. Waits'
    BY <2>1, <2>4, <2>5 DEF Waits
  <2>8. written' \in [Peers -> Nat]
    BY <1>0, <1>1
  <2> QED BY <1>1, <1>2, <2>5, <2>6, <2>7, <2>8, SketchKeeps
<1>4. CASE conn.st \notin {"CLOSED", "TIME_WAIT"}
  <2>1. conn' = conn /\ user' = [user EXCEPT !.data = FALSE]
    BY <1>4 DEF connect
  <2>2. user' \in UserType /\ user'.data = FALSE /\ user'.pc = "idle"
    BY <1>0, <1>1, <2>1, Zenon DEF UserType
  <2>3. conn' \in ConnType /\ Open(conn') /\ Held(conn', u', user'.data)
    BY <1>0, <1>2, <2>1, <2>2, Zenon
  <2>4. Waits'
    BY <2>2 DEF Waits
  <2>5. written' \in [Peers -> Nat]
    BY <1>0, <1>1
  <2> QED BY <1>1, <1>2, <2>2, <2>3, <2>4, <2>5, SketchKeeps
<1> QED BY <1>3, <1>4, Zenon

LEMMA ConnectReturnKeeps ==
  ASSUME UipInv, ConnectReturn
  PROVE  UipInv'
<1>0. /\ conn \in ConnType /\ u \in UType /\ Fits(u) /\ user \in UserType /\ written \in [Peers -> Nat]
      /\ Held(conn, u, user.data) /\ Open(conn)
      /\ UNCHANGED <<u, peer, toUip, toPeer, written>>
  BY InvParts, Zenon DEF ConnectReturn
<1>1. ~user.data /\ conn.st # "LAST_ACK" /\ user.pc = "connecting"
  BY InvParts DEF Waits, ConnectReturn
<1>2. conn.app \in BOOLEAN
  BY <1>0, ConnFields
<1>3. CASE user' = [user EXCEPT !.pc = "idle", !.data = conn.app] /\ conn' = conn
  <2>1. user' \in UserType /\ user'.data = conn.app /\ user'.pc = "idle"
    BY <1>0, <1>2, <1>3, Zenon DEF UserType
  <2>2. Held(conn', u', user'.data)
    BY <1>0, <1>1, <1>3 DEF Held
  <2>3. Waits'
    BY <2>1 DEF Waits
  <2>4. u' \in UType /\ Fits(u') /\ written' \in [Peers -> Nat]
    BY <1>0
  <2> QED BY <1>0, <1>3, <2>1, <2>2, <2>3, <2>4, SketchKeeps
<1>4. CASE user' = [user EXCEPT !.pc = "idle"]
           /\ (conn' = conn \/ (conn.st # "ESTABLISHED" /\ conn' = [conn EXCEPT !.st = "CLOSED", !.stopped = FALSE]))
  <2>1. user' \in UserType /\ user'.data = user.data /\ user'.pc = "idle"
    BY <1>0, <1>4 DEF UserType
  <2>2. conn' \in ConnType /\ conn'.app = conn.app /\ Open(conn')
    <3>1. CASE conn' = conn
      BY <1>0, <3>1, Zenon
    <3>2. CASE conn.st # "ESTABLISHED" /\ conn' = [conn EXCEPT !.st = "CLOSED", !.stopped = FALSE]
      <4>1. ~conn.app
        BY <1>0, <1>1, <3>2 DEF Open
      <4>2. conn' \in ConnType /\ conn'.app = conn.app /\ ~conn'.stopped
        BY <1>0, <3>2, Zenon DEF ConnType, States
      <4> QED BY <4>1, <4>2, Zenon DEF Open
    <3> QED BY <1>4, <3>1, <3>2, Zenon
  <2>3. Held(conn', u', user'.data)
    BY <1>0, <2>1, <2>2 DEF Held
  <2>4. Waits'
    BY <2>1 DEF Waits
  <2>5. u' \in UType /\ Fits(u') /\ written' \in [Peers -> Nat]
    BY <1>0
  <2> QED BY <1>0, <2>1, <2>2, <2>3, <2>4, <2>5, SketchKeeps
<1> QED BY <1>3, <1>4 DEF ConnectReturn

LEMMA WriteKeeps ==
  ASSUME UipInv, write
  PROVE  UipInv'
<1>1. PICK n \in 1 .. MaxOut :
        /\ user.pc = "idle" /\ conn.peer # NoPeer
        /\ user' = [user EXCEPT !.pc = "writing", !.todo = n]
        /\ UNCHANGED <<conn, u, peer, toUip, toPeer, written>>
  BY Zenon DEF write
<1>2. user' \in UserType /\ user'.data = user.data /\ user'.pc = "writing"
  <2>1. n \in 0 .. MaxOut /\ user \in UserType
    BY InvParts, Constants
  <2> QED BY <1>1, <2>1, Zenon DEF UserType
<1>3. conn.peer \in Peers
  BY <1>1, InvParts, ConnFields, Zenon
<1>4. Waits'
  BY <1>1, <1>2, <1>3 DEF Waits
<1>5. /\ conn' \in ConnType /\ u' \in UType /\ Fits(u') /\ written' \in [Peers -> Nat] /\ Open(conn')
      /\ Held(conn', u', user'.data)
  BY <1>1, <1>2, InvParts
<1> QED BY <1>1, <1>2, <1>4, <1>5, SketchKeeps

LEMMA WriteFailKeeps ==
  ASSUME UipInv, WriteFail
  PROVE  UipInv'
<1>1. /\ u' = [u EXCEPT !.hold = FALSE] /\ user' = [user EXCEPT !.pc = "idle", !.todo = 0]
      /\ UNCHANGED <<conn, peer, toUip, toPeer, written>>
  BY Zenon DEF WriteFail
<1>2. user' \in UserType /\ user'.data = user.data /\ user'.pc = "idle"
  <2>1. 0 \in 0 .. MaxOut /\ user \in UserType
    BY InvParts, Constants
  <2> QED BY <1>1, <2>1, Zenon DEF UserType
<1>3. u' \in UType /\ Fits(u') /\ u'.state = u.state /\ u'.packets_in = u.packets_in
  BY <1>1, InvParts, Zenon DEF UType, Fits
<1>4. Waits'
  BY <1>2 DEF Waits
<1>5. conn' \in ConnType /\ written' \in [Peers -> Nat] /\ Open(conn')
  BY <1>1, InvParts
<1>6. Held(conn', u', user'.data)
  BY <1>1, <1>2, <1>3, InvParts DEF Held
<1> QED BY <1>1, <1>2, <1>3, <1>4, <1>5, <1>6, SketchKeeps

LEMMA FlushKeeps ==
  ASSUME UipInv, flush
  PROVE  UipInv'
<1>1. /\ user.pc = "idle" /\ Usable /\ u' = [u EXCEPT !.packets_in = FALSE, !.dataCnt = 0]
      /\ UNCHANGED <<conn, user, peer, toUip, toPeer, written>>
  BY Zenon DEF flush
<1>2. u' \in UType /\ Fits(u') /\ u'.state = u.state
  <2>1. 0 \in 0 .. BufSize /\ u.in_pos \in 0 .. BufSize /\ u \in UType
    BY InvParts, UFields, Constants
  <2>2. u' \in UType /\ u'.state = u.state /\ u'.dataCnt = 0 /\ u'.in_pos = u.in_pos
    BY <1>1, <2>1, Zenon DEF UType
  <2> QED BY <2>1, <2>2, Constants DEF Fits
<1>3. Held(conn', u', user'.data)
  BY <1>1, <1>2, InvParts DEF Held, Usable
<1>4. Waits'
  BY <1>1, InvParts DEF Waits
<1>5. conn' \in ConnType /\ written' \in [Peers -> Nat] /\ Open(conn') /\ user' \in UserType
  BY <1>1, InvParts
<1> QED BY <1>1, <1>2, <1>3, <1>4, <1>5, SketchKeeps

LEMMA WriteChunkKeeps ==
  ASSUME UipInv, WriteChunk
  PROVE  UipInv'
<1> DEFINE n == Smaller(user.todo, BufSize)
           p == conn.peer
           d == [i \in 1 .. BufSize |->
                    IF i \in u.out_pos + 1 .. u.out_pos + n
                    THEN <<"out", p, written[p] + i - u.out_pos>> ELSE u.myData[i]]
           v == [[u EXCEPT !.packets_out = TRUE] EXCEPT !.out_pos = u.out_pos + n]
<1>0. /\ conn \in ConnType /\ u \in UType /\ Fits(u) /\ user \in UserType /\ written \in [Peers -> Nat]
      /\ Held(conn, u, user.data) /\ Open(conn)
      /\ UNCHANGED <<conn, peer, toUip, toPeer>>
  BY InvParts, Zenon DEF WriteChunk
<1>1. user.todo \in 0 .. MaxOut /\ user.todo \in Nat /\ MaxOut \in Nat
  BY <1>0, Constants DEF UserType
<1>2. n \in Nat /\ n <= user.todo /\ n <= BufSize
  BY <1>1, Constants, SmallerFits, Zenon
<1>3. HasRoom /\ user.pc = "writing"
  BY DEF WriteChunk
<1>4. p \in Peers
  BY <1>3, InvParts DEF Waits
<1>5. u.out_pos + n \in 0 .. BufSize
  <2>1. u.out_pos \in 0 .. BufSize
    BY <1>0, UFields
  <2> QED BY <1>2, <1>3, <2>1, Constants DEF HasRoom
<1>6. d \in [1 .. BufSize -> Unit]
  <2>1. u.myData \in [1 .. BufSize -> Unit] /\ u.out_pos \in Int
    BY <1>0, UFields
  <2>2. written[p] \in Nat /\ p \in Int
    BY <1>0, <1>4, Constants DEF Peers
  <2>3. ASSUME NEW i \in 1 .. BufSize PROVE d[i] \in Unit
    <3>1. <<"out", p, written[p] + i - u.out_pos>> \in Unit
      BY <2>1, <2>2 DEF Unit
    <3>2. u.myData[i] \in Unit
      BY <2>1, Zenon
    <3> QED BY <3>1, <3>2
  <2> QED BY <2>3
<1>7. u' = [v EXCEPT !.myData = d]
  BY <1>0 DEF WriteChunk, UType
<1>8. user' = [user EXCEPT !.todo = user.todo - n, !.pc = IF user.todo = n THEN "idle" ELSE "writing"]
  BY DEF WriteChunk
<1>9. written' = [written EXCEPT ![p] = @ + n]
  BY DEF WriteChunk
<1> HIDE DEF n, d
<1>10. v \in UType /\ v.state = u.state /\ v.packets_in = u.packets_in /\ v.in_pos = u.in_pos /\ v.dataCnt = u.dataCnt
  BY <1>0, <1>5, Zenon DEF UType
<1> HIDE DEF v
<1>11. u' \in UType /\ u'.state = u.state /\ u'.packets_in = u.packets_in /\ u'.in_pos = u.in_pos /\ u'.dataCnt = u.dataCnt
  BY <1>6, <1>7, <1>10 DEF UType
<1>12. Fits(u')
  BY <1>0, <1>11, Zenon DEF Fits
<1>13. user' \in UserType /\ user'.data = user.data /\ user'.pc # "connecting"
  <2>1. user.todo - n \in 0 .. MaxOut
    BY <1>1, <1>2
  <2> QED BY <1>0, <1>8, <2>1, Zenon DEF UserType
<1>14. written' \in [Peers -> Nat]
  BY <1>0, <1>2, <1>4, <1>9
<1>15. Waits'
  BY <1>0, <1>4, <1>13 DEF Waits
<1>16. conn' \in ConnType /\ Open(conn')
  BY <1>0
<1>17. Held(conn', u', user'.data)
  BY <1>0, <1>11, <1>13 DEF Held
<1> QED BY <1>0, <1>11, <1>12, <1>13, <1>14, <1>15, <1>16, <1>17, SketchKeeps

\* What read() leaves behind when nothing is left to read.
LEMMA ReadAllFacts ==
  ASSUME NEW w \in UType, w.dataCnt = 0, conn \in ConnType, Open(conn), Held(conn, w, TRUE)
  PROVE  /\ ReadAll(w) \in UType /\ Fits(ReadAll(w))
         /\ "REMOTECLOSED" \in w.state => Held(conn, ReadAll(w), FALSE)
         /\ "REMOTECLOSED" \notin w.state => Held(conn, ReadAll(w), TRUE)
<1> DEFINE x == [w EXCEPT !.packets_in = FALSE, !.in_pos = 0]
           f == IF conn.stopped /\ ~Ended(x) THEN w.state \cup {"RESTART"} ELSE w.state
           e == IF "REMOTECLOSED" \in f THEN {} ELSE f
           v == [x EXCEPT !.state = e]
<1>1. x \in UType /\ Fits(x) /\ x.state = w.state
  <2>1. 0 \in 0 .. BufSize
    BY Constants
  <2>2. x \in UType /\ x.state = w.state /\ x.in_pos = 0 /\ x.dataCnt = 0
    BY <2>1, Zenon DEF UType
  <2> HIDE DEF x
  <2> QED BY <2>2, Constants DEF Fits
<1>2. f \in SUBSET UFlags /\ e \in SUBSET UFlags
  BY UFields DEF UFlags
<1>3. ReadAll(w) = v
  <2> DEFINE y == IF conn.stopped /\ ~Ended(x) THEN [x EXCEPT !.state = @ \cup {"RESTART"}] ELSE x
  <2>1. ReadAll(w) = IF "REMOTECLOSED" \in y.state THEN [y EXCEPT !.state = {}] ELSE y
    BY DEF ReadAll
  <2> HIDE DEF x
  <2>2. y = [x EXCEPT !.state = f] /\ y.state = f
    BY <1>1, Zenon DEF UType
  <2> HIDE DEF f
  <2>3. [y EXCEPT !.state = {}] = [x EXCEPT !.state = {}]
    BY <2>2, <1>1, Zenon DEF UType
  <2> QED BY <2>1, <2>2, <2>3, Zenon
<1>4. "REMOTECLOSED" \in w.state => e = {} /\ ~conn.app
  BY DEF Held
<1>5. "REMOTECLOSED" \notin w.state =>
        /\ conn.app => "CONNECTED" \in e /\ "REMOTECLOSED" \notin e
        /\ e # {} => conn.app
  BY DEF Held, Open
<1> HIDE DEF e
<1>6. v \in UType /\ Fits(v) /\ v.state = e
  <2> HIDE DEF x
  <2> QED BY <1>1, <1>2, SetState, Zenon
<1> HIDE DEF v
<1>7. "REMOTECLOSED" \in w.state => Held(conn, v, FALSE)
  BY <1>4, <1>6 DEF Held
<1>8. "REMOTECLOSED" \notin w.state => Held(conn, v, TRUE)
  BY <1>5, <1>6 DEF Held
<1> QED BY <1>3, <1>6, <1>7, <1>8, Zenon

LEMMA ReadKeeps ==
  ASSUME UipInv, read
  PROVE  UipInv'
<1>0. /\ conn \in ConnType /\ u \in UType /\ Fits(u) /\ user \in UserType /\ written \in [Peers -> Nat]
      /\ Held(conn, u, user.data) /\ Open(conn)
  BY InvParts
<1>1. PICK k \in 1 .. BufSize :
        LET w == [u EXCEPT !.dataCnt = @ - k, !.in_pos = @ + k]
        IN  /\ user.pc = "idle" /\ k <= Available
            /\ u' = IF w.dataCnt = 0 THEN ReadAll(w) ELSE w
            /\ user' = [user EXCEPT !.data = ~(w.dataCnt = 0 /\ "REMOTECLOSED" \in u.state)]
            /\ UNCHANGED <<conn, peer, toUip, toPeer, written>>
  BY Zenon DEF read
<1> DEFINE w == [u EXCEPT !.dataCnt = @ - k, !.in_pos = @ + k]
<1>2. /\ u.in_pos \in 0 .. BufSize /\ u.dataCnt \in 0 .. BufSize /\ u.in_pos + u.dataCnt <= BufSize
      /\ user.data \in BOOLEAN
  BY <1>0, UFields DEF Fits, UserType
<1>3. k <= u.dataCnt /\ user.data
  BY <1>1, <1>2 DEF Available, _available, Usable
<1>4. u.dataCnt - k \in 0 .. BufSize /\ u.in_pos + k \in 0 .. BufSize
  BY <1>2, <1>3, Constants
<1>5. /\ w \in UType /\ w.state = u.state /\ w.packets_in = u.packets_in
      /\ w.dataCnt = u.dataCnt - k /\ w.in_pos = u.in_pos + k
  BY <1>0, <1>4, Zenon DEF UType
<1>6. u' = (IF w.dataCnt = 0 THEN ReadAll(w) ELSE w)
      /\ user' = [user EXCEPT !.data = ~(w.dataCnt = 0 /\ "REMOTECLOSED" \in u.state)]
      /\ UNCHANGED <<conn, peer, toUip, toPeer, written>> /\ user.pc = "idle"
  BY <1>1, Zenon
<1> HIDE DEF w
<1>7. Fits(w)
  BY <1>2, <1>5 DEF Fits
<1>8. Held(conn, w, TRUE)
  BY <1>0, <1>3, <1>5 DEF Held
<1>9. user' \in UserType /\ user'.pc = "idle" /\ user'.data = ~(w.dataCnt = 0 /\ "REMOTECLOSED" \in u.state)
  BY <1>0, <1>6, Zenon DEF UserType
<1>10. u' \in UType /\ Fits(u') /\ Held(conn, u', user'.data)
  <2>1. CASE w.dataCnt = 0 /\ "REMOTECLOSED" \in w.state
    <3>1. u' = ReadAll(w) /\ user'.data = FALSE
      BY <1>5, <1>6, <1>9, <2>1, Zenon
    <3> QED BY <1>0, <1>5, <1>8, <2>1, <3>1, ReadAllFacts, Zenon
  <2>2. CASE w.dataCnt = 0 /\ "REMOTECLOSED" \notin w.state
    <3>1. u' = ReadAll(w) /\ user'.data = TRUE
      BY <1>5, <1>6, <1>9, <2>2, Zenon
    <3> QED BY <1>0, <1>5, <1>8, <2>2, <3>1, ReadAllFacts, Zenon
  <2>3. CASE w.dataCnt # 0
    <3>1. u' = w /\ user'.data = TRUE
      BY <1>6, <1>9, <2>3, Zenon
    <3> QED BY <1>5, <1>7, <1>8, <3>1, Zenon
  <2> QED BY <2>1, <2>2, <2>3, Zenon
<1>11. Waits'
  BY <1>9 DEF Waits
<1>12. conn' \in ConnType /\ Open(conn') /\ written' \in [Peers -> Nat] /\ Held(conn', u', user'.data)
  BY <1>0, <1>6, <1>10
<1> QED BY <1>6, <1>9, <1>10, <1>11, <1>12, SketchKeeps

LEMMA PeerFields ==
  ASSUME UipInv, NEW p \in Peers
  PROVE  /\ peer \in [Peers -> PeerType] /\ peer[p] \in PeerType
         /\ peer[p].sent \in Nat /\ peer[p].una \in Int /\ peer[p].rcv \in Int
BY InvParts DEF PeerType

\* A step of a peer: our side stays, and both nets and the peers keep their types.
PeerMoved == 
  /\ UNCHANGED <<conn, u, user, written>>
  /\ peer' \in [Peers -> PeerType] /\ toUip' \subseteq InType /\ toPeer' \subseteq OutType

LEMMA PeerKeeps ==
  ASSUME UipInv, PeerMoved
  PROVE  UipInv'
<1>1. UipTypeOK'
  BY DEF PeerMoved, UipInv, UipTypeOK, Fits
<1>2. Held(conn', u', user'.data) /\ Open(conn')
  BY DEF PeerMoved, UipInv
<1>3. Waits'
  BY DEF PeerMoved, UipInv, Waits
<1> QED BY <1>1, <1>2, <1>3, Zenon DEF UipInv

LEMMA SegmentTyped ==
  ASSUME UipInv, NEW p \in Peers, NEW f \in SUBSET TcpFlags, NEW s \in Int, NEW d \in Data, NEW w \in Nat
  PROVE  Segment(p, f, s, d, w) \in InType
BY PeerFields DEF Segment, InType

LEMMA EmptyData == << >> \in Data
BY DEF Data

LEMMA UnitsTyped ==
  ASSUME NEW p \in Peers, NEW a \in Int, NEW b \in Int, b - a + 1 \in Nat
  PROVE  InUnits(p, a, b) \in Data
<1>1. p \in Int
  BY Constants DEF Peers
<1>2. \A i \in 1 .. b - a + 1 : <<"in", p, a + i - 1>> \in Unit
  BY <1>1 DEF Unit
<1>3. InUnits(p, a, b) \in [1 .. b - a + 1 -> Unit]
  BY <1>2 DEF InUnits
<1> QED BY <1>3 DEF Data

\* What a peer sends, while it moves to the state s.
LEMMA SendsKeep ==
  ASSUME UipInv, NEW p \in Peers, NEW s \in PeerType, peer' = [peer EXCEPT ![p] = s],
         NEW g \in InType, PeerSends(g)
  PROVE  UipInv'
<1>1. peer' \in [Peers -> PeerType]
  BY PeerFields
<1>2. toUip' \subseteq InType
  BY InvParts, SentTyped, Zenon DEF PeerSends
<1>3. UNCHANGED <<conn, u, user, toPeer, written>>
  BY DEF PeerSends
<1> QED BY <1>1, <1>2, <1>3, InvParts, PeerKeeps DEF PeerMoved

LEMMA PeerConnectKeeps ==
  ASSUME UipInv, NEW p \in Peers, PeerConnect(p)
  PROVE  UipInv'
<1> DEFINE s == [peer[p] EXCEPT !.st = "SYN_SENT"]
           g == Segment(p, {"SYN"}, 0, << >>, BufSize)
<1>1. s \in PeerType
  BY PeerFields DEF PeerType
<1>2. peer' = [peer EXCEPT ![p] = s] /\ PeerSends(g)
  BY DEF PeerConnect
<1>3. {"SYN"} \in SUBSET TcpFlags
  BY DEF TcpFlags
<1>4. g \in InType
  BY <1>3, EmptyData, Constants, SegmentTyped
<1> HIDE DEF s, g
<1> QED BY <1>1, <1>2, <1>4, SendsKeep, Zenon

LEMMA PeerFinKeeps ==
  ASSUME UipInv, NEW p \in Peers, PeerFin(p)
  PROVE  UipInv'
<1>0. PICK w \in Windows :
        /\ peer' = [peer EXCEPT ![p].fin = TRUE]
        /\ PeerSends(Segment(p, {"ACK", "FIN"}, peer[p].sent + 1, << >>, w))
  BY Zenon DEF PeerFin
<1> DEFINE s == [peer[p] EXCEPT !.fin = TRUE]
           g == Segment(p, {"ACK", "FIN"}, peer[p].sent + 1, << >>, w)
<1>1. s \in PeerType
  BY PeerFields, Zenon DEF PeerType
<1>2. peer' = [peer EXCEPT ![p] = s] /\ PeerSends(g)
  BY <1>0
<1>3. {"ACK", "FIN"} \in SUBSET TcpFlags /\ w \in Nat /\ peer[p].sent + 1 \in Int
  BY Constants, PeerFields DEF TcpFlags
<1>4. g \in InType
  BY <1>3, EmptyData, SegmentTyped, Zenon
<1> HIDE DEF s, g
<1> QED BY <1>1, <1>2, <1>4, SendsKeep, Zenon

LEMMA PeerResetKeeps ==
  ASSUME UipInv, NEW p \in Peers, PeerReset(p)
  PROVE  UipInv'
<1> DEFINE s == [peer[p] EXCEPT !.st = "CLOSED"]
           g == Segment(p, {"RST", "ACK"}, peer[p].sent + 1, << >>, 0)
<1>1. s \in PeerType
  BY PeerFields DEF PeerType
<1>2. peer' = [peer EXCEPT ![p] = s] /\ PeerSends(g)
  BY DEF PeerReset
<1>3. {"RST", "ACK"} \in SUBSET TcpFlags /\ peer[p].sent + 1 \in Int /\ 0 \in Nat
  BY PeerFields DEF TcpFlags
<1>4. g \in InType
  BY <1>3, EmptyData, SegmentTyped, Zenon
<1> HIDE DEF s, g
<1> QED BY <1>1, <1>2, <1>4, SendsKeep, Zenon

LEMMA PeerDataKeeps ==
  ASSUME UipInv, NEW p \in Peers, PeerData(p)
  PROVE  UipInv'
<1>0. PICK w \in Windows, k \in 1 .. BufSize :
        /\ peer' = [peer EXCEPT ![p].sent = @ + k]
        /\ PeerSends(Segment(p, {"ACK", "PSH"}, peer[p].sent + 1,
                             InUnits(p, peer[p].sent + 1, peer[p].sent + k), w))
  BY Zenon DEF PeerData
<1> DEFINE d == InUnits(p, peer[p].sent + 1, peer[p].sent + k)
           s == [peer[p] EXCEPT !.sent = peer[p].sent + k]
           g == Segment(p, {"ACK", "PSH"}, peer[p].sent + 1, d, w)
<1>1. k \in Nat /\ w \in Nat /\ peer[p].sent + 1 \in Int /\ peer[p].sent + k \in Nat
      /\ (peer[p].sent + k) - (peer[p].sent + 1) + 1 \in Nat
  BY Constants, PeerFields
<1>2. s \in PeerType
  BY <1>1, PeerFields DEF PeerType
<1>3. peer' = [peer EXCEPT ![p] = s] /\ PeerSends(g)
  BY <1>0
<1>4. {"ACK", "PSH"} \in SUBSET TcpFlags
  BY DEF TcpFlags
<1>5. d \in Data
  BY <1>1, UnitsTyped
<1> HIDE DEF d
<1>6. g \in InType
  BY <1>1, <1>4, <1>5, SegmentTyped, Zenon
<1> HIDE DEF s, g
<1> QED BY <1>2, <1>3, <1>6, SendsKeep, Zenon

LEMMA PeerRepeatKeeps ==
  ASSUME UipInv, NEW p \in Peers, PeerRepeat(p)
  PROVE  UipInv'
<1> DEFINE fin(k) == IF /\ peer[p].fin /\ peer[p].una + k - 1 = peer[p].sent
                        /\ peer[p].una <= peer[p].sent + 1 THEN {"FIN"} ELSE {}
<1>1. PICK w \in Windows, k \in 0 .. MaxIn :
        /\ UNCHANGED peer
        /\ \/ PeerSends(Segment(p, {"SYN"}, 0, << >>, w))
           \/ PeerSends(Segment(p, {"SYN", "ACK"}, 0, << >>, w))
           \/ PeerSends(Segment(p, {"ACK"} \cup fin(k), peer[p].una,
                                InUnits(p, peer[p].una, peer[p].una + k - 1), w))
  BY Zenon DEF PeerRepeat
<1>2. /\ w \in Nat /\ k \in Nat /\ peer[p].una \in Int /\ peer[p].una + k - 1 \in Int
      /\ (peer[p].una + k - 1) - peer[p].una + 1 \in Nat /\ 0 \in Int
  BY Constants, PeerFields
<1>3. {"SYN"} \in SUBSET TcpFlags /\ {"SYN", "ACK"} \in SUBSET TcpFlags /\ {"ACK"} \cup fin(k) \in SUBSET TcpFlags
  BY DEF TcpFlags
<1> HIDE DEF fin
<1>4. InUnits(p, peer[p].una, peer[p].una + k - 1) \in Data
  BY <1>2, UnitsTyped
<1>5. \E g \in InType : PeerSends(g)
  BY <1>1, <1>2, <1>3, <1>4, EmptyData, SegmentTyped, Zenon
<1>6. peer' = [peer EXCEPT ![p] = peer[p]] /\ peer[p] \in PeerType
  BY <1>1, PeerFields
<1> QED BY <1>5, <1>6, SendsKeep, Zenon

LEMMA TakesTyped ==
  ASSUME NEW s \in PeerType, NEW g \in OutType
  PROVE  PeerTakes(s, g) \in PeerType
<1> DEFINE off  == s.rcv - g.seq
           more == IF off \in 0 .. Len(g.data) - 1 THEN SubSeq(g.data, off + 1, Len(g.data)) ELSE << >>
           fin  == IF "FIN" \in g.flags /\ g.seq + Len(g.data) = s.rcv + Len(more) THEN 1 ELSE 0
           una  == IF g.ack > s.una THEN g.ack ELSE s.una
           t    == [[s EXCEPT !.rcv = s.rcv + Len(more) + fin] EXCEPT !.got = s.got \o more]
<1>1. /\ s.rcv \in Int /\ s.una \in Int /\ s.got \in Data
      /\ g.seq \in Int /\ g.ack \in Int /\ g.data \in Data /\ g.open \in BOOLEAN
  BY DEF PeerType, OutType
<1>2. more \in Data
  <2>1. CASE off \in 0 .. Len(g.data) - 1
    <3>1. Len(g.data) \in Nat /\ off + 1 \in Int
      BY <1>1 DEF Data
    <3>2. \A i \in off + 1 .. Len(g.data) : g.data[i] \in Unit
      BY <1>1, <2>1 DEF Data
    <3>3. SubSeq(g.data, off + 1, Len(g.data)) \in Seq(Unit)
      BY <3>1, <3>2, SubSeqProperties
    <3> QED BY <2>1, <3>3 DEF Data
  <2>2. CASE off \notin 0 .. Len(g.data) - 1
    BY <2>2, EmptyData
  <2> QED BY <2>1, <2>2, Zenon
<1>3. PeerTakes(s, g) = [[t EXCEPT !.una = una] EXCEPT !.open = g.open]
  <2> HIDE DEF more
  <2> QED BY Zenon DEF PeerTakes, PeerType, more
<1> HIDE DEF more
<1>4. Len(more) \in Nat /\ s.got \o more \in Data
  BY <1>1, <1>2 DEF Data
<1>5. s.rcv + Len(more) + fin \in Int /\ una \in Int
  BY <1>1, <1>4
<1> HIDE DEF fin, una
<1>6. t \in PeerType
  BY <1>4, <1>5, Zenon DEF PeerType
<1> HIDE DEF t
<1>7. [[t EXCEPT !.una = una] EXCEPT !.open = g.open] \in PeerType
  BY <1>1, <1>5, <1>6, Zenon DEF PeerType
<1> QED BY <1>3, <1>7, Zenon

LEMMA AnswerTyped ==
  ASSUME UipInv, NEW p \in Peers, NEW f \in SUBSET TcpFlags, NEW a \in Int, NEW b \in Int
  PROVE  [Segment(p, f, a, << >>, BufSize) EXCEPT !.ack = b] \in InType
<1> DEFINE g == Segment(p, f, a, << >>, BufSize)
<1>1. g \in InType
  BY Constants, EmptyData, SegmentTyped
<1> HIDE DEF g
<1>2. [g EXCEPT !.ack = b] \in InType
  BY <1>1 DEF InType
<1> QED BY <1>2 DEF g

LEMMA PeerInputKeeps ==
  ASSUME UipInv, NEW p \in Peers, PeerInput(p)
  PROVE  UipInv'
<1> DEFINE s == peer[p]
           to(x) == peer' = [peer EXCEPT ![p] = x] /\ UNCHANGED toUip
           reply(g, f, a) == [Segment(p, f, a, << >>, BufSize) EXCEPT !.ack = g.seq + 1]
           answer(g, f, a) == toUip' \in Sent(toUip, reply(g, f, a), ToUipCap)
           taken(g) == [[s EXCEPT !.st = "SYN_RCVD"] EXCEPT !.rcv = g.seq + 1]
           open(g) == [[[s EXCEPT !.st = "ESTABLISHED"] EXCEPT !.rcv = g.seq + 1] EXCEPT !.una = 1]
<1>1. PICK g \in toPeer :
        /\ toPeer' \in Taken(toPeer, g)
        /\ UNCHANGED <<conn, u, user, written>>
        /\ \/ to(IF g.seq = s.rcv \/ s.st = "SYN_SENT" THEN [s EXCEPT !.st = "CLOSED"] ELSE s)
           \/ peer' = [peer EXCEPT ![p] = taken(g)] /\ answer(g, {"SYN", "ACK"}, 0)
           \/ to(open(g))
           \/ to(PeerTakes([s EXCEPT !.st = "ESTABLISHED"], g))
           \/ to(PeerTakes(s, g))
           \/ UNCHANGED peer /\ answer(g, {"RST", "ACK"}, g.ack)
           \/ UNCHANGED <<peer, toUip>>
  BY Zenon DEF PeerInput
<1>2. /\ g \in OutType /\ g.seq + 1 \in Int /\ g.ack \in Int
      /\ s \in PeerType /\ peer \in [Peers -> PeerType]
  BY InvParts, PeerFields DEF OutType
<1>3. toPeer' \subseteq OutType
  BY <1>1, InvParts, TakenTyped, Zenon
<1>4. /\ [s EXCEPT !.st = "CLOSED"] \in PeerType /\ [s EXCEPT !.st = "ESTABLISHED"] \in PeerType
      /\ taken(g) \in PeerType /\ open(g) \in PeerType
  <2> HIDE DEF s
  <2>1. /\ [s EXCEPT !.st = "CLOSED"] \in PeerType /\ [s EXCEPT !.st = "ESTABLISHED"] \in PeerType
        /\ [s EXCEPT !.st = "SYN_RCVD"] \in PeerType
    BY <1>2 DEF PeerType
  <2>2. \A t \in PeerType : [t EXCEPT !.rcv = g.seq + 1] \in PeerType
    BY <1>2 DEF PeerType
  <2>3. \A t \in PeerType : [t EXCEPT !.una = 1] \in PeerType
    BY DEF PeerType
  <2> QED BY <2>1, <2>2, <2>3, Zenon
<1>5. PeerTakes([s EXCEPT !.st = "ESTABLISHED"], g) \in PeerType /\ PeerTakes(s, g) \in PeerType
  BY <1>2, <1>4, TakesTyped, Zenon
<1>6. reply(g, {"SYN", "ACK"}, 0) \in InType /\ reply(g, {"RST", "ACK"}, g.ack) \in InType
  <2>1. {"SYN", "ACK"} \in SUBSET TcpFlags /\ {"RST", "ACK"} \in SUBSET TcpFlags /\ 0 \in Int
    BY DEF TcpFlags
  <2> QED BY <1>2, <2>1, AnswerTyped, Zenon
<1> HIDE DEF taken, open, reply
<1>7. ASSUME NEW r \in InType, toUip' \in Sent(toUip, r, ToUipCap) PROVE toUip' \subseteq InType
  BY <1>7, InvParts, SentTyped, Zenon
<1>8. toUip' \subseteq InType
  <2>1. \/ toUip' = toUip
        \/ toUip' \in Sent(toUip, reply(g, {"SYN", "ACK"}, 0), ToUipCap)
        \/ toUip' \in Sent(toUip, reply(g, {"RST", "ACK"}, g.ack), ToUipCap)
    BY <1>1, Zenon
  <2>2. toUip' = toUip => toUip' \subseteq InType
    BY InvParts
  <2> QED BY <1>6, <1>7, <2>1, <2>2, Zenon
<1>9. ASSUME NEW x \in PeerType, peer' = [peer EXCEPT ![p] = x] PROVE peer' \in [Peers -> PeerType]
  BY <1>2, <1>9
<1>10. (IF g.seq = s.rcv \/ s.st = "SYN_SENT" THEN [s EXCEPT !.st = "CLOSED"] ELSE s) \in PeerType
  BY <1>2, <1>4, Zenon
<1>11. peer' = peer => peer' \in [Peers -> PeerType]
  BY <1>2
<1> HIDE DEF s
<1>12. peer' \in [Peers -> PeerType]
  BY <1>1, <1>4, <1>5, <1>9, <1>10, <1>11, Zenon
<1>13. PeerMoved
  BY <1>1, <1>3, <1>8, <1>12, Zenon DEF PeerMoved
<1> QED BY <1>13, PeerKeeps, Zenon

-----------------------------------------------------------------------------
LEMMA InitInv == Init => UipInv
<1> SUFFICES ASSUME Init PROVE UipInv
  OBVIOUS
<1>0. /\ 0 \in 0 .. BufSize /\ BufSize \in 0 .. BufSize /\ 0 \in 0 .. BufSize + 1 /\ 0 \in 0 .. MaxRtx
      /\ 0 \in 0 .. MaxOut /\ BufSize \in Nat
  BY Constants
<1>1. conn \in ConnType
  BY <1>0 DEF Init, ConnType, States
<1>2. [i \in 1 .. BufSize |-> Junk] \in [1 .. BufSize -> Unit]
  BY DEF Junk, Unit, NoPeer
<1>3. u \in UType
  BY <1>0, <1>2 DEF Init, UType
<1>4. Fits(u)
  BY <1>0 DEF Init, Fits
<1>5. user \in UserType
  BY <1>0 DEF Init, UserType
<1>6. peer \in [Peers -> PeerType]
  <2>1. << >> \in Data
    BY EmptyData
  <2>2. [st |-> "idle", sent |-> 0, una |-> 0, fin |-> FALSE, rcv |-> 0, got |-> << >>, open |-> TRUE] \in PeerType
    BY <2>1 DEF PeerType
  <2> QED BY <2>2 DEF Init
<1>7. toUip \subseteq InType /\ toPeer \subseteq OutType /\ written \in [Peers -> Nat]
  BY DEF Init
<1>8. Held(conn, u, user.data) /\ Open(conn) /\ Waits
  BY DEF Init, Held, Open, Waits
<1> QED BY <1>1, <1>3, <1>4, <1>5, <1>6, <1>7, <1>8, Zenon DEF UipInv, UipTypeOK, UserType

LEMMA NextKeeps ==
  ASSUME UipInv, [Next]_vars
  PROVE  UipInv'
<1>1. CASE TickInput
  BY <1>1, TickInputKeeps
<1>2. CASE TickPeriodic
  BY <1>2, TickPeriodicKeeps
<1>3. CASE Sketch
  <2>1. ASSUME NEW p \in Peers, connect(p) PROVE UipInv'
    BY <2>1, ConnectKeeps
  <2> QED BY <1>3, <2>1, AvailableKeeps, StopKeeps, ConnectReturnKeeps, WriteKeeps, WriteChunkKeeps,
             WriteFailKeeps, ReadKeeps, FlushKeeps, Zenon DEF Sketch
<1>4. ASSUME NEW p \in Peers, PeerStep(p) PROVE UipInv'
  BY <1>4, PeerConnectKeeps, PeerRepeatKeeps, PeerDataKeeps, PeerFinKeeps, PeerResetKeeps,
     PeerInputKeeps, Zenon DEF PeerStep
<1>5. CASE UNCHANGED vars
  <2>1. UNCHANGED <<conn, u, user, peer, toUip, toPeer, written>>
    BY <1>5 DEF vars
  <2>2. Waits'
    BY <2>1, InvParts DEF Waits
  <2> QED BY <2>1, <2>2, InvParts, SketchKeeps
<1> QED BY <1>1, <1>2, <1>3, <1>4, <1>5, Zenon DEF Next

LEMMA InvHolds == Spec => []UipInv
<1>1. UipInv /\ [Next]_vars => UipInv'
  BY NextKeeps, Zenon
<1> QED BY InitInv, <1>1, PTL DEF Spec

LEMMA InvTypes == UipInv => TypeOK
<1> SUFFICES ASSUME UipInv PROVE TypeOK
  OBVIOUS
<1>1. conn \in ConnType /\ u \in UType /\ Fits(u)
  BY InvParts
<1>2. u.in_pos + u.dataCnt \in 0 .. BufSize
  BY <1>1, UFields, Constants DEF Fits
<1> QED BY <1>1, <1>2, ConnFields, UFields DEF TypeOK, UFlags

LEMMA InvAttaches == UipInv => Attached
BY DEF UipInv, Held, Open, Attached

(* Whatever the network and the timers do, the connection's state, number,
   lengths and counts of retransmissions stay in their ranges, and the two
   cursors into myData stay inside OUTPUT_BUFFER_SIZE. *)
THEOREM UipTypeCorrect == Spec => []TypeOK
<1>1. UipInv => TypeOK
  BY InvTypes
<1> QED BY <1>1, InvHolds, PTL

(* serialip_appcall() and the sketch's calls between them keep connection
   and user data together. *)
THEOREM AttachedHolds == Spec => []Attached
<1>1. UipInv => Attached
  BY InvAttaches
<1> QED BY <1>1, InvHolds, PTL
=============================================================================
