------------------------------- MODULE UipTcp -------------------------------
(***************************************************************************)
(* TCP in the uIP build (USE_LWIP < 1): uip_process() of utility/uip.c,    *)
(* serialip_appcall(), which it calls back, and the calls of RF24Client,   *)
(* over a network that loses, repeats and reorders segments.               *)
(*                                                                         *)
(* There is one uip_conn and one uip_userdata_t (UIP_CONF_MAX_CONNECTIONS  *)
(* is 1).  Data are units; a unit is <<direction, peer, number>>, so that  *)
(* myData, which both directions share, shows whose data it holds.  Every  *)
(* call of the sketch runs tick(), which handles one segment or the        *)
(* connection's timer: in between the steps below are atomic.              *)
(*                                                                         *)
(* Timers (retransmission, TIME_WAIT, the client's time limits and         *)
(* millis()) may run out whenever the code looks at them.  Sequence        *)
(* numbers start at 0 for a peer and, as iss moves on, at another multiple *)
(* of IssStep for every connection of ours; the SYN takes the first one.   *)
(***************************************************************************)
EXTENDS Integers, Sequences, FiniteSets, SequencesExt

CONSTANTS
  NPeers,       \* remote ends, each good for one connection
  MaxIn,        \* units each peer sends at most
  MaxOut,       \* units the sketch writes to a connection at most
  BufSize,      \* OUTPUT_BUFFER_SIZE = UIP_TCP_MSS = the receive window
  Windows,      \* the windows peers advertise
  MaxRtx,       \* UIP_MAXRTX
  MaxSynRtx,    \* UIP_MAXSYNRTX
  MaxOpens,     \* connections the stack opens or accepts at most
  ToUipCap, ToPeerCap, \* segments under way in each direction
  PortHigh, PortLow, \* whether the bytes of the local port are not zero
  Lossy,        \* the network may lose and repeat segments
  Listens,      \* the sketch is a server
  Connects,     \* it connects to peers
  Expires,      \* UIP_CONNECTION_TIMEOUT may run out
  GivesUp,      \* write() may wait longer than its five seconds
  Resets,       \* peers may reset their connection
  TurnTaking,   \* peers and sketch take turns
  Flushes       \* the sketch calls flush()

ASSUME UipAssumption ==
  /\ {NPeers, MaxIn, MaxOut, BufSize, MaxRtx} \subseteq Nat /\ Windows \subseteq Nat
  /\ {PortHigh, PortLow} \subseteq BOOLEAN

VARIABLES
  conn,         \* uip_conns[0]
  u,            \* RF24Client::all_data[0]
  user,         \* the sketch: its RF24Client and the call in progress
  peer,         \* the remote ends
  toUip, toPeer,\* segments under way
  written,      \* history: units written to the connection of each peer
  seen          \* history: units the sketch has read

vars == <<conn, u, user, peer, toUip, toPeer, written, seen>>

Peers == 1 .. NPeers
NoPeer == 0
Junk == <<"junk", NoPeer, 0>>
Smaller(a, b) == IF a < b THEN a ELSE b

IssStep == 100

Handshake == {"SYN_SENT", "SYN_RCVD"}

Init ==
  /\ conn = [st |-> "CLOSED", stopped |-> FALSE, peer |-> NoPeer, server |-> FALSE,
             app |-> FALSE, iss |-> 0, snd |-> 0, len |-> 0, rcv |-> 0, nrtx |-> 0, mss |-> BufSize]
  /\ u = [state |-> {}, hold |-> FALSE, packets_in |-> FALSE, packets_out |-> FALSE,
          windowOpened |-> FALSE, in_pos |-> 0, dataCnt |-> 0, out_pos |-> 0,
          server |-> FALSE, myData |-> [i \in 1 .. BufSize |-> Junk]]
  /\ user = [pc |-> "idle", data |-> FALSE, todo |-> 0]
  /\ peer = [p \in Peers |-> [st |-> "idle", sent |-> 0, una |-> 0, fin |-> FALSE,
                              rcv |-> 0, got |-> << >>, open |-> TRUE]]
  /\ toUip = {} /\ toPeer = {}
  /\ written = [p \in Peers |-> 0] /\ seen = << >>

-----------------------------------------------------------------------------
(* The application: serialip_appcall().  m is what a call of uip_process   *)
(* works on: the connection, the user data, uip_flags, the data that came  *)
(* in (uip_len), uip_slen, and the packet left in uip_buf.                 *)

None == [flags |-> {}]
Machine(f, d) == [conn |-> conn, u |-> u, flags |-> f, data |-> d, slen |-> 0, out |-> None]

_allocateData(m) ==
  IF m.conn.app \/ "CONNECTED" \notin m.flags \/ m.u.state # {} THEN m
  ELSE [m EXCEPT !.conn.app = TRUE,
                 !.u = [m.u EXCEPT !.state = {"CONNECTED"}, !.packets_in = FALSE,
                          !.packets_out = FALSE, !.dataCnt = 0, !.in_pos = 0,
                          !.out_pos = 0, !.hold = FALSE]]

Ended(w) == w.state \cap {"CLOSE", "REMOTECLOSED"} # {}

\* Mutant: out_pos is left, as if the next chunk went behind data in flight.
NothingOut_KeepsPos(w) == [w EXCEPT !.hold = FALSE, !.windowOpened = FALSE, !.packets_out = FALSE]
NothingOut(w) == [w EXCEPT !.hold = FALSE, !.out_pos = 0, !.windowOpened = FALSE,
                           !.packets_out = FALSE]

\* Incoming data go behind the unread ones.  They do not fit: close.
Append_(w, d) ==
  LET pos == w.in_pos + w.dataCnt
  IN  IF pos <= BufSize /\ Len(d) <= BufSize - pos
      THEN [w EXCEPT !.myData = [i \in 1 .. BufSize |->
                       IF i \in pos + 1 .. pos + Len(d) THEN d[i - pos] ELSE w.myData[i]],
                     !.dataCnt = @ + Len(d), !.packets_in = TRUE]
      ELSE [w EXCEPT !.state = @ \cup {"CLOSE"}]

NewData(m) ==
  LET w == NothingOut(m.u)
  IN  IF m.data = << >> \/ Ended(w) THEN [m EXCEPT !.u = w]
      ELSE [m EXCEPT !.conn.stopped = TRUE,
                     !.u = Append_([w EXCEPT !.state = @ \ {"RESTART"}], m.data)]

\* uip_userdata_closed_t keeps the port where uip_userdata_t has packets_out
\* and windowOpened.
Closed(m) ==
  [m EXCEPT !.conn.app = FALSE,
            !.u = IF m.u.packets_in
                  THEN [m.u EXCEPT !.state = @ \cup {"REMOTECLOSED"}, !.server = m.conn.server,
                                   !.packets_out = PortHigh, !.windowOpened = PortLow]
                  ELSE [m.u EXCEPT !.state = {}, !.packets_out = FALSE]]

Acked(m) ==
  IF "ACKDATA" \notin m.flags THEN m
  ELSE [m EXCEPT !.u = [NothingOut(m.u) EXCEPT !.state = @ \ {"RESTART"}]]

uip_send(m, len) == [m EXCEPT !.slen = len]
SendOut(m) == uip_send([m EXCEPT !.u.hold = TRUE], m.u.out_pos)

uip_restart(m) == [m EXCEPT !.flags = @ \cup {"NEWDATA"}, !.conn.stopped = FALSE]

RestartAgain(m, again) ==
  IF again /\ "POLL" \in m.flags /\ ~Ended(m.u) /\ m.u.windowOpened /\ "RESTART" \in m.u.state
  THEN uip_restart(m) ELSE m

CloseWhenSent(m) ==
  IF "CLOSE" \notin m.u.state THEN m
  ELSE IF m.u.packets_out THEN [m EXCEPT !.conn.stopped = TRUE]
  ELSE [m EXCEPT !.u.state = {}, !.conn.app = FALSE, !.flags = {"CLOSE"}]

Finish(m) ==
  IF "RESTART" \in m.u.state /\ ~m.u.windowOpened /\ ~Ended(m.u)
  THEN [uip_restart(m) EXCEPT !.u.windowOpened = TRUE] ELSE m

\* late: connectTimeout has passed; again: restartInterval has.
serialip_appcall(m0, late, again) ==
  LET a == _allocateData(m0)
      m == IF late THEN [a EXCEPT !.u.state = @ \cup {"CLOSE"}] ELSE a
      k == Acked(m)
  IN  IF ~a.conn.app THEN a
      ELSE Finish(
        IF "NEWDATA" \in m.flags THEN NewData(m)
        ELSE IF m.flags \cap {"CLOSE", "TIMEDOUT", "ABORT"} # {} THEN Closed(m)
        ELSE IF "REXMIT" \in m.flags THEN SendOut(m)
        ELSE IF "POLL" \in m.flags /\ m.u.packets_out /\ ~m.u.hold THEN SendOut(m)
        ELSE CloseWhenSent(RestartAgain(k, again)))

-----------------------------------------------------------------------------
(* The stack: uip_process().                                               *)

\* From tcp_send on.
tcp_send(m, f, d) ==
  [m EXCEPT !.out = [peer |-> m.conn.peer, flags |-> f, seq |-> m.conn.snd,
                     ack |-> m.conn.rcv, data |-> d, open |-> ~m.conn.stopped]]

tcp_send_ack(m)    == tcp_send(m, {"ACK"}, << >>)
tcp_send_finack(m) == tcp_send(m, {"FIN", "ACK"}, << >>)

\* tcpstateflags is assigned: the STOPPED bit goes.
Become(m, st) == [m EXCEPT !.conn.st = st, !.conn.stopped = FALSE]

\* len units of uip_buf, of which uip_send has set the first ones.
InBuffer(m) == [i \in 1 .. m.conn.len |->
                  IF i <= m.u.out_pos THEN m.u.myData[i] ELSE Junk]

apprexmit(m) ==
  IF m.slen > 0 /\ m.conn.len > 0 THEN tcp_send(m, {"ACK", "PSH"}, InBuffer(m))
  ELSE IF "NEWDATA" \in m.flags THEN tcp_send_ack(m) ELSE m

\* The application never aborts: no UIP_ABORT here.
appsend(m) ==
  IF "CLOSE" \in m.flags
  THEN tcp_send_finack([Become(m, "FIN_WAIT_1") EXCEPT !.conn.len = 1, !.conn.nrtx = 0])
  ELSE LET len == IF "ACKDATA" \in m.flags THEN 0 ELSE m.conn.len
           new == IF m.slen = 0 THEN m.conn.len
                  ELSE IF len = 0 THEN Smaller(m.slen, m.conn.mss) ELSE len
       IN  apprexmit([m EXCEPT !.conn.len = new, !.conn.nrtx = 0])

\* A retransmission is due, or there have been enough of them.
Rexmit(m, late) ==
  LET c == m.conn
      r == [m EXCEPT !.conn.nrtx = @ + 1]
  IN  IF c.nrtx = MaxRtx \/ (c.st \in Handshake /\ c.nrtx = MaxSynRtx)
      THEN tcp_send(serialip_appcall([Become(m, "CLOSED") EXCEPT !.flags = {"TIMEDOUT"}],
                                     late, FALSE), {"RST", "ACK"}, << >>)
      ELSE CASE c.st = "SYN_RCVD"    -> tcp_send(r, {"SYN", "ACK"}, << >>)
             [] c.st = "SYN_SENT"    -> tcp_send(r, {"SYN"}, << >>)
             [] c.st = "ESTABLISHED" ->
                  apprexmit(serialip_appcall([r EXCEPT !.flags = {"REXMIT"}], late, FALSE))
             [] OTHER -> tcp_send_finack(r)

\* uip_process(UIP_TIMER); due: the connection's timer has run out.
uip_periodic(m, due, late, again) ==
  CASE m.conn.st \in {"TIME_WAIT", "FIN_WAIT_2"} -> IF due THEN Become(m, "CLOSED") ELSE m
    [] m.conn.st \notin {"TIME_WAIT", "FIN_WAIT_2", "CLOSED"} /\ m.conn.len > 0 ->
         IF due THEN Rexmit(m, late) ELSE m
    [] m.conn.st = "ESTABLISHED" /\ m.conn.len = 0 ->
         appsend(serialip_appcall([m EXCEPT !.flags = {"POLL"}], late, again))
    [] OTHER -> m

\* A reset for the segment g.
reset(m, g) ==
  IF "RST" \in g.flags THEN m
  ELSE [m EXCEPT !.out = [peer |-> g.peer, flags |-> {"RST", "ACK"}, seq |-> g.ack,
                          ack |-> g.seq + 1, data |-> << >>, open |-> TRUE]]

\* What uip_connect and found_listen set; the local port is the server's or not.
Opened(c, p, server) ==
  [c EXCEPT !.peer = p, !.server = server, !.iss = @ + IssStep, !.snd = c.iss + IssStep, !.len = 1,
            !.nrtx = 0, !.mss = BufSize]

found_listen(m, g) ==
  IF m.conn.st \notin {"CLOSED", "TIME_WAIT"} THEN m
  ELSE tcp_send([Become(m, "SYN_RCVD") EXCEPT
                   !.conn = Opened(@, g.peer, TRUE), !.conn.rcv = g.seq + 1], {"SYN", "ACK"}, << >>)

\* Mutant: any acknowledgement will do.
Acknowledge_Any(m, g) ==
  IF "ACK" \in g.flags /\ m.conn.len > 0
  THEN [m EXCEPT !.conn.snd = @ + m.conn.len, !.conn.len = 0, !.flags = {"ACKDATA"}] ELSE m

\* The segment acknowledges all that is outstanding, or nothing.
Acknowledge(m, g) ==
  IF "ACK" \in g.flags /\ m.conn.len > 0 /\ g.ack = m.conn.snd + m.conn.len
  THEN [m EXCEPT !.conn.snd = g.ack, !.conn.len = 0, !.flags = {"ACKDATA"}] ELSE m

IsAcked(m) == "ACKDATA" \in m.flags
Receive(m, n) == [m EXCEPT !.conn.rcv = @ + n]
AppSees(m, f, d, late) == serialip_appcall([m EXCEPT !.flags = f, !.data = d], late, FALSE)

InSynRcvd(m, g, late) ==
  IF ~IsAcked(m) THEN m
  ELSE appsend(AppSees(Receive(Become(m, "ESTABLISHED"), Len(g.data)),
                       {"CONNECTED"} \cup (IF g.data = << >> THEN {} ELSE {"NEWDATA"}),
                       g.data, late))

InSynSent(m, g, late) ==
  IF IsAcked(m) /\ g.flags = {"SYN", "ACK"}
  THEN appsend(AppSees([Become(m, "ESTABLISHED") EXCEPT !.conn.rcv = g.seq + 1],
                       {"CONNECTED", "NEWDATA"}, << >>, late))
  ELSE reset(Become(AppSees(m, {"ABORT"}, << >>, late), "CLOSED"), g)

\* The peer's FIN: the application hears of it, and we close as well.
FinWhileOpen(m, g, late) ==
  IF m.conn.len > 0 THEN m
  ELSE LET heard == AppSees(Receive(m, 1 + Len(g.data)),
                            m.flags \cup {"CLOSE"} \cup (IF g.data = << >> THEN {} ELSE {"NEWDATA"}),
                            g.data, late)
       IN  tcp_send_finack([Become(heard, "LAST_ACK") EXCEPT !.conn.len = 1, !.conn.nrtx = 0])

\* No more than the peer has room for; with no room at all, a probe.
Mss(wnd) == IF wnd = 0 THEN BufSize ELSE Smaller(wnd, BufSize)

InEstablished(m, g, late) ==
  LET takes == g.data # << >> /\ ~m.conn.stopped
      n == [Receive(m, IF takes THEN Len(g.data) ELSE 0) EXCEPT !.conn.mss = Mss(g.wnd)]
      f == m.flags \cup (IF takes THEN {"NEWDATA"} ELSE {})
  IN  IF "FIN" \in g.flags /\ ~m.conn.stopped THEN FinWhileOpen(m, g, late)
      ELSE IF f = {} THEN n
      ELSE appsend(AppSees(n, f, g.data, late))

InLastAck(m, g, late) ==
  IF IsAcked(m) THEN AppSees(Become(m, "CLOSED"), {"CLOSE"}, g.data, late) ELSE m
InClosing(m) == IF IsAcked(m) THEN Become(m, "TIME_WAIT") ELSE m

\* Data that come after the application has closed are received, and lost.
InFinWait(m, g, late) ==
  LET n == Receive(m, Len(g.data))
      end == IF m.conn.st = "FIN_WAIT_2" \/ IsAcked(m) THEN "TIME_WAIT" ELSE "CLOSING"
  IN  IF "FIN" \in g.flags
      THEN tcp_send_ack(AppSees(Receive(Become(n, end), 1), {"CLOSE"}, g.data, late))
      ELSE IF IsAcked(m) /\ m.conn.st = "FIN_WAIT_1" THEN Become(n, "FIN_WAIT_2")
      ELSE IF g.data # << >> THEN tcp_send_ack(n) ELSE n

\* Not the next segment; no question for a pure ACK or an answer to a SYN.
Unexpected_Never(c, g) == FALSE
Unexpected(c, g) ==
  /\ ~(c.st = "SYN_SENT" /\ g.flags = {"SYN", "ACK"})
  /\ g.data # << >> \/ g.flags \cap {"SYN", "FIN"} # {}
  /\ g.seq # c.rcv

\* The connection the segment is for.
found(m0, g, late) ==
  LET m == Acknowledge(m0, g)
  IN  IF "RST" \in g.flags THEN AppSees(Become(m0, "CLOSED"), {"ABORT"}, << >>, late)
      ELSE IF Unexpected(m0.conn, g) THEN tcp_send_ack(m0)
      ELSE CASE m.conn.st = "SYN_RCVD"    -> InSynRcvd(m, g, late)
             [] m.conn.st = "SYN_SENT"    -> InSynSent(m, g, late)
             [] m.conn.st = "ESTABLISHED" -> InEstablished(m, g, late)
             [] m.conn.st = "LAST_ACK"    -> InLastAck(m, g, late)
             [] m.conn.st \in {"FIN_WAIT_1", "FIN_WAIT_2"} -> InFinWait(m, g, late)
             [] m.conn.st = "TIME_WAIT"   -> tcp_send_ack(m)
             [] m.conn.st = "CLOSING"     -> InClosing(m)

\* uip_input(): whose segment is it?
uip_input(m, g, late) ==
  IF m.conn.st # "CLOSED" /\ m.conn.peer = g.peer THEN found(m, g, late)
  ELSE IF g.flags = {"SYN"} /\ Listens THEN found_listen(m, g)
  ELSE reset(m, g)

-----------------------------------------------------------------------------
(* The network: sets of segments, so any of them may come next.  A segment *)
(* is lost when it is sent, at the latest when cap others are under way,   *)
(* and repeated when it is taken.                                          *)

Sent(net, g, cap) ==
  IF g = None \/ g \in net THEN {net}
  ELSE (IF Lossy \/ Cardinality(net) >= cap THEN {net} ELSE {})
       \cup (IF Cardinality(net) < cap THEN {net \cup {g}} ELSE {})

Taken(net, g) == {net \ {g}} \cup (IF Lossy THEN {net} ELSE {})

Late == IF Expires THEN BOOLEAN ELSE {FALSE}

Handled(m) == conn' = m.conn /\ u' = m.u /\ toPeer' \in Sent(toPeer, m.out, ToPeerCap)

-----------------------------------------------------------------------------
(* tick().                                                                 *)

\* _write may copy its next chunk, or has nobody to write to any more.
\* Mutant: a chunk is taken although another one waits to be sent.
HasRoom_Unbounded == ~u.hold
HasRoom   == u.out_pos + Smaller(user.todo, BufSize) <= BufSize /\ ~u.hold
CanWrite  == ~Ended(u) /\ "CONNECTED" \in u.state

\* The call in progress looks after every tick: it ends its wait first.
Resumes ==
  \/ user.pc = "connecting" /\ conn.st \in {"ESTABLISHED", "CLOSED"}
  \/ user.pc = "writing" /\ (CanWrite => HasRoom)

TickInput ==
  \E g \in toUip, late \in Late :
    /\ ~Resumes
    /\ toUip' \in Taken(toUip, g)
    /\ Handled(uip_input(Machine({}, << >>), g, late))
    /\ conn'.iss <= MaxOpens * IssStep
    /\ UNCHANGED <<user, peer, written, seen>>

TickPeriodic ==
  \E due, again \in BOOLEAN, late \in Late :
    /\ ~Resumes
    /\ Handled(uip_periodic(Machine({}, << >>), due, late, again))
    /\ UNCHANGED <<user, peer, toUip, written, seen>>

-----------------------------------------------------------------------------
(* The sketch's calls.                                                     *)

\* RF24Client's operator bool.
Usable == user.data /\ ("REMOTECLOSED" \notin u.state \/ u.packets_in)

\* RF24Client's available()
_available == IF u.packets_in THEN u.dataCnt ELSE 0
Available == IF Usable THEN _available ELSE 0

\* server.available()
available ==
  /\ Listens /\ user.pc = "idle" /\ ~user.data
  /\ u.packets_in
  /\ ("CONNECTED" \in u.state /\ conn.server) \/ ("REMOTECLOSED" \in u.state /\ u.server)
  /\ user' = [user EXCEPT !.data = TRUE]
  /\ UNCHANGED <<conn, u, peer, toUip, toPeer, written, seen>>

\* Mutant: the peer's close is not looked at.
StopData_WaitsForClose(w) ==
  IF w.state = {} THEN w
  ELSE [w EXCEPT !.packets_in = FALSE, !.dataCnt = 0, !.state = @ \cup {"CLOSE"}]
StopData(w) ==
  IF w.state = {} THEN w
  ELSE [w EXCEPT !.packets_in = FALSE, !.dataCnt = 0,
                 !.state = IF "REMOTECLOSED" \in @ THEN {} ELSE @ \cup {"CLOSE"}]

stop ==
  /\ user.pc = "idle" /\ user.data
  /\ u' = StopData(u) /\ user' = [user EXCEPT !.data = FALSE]
  /\ UNCHANGED <<conn, peer, toUip, toPeer, written, seen>>

\* connect() up to its wait: it stops the old connection and asks for a new one.
connect(p) ==
  /\ Connects /\ user.pc = "idle"
  /\ conn.st \in {"CLOSED", "TIME_WAIT"} => peer[p].st = "idle"
  /\ u' = IF user.data THEN StopData(u) ELSE u
  /\ IF conn.st \in {"CLOSED", "TIME_WAIT"}
     THEN /\ conn' = [Opened(conn, p, FALSE) EXCEPT !.st = "SYN_SENT", !.stopped = FALSE]
          /\ conn'.iss <= MaxOpens * IssStep
          /\ user' = [user EXCEPT !.data = FALSE, !.pc = "connecting"]
     ELSE user' = [user EXCEPT !.data = FALSE] /\ UNCHANGED conn
  /\ UNCHANGED <<peer, toUip, toPeer, written, seen>>

ConnectReturn ==
  /\ user.pc = "connecting"
  /\ \/ /\ conn.st = "ESTABLISHED"
        /\ user' = [user EXCEPT !.pc = "idle", !.data = conn.app] /\ UNCHANGED conn
     \/ /\ conn.st = "CLOSED"
        /\ user' = [user EXCEPT !.pc = "idle"] /\ UNCHANGED conn
     \/ /\ Expires /\ conn.st # "ESTABLISHED"
        /\ user' = [user EXCEPT !.pc = "idle"]
        /\ conn' = [conn EXCEPT !.st = "CLOSED", !.stopped = FALSE]
  /\ UNCHANGED <<u, peer, toUip, toPeer, written, seen>>

\* The sketch, when it takes turns, has read all the peer sent before it writes.
MyTurn == TurnTaking => Len(seen) = Cardinality({x \in Peers \X (1 .. MaxIn) : x[2] <= peer[x[1]].sent})

\* RF24Server::write(), to every connection of the server's port
ServerWrites == "CONNECTED" \in u.state /\ conn.server

write ==
  \E n \in 1 .. MaxOut :
    /\ user.pc = "idle" /\ MyTurn
    /\ user.data \/ ServerWrites
    /\ conn.peer # NoPeer /\ written[conn.peer] + n <= MaxOut
    /\ user' = [user EXCEPT !.pc = "writing", !.todo = n]
    /\ UNCHANGED <<conn, u, peer, toUip, toPeer, written, seen>>

\* The loop of _write: wait for room, then copy the next chunk.
WriteChunk ==
  LET n == Smaller(user.todo, BufSize)
      p == conn.peer
  IN  /\ user.pc = "writing"
      /\ CanWrite /\ HasRoom
      /\ u' = [u EXCEPT !.packets_out = TRUE, !.out_pos = @ + n,
                 !.myData = [i \in 1 .. BufSize |->
                    IF i \in u.out_pos + 1 .. u.out_pos + n
                    THEN <<"out", p, written[p] + i - u.out_pos>> ELSE @[i]]]
      /\ written' = [written EXCEPT ![p] = @ + n]
      /\ user' = [user EXCEPT !.todo = @ - n, !.pc = IF user.todo = n THEN "idle" ELSE "writing"]
      /\ UNCHANGED <<conn, peer, toUip, toPeer, seen>>

\* The connection has ended, or five seconds have passed.
WriteFail ==
  /\ user.pc = "writing"
  /\ ~CanWrite \/ GivesUp
  /\ u' = [u EXCEPT !.hold = FALSE]
  /\ user' = [user EXCEPT !.pc = "idle", !.todo = 0]
  /\ UNCHANGED <<conn, peer, toUip, toPeer, written, seen>>

\* Mutant: nobody asks for the window to be opened.
ReadAll_NoRestart(w) ==
  LET x == [w EXCEPT !.packets_in = FALSE, !.in_pos = 0]
  IN  IF "REMOTECLOSED" \in x.state THEN [x EXCEPT !.state = {}] ELSE x

\* All is read: the window may open again, or the data are freed.
ReadAll(w) ==
  LET x == [w EXCEPT !.packets_in = FALSE, !.in_pos = 0]
      y == IF conn.stopped /\ ~Ended(x) THEN [x EXCEPT !.state = @ \cup {"RESTART"}] ELSE x
  IN  IF "REMOTECLOSED" \in y.state THEN [y EXCEPT !.state = {}] ELSE y

read ==
  \E k \in 1 .. BufSize :
    LET w == [u EXCEPT !.dataCnt = @ - k, !.in_pos = @ + k]
    IN  /\ user.pc = "idle" /\ k <= Available
        /\ seen' = seen \o SubSeq(u.myData, u.in_pos + 1, u.in_pos + k)
        /\ u' = IF w.dataCnt = 0 THEN ReadAll(w) ELSE w
        /\ user' = [user EXCEPT !.data = ~(w.dataCnt = 0 /\ "REMOTECLOSED" \in u.state)]
        /\ UNCHANGED <<conn, peer, toUip, toPeer, written>>

flush ==
  /\ Flushes /\ user.pc = "idle" /\ Usable
  /\ u' = [u EXCEPT !.packets_in = FALSE, !.dataCnt = 0]
  /\ UNCHANGED <<conn, user, peer, toUip, toPeer, written, seen>>

-----------------------------------------------------------------------------
(* The peers: TCP as it should be.  A peer sends what its window and turn  *)
(* allow, sends again what is not acknowledged, takes what comes next and  *)
(* ignores the rest.                                                       *)

Segment(p, f, s, d, w) ==
  [peer |-> p, flags |-> f, seq |-> s, ack |-> peer[p].rcv, data |-> d, wnd |-> w]

PeerSends(g) == toUip' \in Sent(toUip, g, ToUipCap) /\ UNCHANGED <<conn, u, user, toPeer, written, seen>>

InUnits(p, a, b) == [i \in 1 .. b - a + 1 |-> <<"in", p, a + i - 1>>]

PeerConnect(p) ==
  /\ Listens /\ peer[p].st = "idle"
  /\ peer' = [peer EXCEPT ![p].st = "SYN_SENT"]
  /\ PeerSends(Segment(p, {"SYN"}, 0, << >>, BufSize))

\* What is not acknowledged yet, all of it or just the beginning, or an ACK.
PeerRepeat(p) ==
  \E w \in Windows, k \in 0 .. MaxIn :
    LET s == peer[p]
        last == s.una + k - 1
        fin == IF s.fin /\ last = s.sent /\ s.una <= s.sent + 1 THEN {"FIN"} ELSE {}
    IN  /\ UNCHANGED peer
        /\ \/ /\ s.st = "SYN_SENT" /\ k = 0 /\ PeerSends(Segment(p, {"SYN"}, 0, << >>, w))
           \/ /\ s.st = "SYN_RCVD" /\ k = 0 /\ PeerSends(Segment(p, {"SYN", "ACK"}, 0, << >>, w))
           \/ /\ s.st = "ESTABLISHED" /\ k <= BufSize /\ last <= s.sent
              /\ PeerSends(Segment(p, {"ACK"} \cup fin, s.una, InUnits(p, s.una, last), w))

OutUnits(p) == [k \in 1 .. written[p] |-> <<"out", p, k>>]

PeersTurn(p) == TurnTaking => Len(peer[p].got) = written[p] /\ user.pc # "writing"

PeerData(p) ==
  \E w \in Windows, k \in 1 .. BufSize :
    LET s == peer[p]
    IN  /\ s.st = "ESTABLISHED" /\ ~s.fin /\ s.sent + k <= MaxIn /\ PeersTurn(p)
        /\ s.sent + 1 - s.una + k <= (IF s.open THEN BufSize ELSE 1)
        /\ peer' = [peer EXCEPT ![p].sent = @ + k]
        /\ PeerSends(Segment(p, {"ACK", "PSH"}, s.sent + 1, InUnits(p, s.sent + 1, s.sent + k), w))

PeerFin(p) ==
  \E w \in Windows :
    /\ peer[p].st = "ESTABLISHED" /\ ~peer[p].fin
    /\ peer' = [peer EXCEPT ![p].fin = TRUE]
    /\ PeerSends(Segment(p, {"ACK", "FIN"}, peer[p].sent + 1, << >>, w))

PeerReset(p) ==
  /\ Resets /\ peer[p].st \notin {"idle", "CLOSED"}
  /\ peer' = [peer EXCEPT ![p].st = "CLOSED"]
  /\ PeerSends(Segment(p, {"RST", "ACK"}, peer[p].sent + 1, << >>, 0))

\* The peer's state after an acceptable segment g.
PeerTakes(s, g) ==
  LET off  == s.rcv - g.seq
      more == IF off \in 0 .. Len(g.data) - 1 THEN SubSeq(g.data, off + 1, Len(g.data)) ELSE << >>
      fin  == IF "FIN" \in g.flags /\ g.seq + Len(g.data) = s.rcv + Len(more) THEN 1 ELSE 0
  IN  [s EXCEPT !.rcv = @ + Len(more) + fin, !.got = @ \o more,
                !.una = IF g.ack > @ THEN g.ack ELSE @, !.open = g.open]

PeerInput(p) ==
  \E g \in toPeer :
    LET s == peer[p]
        to(x) == peer' = [peer EXCEPT ![p] = x] /\ UNCHANGED toUip
        answer(f, a) == toUip' \in Sent(toUip, [Segment(p, f, a, << >>, BufSize) EXCEPT !.ack = g.seq + 1], ToUipCap)
    IN  /\ g.peer = p
        /\ toPeer' \in Taken(toPeer, g)
        /\ UNCHANGED <<conn, u, user, written, seen>>
        /\ CASE "RST" \in g.flags ->
                  to(IF g.seq = s.rcv \/ s.st = "SYN_SENT" THEN [s EXCEPT !.st = "CLOSED"] ELSE s)
             [] g.flags = {"SYN"} /\ s.st = "idle" ->
                  /\ peer' = [peer EXCEPT ![p] = [s EXCEPT !.st = "SYN_RCVD", !.rcv = g.seq + 1]]
                  /\ answer({"SYN", "ACK"}, 0)
             [] g.flags = {"SYN", "ACK"} /\ s.st = "SYN_SENT" ->
                  to([s EXCEPT !.st = "ESTABLISHED", !.rcv = g.seq + 1, !.una = 1])
             [] s.st = "SYN_RCVD" /\ g.ack = 1 /\ "SYN" \notin g.flags ->
                  to(PeerTakes([s EXCEPT !.st = "ESTABLISHED"], g))
             [] s.st = "ESTABLISHED" /\ "SYN" \notin g.flags -> to(PeerTakes(s, g))
             [] s.st = "CLOSED" -> UNCHANGED peer /\ answer({"RST", "ACK"}, g.ack)
             [] OTHER -> UNCHANGED <<peer, toUip>>

Sketch == \/ available \/ stop \/ ConnectReturn \/ write \/ WriteChunk \/ WriteFail
          \/ read \/ flush \/ \E p \in Peers : connect(p)

PeerStep(p) == \/ PeerConnect(p) \/ PeerRepeat(p) \/ PeerData(p) \/ PeerFin(p)
               \/ PeerReset(p) \/ PeerInput(p)

Next == TickInput \/ TickPeriodic \/ Sketch \/ \E p \in Peers : PeerStep(p)

Spec == Init /\ [][Next]_vars

-----------------------------------------------------------------------------
(* Properties. *)

States == {"CLOSED", "SYN_RCVD", "SYN_SENT", "ESTABLISHED", "FIN_WAIT_1", "FIN_WAIT_2",
           "CLOSING", "TIME_WAIT", "LAST_ACK"}

TypeOK ==
  /\ conn.st \in States /\ conn.peer \in Peers \cup {NoPeer}
  /\ conn.len \in 0 .. BufSize + 1 /\ conn.nrtx \in 0 .. MaxRtx
  /\ u.state \subseteq {"CONNECTED", "CLOSE", "REMOTECLOSED", "RESTART"}
  /\ u.out_pos \in 0 .. BufSize /\ u.in_pos + u.dataCnt \in 0 .. BufSize

(* What a peer gets is what the sketch wrote to it: each unit once, in      *)
(* order, whatever the network loses, repeats or reorders.                  *)
PeerGetsWritten == \A p \in Peers : IsPrefix(peer[p].got, OutUnits(p))

(* What the sketch reads is what the peers sent.                            *)
SketchReadsSent ==
  \A p \in Peers :
    IsPrefix(SelectSeq(seen, LAMBDA x : x[1] # "in" \/ x[2] = p), InUnits(p, 1, peer[p].sent))

(* Nothing written is lost while the connection stands: what the peer has   *)
(* not got is still in myData to be sent or sent again.                     *)
NothingLost ==
  conn.app /\ conn.st = "ESTABLISHED" =>
    written[conn.peer] - Len(peer[conn.peer].got) <= (IF u.packets_out THEN u.out_pos ELSE 0)

(* A window that was closed for unread data will be opened again when they  *)
(* are read: either the flag for it is up or the connection is ending.      *)
WindowReopens ==
  conn.app /\ conn.stopped /\ u.dataCnt = 0 /\ ~Ended(u) => "RESTART" \in u.state

(* Connection and user data belong together until both are done with: an    *)
(* attached connection is open, and user data in use are attached, or hold  *)
(* unread data, or the sketch has a client that can free them.  (There are  *)
(* no others: user data that nobody frees end all service.)                 *)
Attached ==
  /\ conn.app => conn.st \in {"ESTABLISHED", "LAST_ACK"} /\ "CONNECTED" \in u.state
  /\ u.state # {} => conn.app \/ ("REMOTECLOSED" \in u.state /\ (u.packets_in \/ user.data))
=============================================================================
