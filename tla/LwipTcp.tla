------------------------------ MODULE LwipTcp ------------------------------
(***************************************************************************)
(* RF24Client and RF24Server over lwIP (USE_LWIP == 1): one current        *)
(* connection myPcb for the whole library, two connection states gState[]  *)
(* with a receive buffer each, and the callbacks lwIP runs on them.        *)
(*                                                                         *)
(* The sketch calls connect(), stop(), write(), read() and flush(); every  *)
(* one of them runs Ethernet.update() in its loops, and so do the calls    *)
(* that only wait.  lwIP's callbacks run inside update(): between any two  *)
(* steps below, never inside one.  lwIP itself (the pcb's, what it calls   *)
(* and when) is outside this repository and is modelled from how the code  *)
(* uses it.  A connection is never reused: Conns counts all of them.       *)
(*                                                                         *)
(* Left out: result, accepts, simpleCounter, identifier and closeTimer,    *)
(* which nothing but debug output reads, and the client poll timer, which  *)
(* is commented out in the code.  stateActiveID of gState[i] is always i.  *)
(***************************************************************************)
EXTENDS Integers, Sequences

CONSTANTS Conns,       \* connections, inbound and outbound, in order of creation
          MaxRcvd,     \* data units a peer sends on a connection
          BufSize,     \* INCOMING_DATA_SIZE in data units
          Timeout,     \* serverConnectionTimeout in steps of the clock
          ClockRuns,   \* FALSE: setTimeout() put it beyond reach
          Listens,     \* the sketch runs an RF24Server
          Connects,    \* the sketch calls connect()
          ListenCalled, \* it calls Ethernet.listen()
          Lingers      \* lwIP may call back on a connection that was closed
                       \* by the other side, until its last ACK arrives

NoConn == 0     \* myPcb == nullptr
NoArg  == 2     \* tcp_arg(pcb, nullptr)

ASSUME LwipAssumption ==
  /\ Conns \in Nat \ {0} /\ MaxRcvd \in Nat /\ BufSize \in Nat \ {0}
  /\ Timeout \in Nat
  /\ {ClockRuns, Listens, Connects, ListenCalled, Lingers} \subseteq BOOLEAN

VARIABLES s,       \* the library and lwIP: what callbacks act on
          user,    \* the sketch's call in progress
          struck   \* history: a callback on a closed connection has changed
                   \* what the library keeps of another, open one

vars == <<s, user, struck>>

Pcbs == 1 .. Conns
Ids  == {0, 1}

SlotType == [connected : BOOLEAN, accepted : BOOLEAN,
             buf : Seq(Pcbs \X (1 .. MaxRcvd)),
             quiet : 0 .. Timeout + 1, since : 0 .. Timeout + 1]

\* st: CLOSED after tcp_new; OPEN is ESTABLISHED and, with fin, CLOSE_WAIT;
\* CLOSING stands for every state after tcp_close in which the pcb still exists.
PcbType == [st : {"unused", "LISTEN", "CLOSED", "SYN_SENT", "OPEN", "CLOSING", "gone"},
            arg : Ids \cup {NoArg}, cb : {"server", "client", "none"},
            poll : {"serverTimeouts", "closed_port", "none"},
            pending : BOOLEAN, busy : BOOLEAN, refused : BOOLEAN, fin : BOOLEAN,
            rcvd : 0 .. MaxRcvd, taken : 0 .. MaxRcvd]

StateType == [myPcb : Pcbs \cup {NoConn}, active : Ids,
              slot : [Ids -> SlotType], pcb : [Pcbs -> PcbType]]

UserType == [pc : {"idle", "connecting", "writing", "written", "draining"},
             pcb : Pcbs \cup {NoConn}, id : Ids]

NewSlot == [connected |-> FALSE, accepted |-> FALSE, buf |-> << >>,
            quiet |-> 0, since |-> 0]
NewPcb == [st |-> "unused", arg |-> NoArg, cb |-> "none", poll |-> "none",
           pending |-> FALSE, busy |-> FALSE, refused |-> FALSE, fin |-> FALSE,
           rcvd |-> 0, taken |-> 0]
AtRest == [pc |-> "idle", pcb |-> NoConn, id |-> 0]

Open(c) == s.pcb[c].st = "OPEN"
Live(c) == s.pcb[c].st \in {"SYN_SENT", "OPEN"}
Closing(c) == s.pcb[c].st = "CLOSING"
Called(c) == Live(c) \/ (Lingers /\ Closing(c))   \* lwIP calls back
Waiting(c) == s.pcb[c].st = "OPEN" /\ s.pcb[c].pending

\* pcb's are handed out in order.
Fresh(c) == s.pcb[c].st = "unused" /\ \A d \in Pcbs : d < c => s.pcb[d].st # "unused"

Init ==
  /\ s = [myPcb |-> NoConn, active |-> 0,
          slot |-> [i \in Ids |-> NewSlot], pcb |-> [c \in Pcbs |-> NewPcb]]
  /\ user = AtRest /\ struck = FALSE

-----------------------------------------------------------------------------
(* lwIP's calls, as functions of the state x.  They yield sets of results. *)

Forget_Never(x, c) == x

Forget(x, c) == IF x.myPcb = c THEN [x EXCEPT !.myPcb = NoConn] ELSE x

SetConnected_Active(x, id, b) == [x EXCEPT !.slot[x.active].connected = b]

\* A callback touches the connection state its pcb carries, if any.
SetConnected(x, id, b) ==
  IF id = NoArg THEN x ELSE [x EXCEPT !.slot[id].connected = b]

Heard(x, id) == IF id = NoArg THEN x ELSE [x EXCEPT !.slot[id].quiet = 0]

error_callback_AnyId(x, id) ==
  IF id = NoArg THEN x
  ELSE [x EXCEPT !.slot[id].connected = FALSE, !.slot[id].buf = << >>, !.myPcb = NoConn]

error_callback(x, id) ==
  IF id = NoArg THEN x
  ELSE [x EXCEPT !.slot[id].connected = FALSE,
                 !.slot[id].buf = << >>,
                 !.myPcb = IF id = x.active THEN NoConn ELSE @]

Remove(x, c) == [x EXCEPT !.pcb[c].st = "gone", !.pcb[c].pending = FALSE]

\* lwIP drops the pcb and reports it.
Report(x, c) ==
  LET gone == Remove(x, c)
  IN  IF x.pcb[c].cb = "none" THEN gone ELSE error_callback(gone, x.pcb[c].arg)

tcp_abort(x, c) == Report(x, c)

\* Unread data make tcp_close drop the connection at once, with a RST.
tcp_close(x, c) ==
  CASE x.pcb[c].st = "OPEN" /\ ~x.pcb[c].refused ->
         {<<TRUE, [x EXCEPT !.pcb[c].st = "CLOSING"]>>, <<FALSE, x>>}
    [] x.pcb[c].st = "OPEN" /\ x.pcb[c].refused -> {<<TRUE, Remove(x, c)>>}
    [] x.pcb[c].st \in {"SYN_SENT", "LISTEN"} -> {<<TRUE, Remove(x, c)>>}
    [] OTHER -> {<<TRUE, x>>}

-----------------------------------------------------------------------------
(* The callbacks.                                                          *)

accept(x, c) ==
  LET delayed == x.myPcb # NoConn
      id == 1 - x.active
      y == IF delayed THEN x ELSE [x EXCEPT !.myPcb = c, !.active = id]
  IN  [y EXCEPT !.slot[id] = [connected |-> ~delayed, accepted |-> ~delayed,
                              buf |-> << >>, quiet |-> 0, since |-> 0],
                !.pcb[c] = [NewPcb EXCEPT !.st = "OPEN", !.arg = id, !.cb = "server",
                                          !.pending = delayed,
                                          !.poll = IF delayed THEN "closed_port"
                                                              ELSE "serverTimeouts"]]

Stored_Overrun(x, c) ==
  LET id == x.pcb[c].arg
      n  == x.pcb[c].rcvd + 1
  IN  IF Len(x.slot[id].buf) <= BufSize
        THEN [x EXCEPT !.slot[id].buf = Append(@, <<c, n>>),
                       !.pcb[c].rcvd = n, !.pcb[c].refused = FALSE]
        ELSE [x EXCEPT !.pcb[c].refused = TRUE]

\* Data that fit go to the end of the buffer, others are refused.
Stored(x, c) ==
  LET id == x.pcb[c].arg
      n  == x.pcb[c].rcvd + 1
  IN  IF Len(x.slot[id].buf) < BufSize
        THEN [x EXCEPT !.slot[id].buf = Append(@, <<c, n>>),
                       !.pcb[c].rcvd = n, !.pcb[c].refused = FALSE]
        ELSE [x EXCEPT !.pcb[c].refused = TRUE]

\* A null pbuf: the other side has closed.
PeerClosed(x, c) ==
  {IF r[1] THEN Forget(r[2], c) ELSE tcp_abort(Forget(r[2], c), c) :
     r \in tcp_close(SetConnected(x, x.pcb[c].arg, FALSE), c)}

srecv_callback(x, c, null) ==
  LET y == Heard(x, x.pcb[c].arg)
  IN  IF null THEN PeerClosed(y, c) ELSE {Stored(y, c)}

recv_callback(x, c, null) == IF null THEN PeerClosed(x, c) ELSE {Stored(x, c)}

Received(x, c, null) ==
  IF x.pcb[c].cb = "server" THEN srecv_callback(x, c, null) ELSE recv_callback(x, c, null)

serverTimeouts(x, c) ==
  LET id == x.pcb[c].arg
      Closed(y) == [y EXCEPT !.slot[x.active].buf = << >>,
                             !.slot[id].connected = FALSE]
  IN  IF id = NoArg \/ x.slot[id].quiet <= Timeout THEN {x}
      ELSE {IF r[1] THEN [Closed(r[2]) EXCEPT !.myPcb = NoConn]
            ELSE tcp_abort([Forget(Closed(r[2]), c) EXCEPT !.pcb[c].arg = NoArg], c) :
              r \in tcp_close(x, c)}

Overdue_IfAccepted(x, id) == x.slot[id].accepted /\ x.slot[id].since > Timeout

Overdue(x, id) == x.slot[id].since > Timeout

closed_port(x, c) ==
  LET id == x.pcb[c].arg
      accepted == [x EXCEPT !.pcb[c].pending = FALSE, !.slot[id].accepted = TRUE]
      promoted == [accepted EXCEPT !.slot[id].since = 0,
                                   !.slot[id].connected = TRUE,
                                   !.myPcb = c, !.active = id]
      established == x.pcb[c].st = "OPEN" /\ ~x.pcb[c].fin
  IN  CASE id = NoArg \/ ~established -> {x}
        [] id # NoArg /\ established /\ x.myPcb = NoConn
             /\ ~x.slot[id].accepted -> {promoted}
        [] OTHER ->
             IF ~Overdue(x, id) THEN {x}
             ELSE LET y == IF x.slot[id].accepted THEN x ELSE accepted
                  IN  {IF r[1] THEN SetConnected(r[2], id, FALSE)
                       ELSE tcp_abort(SetConnected(r[2], id, FALSE), c) :
                         r \in tcp_close(y, c)}

-----------------------------------------------------------------------------
(* What lwIP does inside update().                                         *)

Listening == \E d \in Pcbs : s.pcb[d].st = "LISTEN"

\* The server's backlog is 1: no handshake while a delayed connection counts.  That of listen()
\* has no such limit.
Inbound(c) ==
  /\ Listens /\ Fresh(c)
  /\ Listening \/ \A d \in Pcbs : ~s.pcb[d].pending
  /\ s' = accept(s, c)

\* on_connected.
Handshake(c) ==
  /\ s.pcb[c].st = "SYN_SENT"
  /\ s' = SetConnected([s EXCEPT !.pcb[c].st = "OPEN"], s.pcb[c].arg, TRUE)

\* RST received, refused, retransmitted too often, or out of memory.
Reset(c) == Called(c) /\ s' = Report(s, c)

\* The next unit, or the refused one again.
Data(c) ==
  /\ Open(c) /\ ~s.pcb[c].fin /\ s.pcb[c].rcvd < MaxRcvd
  /\ s' \in Received(s, c, FALSE)

\* The last unit with the FIN in the same segment: when it is refused, the connection is in
\* CLOSE_WAIT and lwIP keeps the FIN until the unit is taken.
LastData(c) ==
  /\ Open(c) /\ s.pcb[c].rcvd < MaxRcvd /\ s.pcb[c].fin = s.pcb[c].refused
  /\ \E y \in Received([s EXCEPT !.pcb[c].fin = TRUE], c, FALSE) :
       IF y.pcb[c].refused THEN s' = y ELSE s' \in Received(y, c, TRUE)

PeerFin(c) ==
  /\ Open(c) \/ (Lingers /\ Closing(c))
  /\ ~s.pcb[c].fin /\ ~s.pcb[c].refused
  /\ LET x == [s EXCEPT !.pcb[c].fin = TRUE]
     IN  IF x.pcb[c].cb = "none" THEN s' = x ELSE s' \in Received(x, c, TRUE)

\* Everything written is acknowledged: sent_callback.
Ack(c) ==
  /\ s.pcb[c].busy /\ Called(c)
  /\ LET x == [s EXCEPT !.pcb[c].busy = FALSE]
     IN  s' = IF x.pcb[c].cb = "none" THEN x ELSE Heard(x, x.pcb[c].arg)

Poll(c) ==
  /\ Called(c)
  /\ CASE s.pcb[c].poll = "serverTimeouts" -> s' \in serverTimeouts(s, c)
       [] s.pcb[c].poll = "closed_port"    -> s' \in closed_port(s, c)
       [] OTHER -> UNCHANGED s

\* The last ACK: lwIP frees the pcb without a word.
Finish(c) == Closing(c) /\ s' = Remove(s, c)

Older(n) == IF n > Timeout THEN n ELSE n + 1

Clock ==
  /\ ClockRuns
  /\ s' = [s EXCEPT !.slot = [i \in Ids |->
             [s.slot[i] EXCEPT !.quiet = Older(@), !.since = Older(@)]]]

Strikes(c) ==
  \E d \in Pcbs \ {c} :
    /\ Closing(c) /\ Live(d)
    /\ \/ d = s.myPcb /\ d # s'.myPcb
       \/ \E i \in {s.pcb[d].arg} \ {NoArg} :
            <<s.slot[i].connected, s.slot[i].buf>> # <<s'.slot[i].connected, s'.slot[i].buf>>
Watched(c) == struck' = (struck \/ Strikes(c)) /\ UNCHANGED user

Lwip ==
  \/ Clock /\ UNCHANGED <<user, struck>>
  \/ \E c \in Pcbs : /\ \/ Inbound(c) \/ Handshake(c) \/ Reset(c) \/ Data(c) \/ LastData(c)
                         \/ PeerFin(c) \/ Ack(c) \/ Poll(c) \/ Finish(c)
                      /\ Watched(c)

-----------------------------------------------------------------------------
(* The sketch's calls.                                                     *)

\* _stop after its drain loop.  A pcb tcp_connect refused is CLOSED: it is
\* forgotten, not freed.
CloseCurrent(x) ==
  LET c == x.myPcb
      y == [x EXCEPT !.myPcb = NoConn, !.slot[x.active].buf = << >>,
                     !.slot[x.active].connected = FALSE]
      z == [y EXCEPT !.pcb[c].arg = NoArg, !.pcb[c].cb = "none"]
  IN  IF c = NoConn \/ x.pcb[c].st = "CLOSED" THEN {y}
      ELSE {IF r[1] THEN r[2] ELSE tcp_abort(r[2], c) : r \in tcp_close(z, c)}

\* The drain loop runs update() only while there is something to wait for.
Drains(x) == x.myPcb # NoConn /\ x.slot[x.active].connected /\ x.pcb[x.myPcb].busy

_stop(x) ==
  \/ /\ Drains(x) /\ s' = x
     /\ user' = [AtRest EXCEPT !.pc = "draining"]
  \/ /\ ~Drains(x) /\ s' \in CloseCurrent(x) /\ user' = AtRest

stop == user.pc = "idle" /\ _stop(s)

\* Nothing left to drain, or five seconds have passed.
Drained == user.pc = "draining" /\ s' \in CloseCurrent(s) /\ user' = AtRest

connect(c) ==
  LET id == s.active
      x == [s EXCEPT !.myPcb = c, !.slot[id].buf = << >>, !.slot[id].connected = FALSE,
                     !.pcb[c].st = "CLOSED", !.pcb[c].arg = id, !.pcb[c].cb = "client"]
  IN  /\ Connects /\ user.pc = "idle" /\ s.myPcb = NoConn /\ Fresh(c)
      /\ \/ /\ s' = [x EXCEPT !.pcb[c].st = "SYN_SENT"]
            /\ user' = [pc |-> "connecting", pcb |-> c, id |-> id]
         \/ _stop(x)        \* tcp_connect fails

\* Ethernet.listen(): the listening pcb is the current one, whatever was.
listen(c) ==
  /\ ListenCalled /\ user.pc = "idle" /\ Fresh(c)
  /\ s' = [s EXCEPT !.myPcb = c, !.pcb[c].st = "LISTEN", !.slot[0].connected = FALSE]
  /\ UNCHANGED user

\* There is a current connection already: it is closed, and that is all.
ConnectBusy ==
  Connects /\ user.pc = "idle" /\ s.myPcb # NoConn /\ _stop(s)

\* connected, or five seconds have passed.
ConnectReturn == user.pc = "connecting" /\ user' = AtRest /\ UNCHANGED s

\* _write fails: the connection it began with is marked, the current one closed.
WriteFail(id) == _stop([s EXCEPT !.slot[id].connected = FALSE])

\* blocking_write up to the wait for buffer space, for the first chunk
\* (id = s.active) and for the following ones.
WriteChunk(id) ==
  \/ /\ s.slot[id].connected /\ UNCHANGED s
     /\ user' = [pc |-> "writing", pcb |-> s.myPcb, id |-> id]
  \/ /\ ~s.slot[id].connected /\ WriteFail(id)

write == user.pc = "idle" /\ s.myPcb # NoConn /\ WriteChunk(s.active)

\* Space, or none for serverConnectionTimeout; tcp_write may fail as well.
WriteSpace ==
  /\ user.pc = "writing"
  /\ \/ /\ s.slot[user.id].connected /\ s.myPcb = user.pcb /\ Open(user.pcb)
        /\ s' = [s EXCEPT !.pcb[user.pcb].busy = TRUE]
        /\ user' = [user EXCEPT !.pc = "written"]
     \/ WriteFail(user.id)

WriteNext ==
  /\ user.pc = "written"
  /\ \/ /\ UNCHANGED s     \* that was the last chunk, or myPcb is null
        /\ user' = AtRest
     \/ /\ s.myPcb # NoConn
        /\ WriteChunk(user.id)

Buf == s.slot[s.active].buf

TakeFrom_Keeps(k) ==
  /\ user.pc = "idle" /\ k \in 1 .. Len(Buf)
  /\ s' = [s EXCEPT !.pcb[Buf[k][1]].taken = Buf[k][2]]
  /\ UNCHANGED user

\* The oldest units of the current connection state's buffer leave it.
TakeFrom(k) ==
  /\ user.pc = "idle" /\ k \in 1 .. Len(Buf)
  /\ s' = [s EXCEPT !.slot[s.active].buf = SubSeq(@, k + 1, Len(@)),
                    !.pcb[Buf[k][1]].taken = Buf[k][2]]
  /\ UNCHANGED user

read  == \E k \in 1 .. BufSize : TakeFrom(k)

Sketch == \/ stop \/ Drained \/ ConnectBusy \/ ConnectReturn
          \/ write \/ WriteSpace \/ WriteNext \/ read
          \/ \E c \in Pcbs : connect(c) \/ listen(c)

Next == (Sketch /\ UNCHANGED struck) \/ Lwip

Spec == Init /\ [][Next]_vars

-----------------------------------------------------------------------------
(* Properties. *)

\* Every variable has its type, and no receive buffer overflows.
TypeOK ==
  /\ s \in StateType /\ user \in UserType /\ struck \in BOOLEAN
  /\ \A i \in Ids : Len(s.slot[i].buf) <= BufSize

Current(c) == c = s.myPcb

(* myPcb never outlives the connection: every tcp_write, tcp_output and     *)
(* tcp_close the client makes through it is on a pcb lwIP still has, and    *)
(* that pcb's callbacks act on gState[activeState].                         *)
HandleIsLive ==
  s.myPcb # NoConn => Live(s.myPcb) /\ s.pcb[s.myPcb].arg = s.active

(* One connection at a time: whatever else is open is delayed, waits in the *)
(* backlog, and has the other connection state to itself - until a callback *)
(* on a connection that was closed strikes another one.                     *)
OneCurrent ==
  ~struck => \A c \in Pcbs : Live(c) /\ ~Current(c) => Waiting(c) /\ s.pcb[c].arg = 1 - s.active

(* gState[activeState]->connected, which connect(), write() and connected() *)
(* go by, is up when the current connection is open, and only then, however *)
(* callbacks and the sketch's own calls interleave - until one has struck.  *)
ConnectedIsTrue ==
  ~struck => (s.slot[s.active].connected <=> s.myPcb # NoConn /\ Open(s.myPcb))

Unread(c) == [k \in 1 .. s.pcb[c].rcvd - s.pcb[c].taken |-> <<c, s.pcb[c].taken + k>>]

(* What lwIP was told is received and the sketch has not read yet is in the *)
(* connection's buffer: all of it, in order, and no other connection's -    *)
(* until a callback on a closed connection has struck.                      *)
BufferHoldsStream ==
  ~struck => \A c \in Pcbs : Live(c) /\ s.pcb[c].arg # NoArg => s.slot[s.pcb[c].arg].buf = Unread(c)

(* The clock goes on, lwIP polls, retries refused data, and the sketch      *)
(* comes back from its calls (a write has an end) and reads between them,   *)
(* whatever else it does.                                                   *)
Fairness ==
  /\ WF_vars(Clock /\ UNCHANGED <<user, struck>>)
  /\ SF_vars(read /\ UNCHANGED struck)
  /\ WF_vars(Drained /\ UNCHANGED struck) /\ WF_vars(ConnectReturn /\ UNCHANGED struck)
  /\ WF_vars(WriteSpace /\ UNCHANGED struck)
  /\ WF_vars(WriteNext /\ UNCHANGED struck)
  /\ SF_vars(WriteNext /\ user' = AtRest /\ UNCHANGED struck)
  /\ \A c \in Pcbs : /\ WF_vars(Poll(c) /\ Watched(c))
                     /\ WF_vars((Data(c) \/ (LastData(c) /\ s.pcb[c].fin)) /\ Watched(c))

FairSpec == Spec /\ Fairness

\* In CLOSE_WAIT with data for which its buffer, which nobody reads, has no room
Stuck(c) == Waiting(c) /\ s.pcb[c].fin

(* A delayed connection does not wait for ever: it becomes current, or it   *)
(* is closed when its time is up - unless the other end has closed it and   *)
(* the last data were refused (RF24Client.cpp:394, :416).                   *)
DelayedResolved == \A c \in Pcbs : Waiting(c) ~> ~Waiting(c) \/ Stuck(c)

(* Data refused for want of buffer space arrive once the sketch has read,   *)
(* unless the connection ends, or waits and has been closed at the other    *)
(* end.                                                                     *)
RefusedArrives ==
  \A c \in Pcbs : Live(c) /\ s.pcb[c].refused ~> ~(Live(c) /\ s.pcb[c].refused) \/ Stuck(c)

-----------------------------------------------------------------------------
(* What the documentation says and the code does not keep.                  *)

(* RF24Server.h: the server's timeout ends a connection that neither sent   *)
(* nor received for that long, and no other.                                *)
BusyStaysOpen ==
  [][\A c \in Pcbs : /\ Current(c) /\ Open(c)
                    /\ s.slot[s.active].quiet <= Timeout
                    /\ Poll(c)
                    => s'.pcb[c].st = "OPEN"]_vars

(* The same sentence: the timer of one connection leaves another one alone. *)
TimerSparesOthers ==
  [][\A c, d \in Pcbs : c # d /\ Current(d) /\ Poll(c) => s'.myPcb = d]_vars

(* RF24Client::connect reports the connection it was asked to establish.    *)
ConnectIsOwn ==
  [][ConnectReturn /\ s.slot[s.active].connected => s.myPcb = user.pcb]_vars

=============================================================================
