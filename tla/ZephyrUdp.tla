----------------------------- MODULE ZephyrUdp -----------------------------
(***************************************************************************)
(* UDP in the Zephyr build: RF24UDP of RF24Udp.cpp where USE_LWIP is 2,    *)
(* over Zephyr's sockets.                                                  *)
(*                                                                         *)
(* An object has two descriptors: udpSocketIn, bound to the port it        *)
(* listens on, and udpSocketOut, opened for every packet.  The network     *)
(* thread of Zephyr queues datagrams at the open sockets; descriptors are  *)
(* numbers of one table, and a closed one is given out again.              *)
(***************************************************************************)
EXTENDS Integers, Sequences, FiniteSets, SequencesExt, FiniteSetsExt

CONSTANTS
  Objects,      \* the sketch's RF24UDP objects
  Peers,        \* remote ends, each an address and a port
  Ports,        \* the local ports the sketch listens on
  NFds,         \* descriptors there are
  QueueCap,     \* datagrams that wait at a socket at most
  BufSize,      \* sizeof(udpDataIn) - 1, and sizeof(udpDataOut)
  Sizes,        \* of the datagrams that come, in units
  MaxIn,        \* datagrams that come in all
  MaxOut,       \* packets the sketch begins in all
  MaxAll        \* the two together

VARIABLES
  fds,          \* Zephyr's table of sockets
  sock,         \* the members of each object
  cur,          \* history: what each object has not read yet of its last datagram
  out,          \* history: the packet each object is writing
  slipped,      \* history: begin() or stop() has closed a descriptor given out again
  ins, outs

vars == <<fds, sock, cur, out, slipped, ins, outs>>

None == 0       \* -1 in the code
Anyone == 0
Ephemeral == 0
Nobody == <<None, "none">>
Closed == [open |-> FALSE, port |-> Ephemeral, bound |-> FALSE, q |-> << >>, owner |-> Nobody]
Junk == <<"junk", 0, 0>>
Fds == 1 .. NFds
Smaller(a, b) == IF a < b THEN a ELSE b
Units(k, n) == [i \in 1 .. n |-> <<"in", k, i>>]   \* of the k-th datagram
Untaken == [due |-> << >>, clean |-> TRUE, from |-> Anyone]
Unwritten == [data |-> << >>, first |-> TRUE, to |-> Anyone]

Init ==
  /\ fds = [f \in Fds |-> Closed]
  /\ sock = [o \in Objects |-> [in |-> None, out |-> None, dest |-> Anyone, remote |-> Anyone,
                                dataIn |-> [i \in 1 .. BufSize |-> Junk], inPos |-> 0,
                                dataOut |-> << >>]]
  /\ cur = [o \in Objects |-> Untaken]
  /\ out = [o \in Objects |-> Unwritten]
  /\ slipped = FALSE
  /\ ins = 0 /\ outs = 0

-----------------------------------------------------------------------------
(* Zephyr: zsock_socket() gives the lowest free descriptor, zsock_close()  *)
(* closes whatever has the number.                                         *)

Open(t, owner, port) ==
  LET f == Min({g \in Fds : ~t[g].open}) IN
  [t EXCEPT ![f] = [open |-> TRUE, port |-> port, bound |-> port # Ephemeral, q |-> << >>, owner |-> owner]]
Full(t) == \A f \in Fds : t[f].open
NextFd(t) == IF Full(t) THEN None ELSE Min({g \in Fds : ~t[g].open})
Close(t, f) == IF f = None THEN t ELSE [t EXCEPT ![f] = Closed]
Foreign(f, o) == f # None /\ fds[f].open /\ fds[f].owner # <<o, "in">>

Arrive ==
  /\ ins < MaxIn /\ ins + outs < MaxAll /\ ins' = ins + 1
  /\ \E f \in Fds, p \in Peers, n \in Sizes :
       /\ fds[f].bound /\ Len(fds[f].q) < QueueCap
       /\ fds' = [fds EXCEPT ![f].q =
                    Append(@, [from |-> p, data |-> Units(ins + 1, n)])]
  /\ UNCHANGED <<sock, cur, out, slipped, outs>>

-----------------------------------------------------------------------------
(* The calls of RF24UDP.                                                   *)

\* begin() closes udpSocketIn, opens another and binds it, which Zephyr may refuse when some
\* socket has the port.
Begin(o, port) ==
  LET t == Close(fds, sock[o].in) IN
  /\ slipped' = (slipped \/ Foreign(sock[o].in, o))
  /\ \/ /\ ~Full(t)
        /\ fds' = Open(t, <<o, "in">>, port)
        /\ sock' = [sock EXCEPT ![o] = [@ EXCEPT !.in = NextFd(t), !.inPos = 0]]
        /\ cur' = [cur EXCEPT ![o] = Untaken]
     \/ /\ ~Full(t)
        /\ \E f \in Fds : t[f].open /\ t[f].port = port
        /\ fds' = t
        /\ sock' = [sock EXCEPT ![o] = [@ EXCEPT !.in = None, !.inPos = 0]]
        /\ cur' = [cur EXCEPT ![o] = Untaken]
     \/ /\ Full(t)
        /\ fds' = t
        /\ sock' = [sock EXCEPT ![o].in = None]
        /\ UNCHANGED cur
  /\ UNCHANGED <<out, ins, outs>>

\* A mutant of Stop: keeps the number of udpSocketOut as well.
Stop_KeepsOut(o) ==
  /\ fds' = Close(Close(fds, sock[o].in), sock[o].out)
  /\ slipped' = (slipped \/ Foreign(sock[o].in, o))
  /\ sock' = [sock EXCEPT ![o] = [@ EXCEPT !.inPos = 0, !.dataOut = << >>]]
  /\ cur' = [cur EXCEPT ![o] = Untaken] /\ out' = [out EXCEPT ![o] = Unwritten]
  /\ UNCHANGED <<ins, outs>>

\* stop() closes both sockets but keeps the number of udpSocketIn
Stop(o) ==
  /\ fds' = Close(Close(fds, sock[o].in), sock[o].out)
  /\ slipped' = (slipped \/ Foreign(sock[o].in, o))
  /\ sock' = [sock EXCEPT ![o] = [@ EXCEPT !.inPos = 0, !.out = None, !.dataOut = << >>]]
  /\ cur' = [cur EXCEPT ![o] = Untaken] /\ out' = [out EXCEPT ![o] = Unwritten]
  /\ UNCHANGED <<ins, outs>>

BeginPacket(o, p) ==
  LET t == Close(fds, sock[o].out) IN
  /\ outs < MaxOut /\ ins + outs < MaxAll /\ outs' = outs + 1
  /\ IF Full(t) THEN /\ fds' = t
                     /\ sock' = [sock EXCEPT ![o].out = None]
                     /\ UNCHANGED out
     ELSE /\ fds' = Open(t, <<o, "out">>, Ephemeral)
          /\ sock' = [sock EXCEPT ![o] = [@ EXCEPT !.out = NextFd(t), !.dest = p]]
          /\ out' = [out EXCEPT ![o] = [data |-> << >>, to |-> p, first |-> @.first /\ @.data = << >>]]
  /\ UNCHANGED <<cur, slipped, ins>>

\* The sketch does not write more than udpDataOut holds.
Write(o, data) ==
  /\ Len(sock[o].dataOut) + Len(data) <= BufSize
  /\ sock' = [sock EXCEPT ![o].dataOut = @ \o data]
  /\ out' = [out EXCEPT ![o].data = @ \o data]
  /\ UNCHANGED <<fds, cur, slipped, ins, outs>>

\* endPacket() sends all that udpDataOut holds, and keeps it; the socket, when it is open, gets
\* a port
EndPacket(o) ==
  /\ sock[o].out # None
  /\ fds' = [fds EXCEPT ![sock[o].out].bound = fds[sock[o].out].open]
  /\ UNCHANGED <<sock, cur, out, slipped, ins, outs>>

\* available() and parsePacket(): one datagram, of the socket that sends before the one that
\* listens, replaces the data; the count adds up
Waits(f) == f # None /\ fds[f].open /\ fds[f].q # << >>
Available(o) ==
  LET s == sock[o]
      f == IF Waits(s.out) THEN s.out ELSE s.in
      d == Head(fds[f].q)
      data == SubSeq(d.data, 1, Smaller(Len(d.data), BufSize))
  IN  /\ Waits(f)
      /\ fds' = [fds EXCEPT ![f].q = Tail(@)]
      /\ sock' = [sock EXCEPT ![o] =
                    [s EXCEPT !.inPos = @ + Len(data), !.remote = d.from,
                              !.dataIn = [i \in 1 .. BufSize |-> IF i <= Len(data) THEN data[i] ELSE @[i]]]]
      /\ cur' = [cur EXCEPT ![o] =
                   IF s.inPos = 0 THEN [due |-> data, from |-> d.from, clean |-> TRUE]
                   ELSE [Untaken EXCEPT !.clean = FALSE]]
      /\ UNCHANGED <<out, slipped, ins, outs>>

\* read() of n units gives them all or none; what is behind the rest is not looked at again
\* before available() puts a datagram in front of it
Read(o, n) ==
  LET s == sock[o]
      At(i) == IF i <= Smaller(s.inPos, BufSize) THEN s.dataIn[i] ELSE Junk
      c == cur[o]
      left == SubSeq(c.due, n + 1, Len(c.due))
  IN  /\ s.inPos >= n
      /\ sock' = [sock EXCEPT ![o] = [s EXCEPT !.inPos = @ - n, !.dataIn = [i \in 1 .. BufSize |-> At(i + n)]]]
      /\ cur' = [cur EXCEPT ![o] = IF left = << >> /\ c.clean THEN Untaken ELSE [c EXCEPT !.due = left]]
      /\ UNCHANGED <<fds, out, slipped, ins, outs>>

\* flush() reads until a byte is not positive, or none is left
Flush(o) == \E n \in 1 .. Smaller(sock[o].inPos, BufSize) : Read(o, n)

RemoteIP(o) == sock[o].remote

Next ==
  \/ Arrive
  \/ \E o \in Objects, port \in Ports : Begin(o, port)
  \/ \E o \in Objects : Stop(o)
  \/ \E o \in Objects, p \in Peers : BeginPacket(o, p)
  \/ \E o \in Objects : Write(o, << <<"out", outs, Len(sock[o].dataOut) + 1>> >>)
  \/ \E o \in Objects : EndPacket(o)
  \/ \E o \in Objects : Available(o)
  \/ \E o \in Objects, n \in 1 .. BufSize : Read(o, n)
  \/ \E o \in Objects : Flush(o)

Spec == Init /\ [][Next]_vars

-----------------------------------------------------------------------------
\* The state keeps its type, and no socket is left open that no object has the number of.
TypeOK ==
  /\ \A o \in Objects : sock[o].in \in 0 .. NFds /\ sock[o].out \in 0 .. NFds
  /\ \A f \in Fds : fds[f].open => \E o \in Objects : f \in {sock[o].in, sock[o].out}

\* What read() (RF24Udp.cpp:509) will give the sketch is the rest of its current packet, and
\* remoteIP() is who sent it, if nothing was left of the one before when available() took it.
ReadsCurrent ==
  \A o \in Objects : LET c == cur[o] IN
    c.clean /\ c.due # << >> =>
      /\ sock[o].inPos = Len(c.due) /\ SubSeq(sock[o].dataIn, 1, Len(c.due)) = c.due
      /\ RemoteIP(o) = c.from

\* What endPacket() (RF24Udp.cpp:359) would send is what was written since beginPacket(), to
\* the end it named, if this is the first packet since stop(): nothing else empties udpDataOut.
SendsWritten ==
  \A o \in Objects : LET p == out[o] IN
    p.first => sock[o].dataOut = p.data /\ (sock[o].out # None => sock[o].dest = p.to)

\* A descriptor an object sends with is its own, and so is one it listens with until some
\* object uses the number stop() left in udpSocketIn (RF24Udp.cpp:160).
KeepsSocket ==
  ~slipped => \A o \in Objects :
    /\ sock[o].out # None => fds[sock[o].out].owner = <<o, "out">>
    /\ \A f \in Fds : fds[f].owner = <<o, "in">> => sock[o].in = f
=============================================================================
