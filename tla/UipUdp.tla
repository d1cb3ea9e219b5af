------------------------------- MODULE UipUdp -------------------------------
(***************************************************************************)
(* UDP in the uIP build: RF24UDP of RF24Udp.cpp, its callback              *)
(* uipudp_appcall(), and the table of UDP connections of utility/uip.c.    *)
(*                                                                         *)
(* Every object writes its packets to, and finds its datagrams in, one     *)
(* array: RF24Client::all_data[0].myData.  A call of the sketch is a step, *)
(* with the tick() it begins with; a tick takes in at most one datagram    *)
(* and then polls every connection.  What the network loses or reorders    *)
(* are datagrams that do not come, or come in another order.               *)
(*                                                                         *)
(* A remote end is an address with a port.  Data are units; the units of a *)
(* datagram are numbered, so that the array shows whose data it holds.     *)
(***************************************************************************)
EXTENDS Integers, Sequences, FiniteSets, SequencesExt, FiniteSetsExt

CONSTANTS
  Objects,      \* the sketch's RF24UDP objects
  Peers,        \* remote ends, each an address and a port
  Ports,        \* the local ports the sketch listens on
  UdpConns,     \* UIP_UDP_CONNS
  BufSize,      \* OUTPUT_BUFFER_SIZE
  Sizes,        \* of the datagrams that come, in units
  ArpPayload,   \* UIP_ARPHDRSIZE less the IP and UDP headers
  MaxIn,        \* datagrams that come in all
  MaxOut,       \* packets the sketch begins in all
  MaxAll        \* the two together

VARIABLE udp    \* the state of the code, and its history: cur, out, ins, outs

Anyone == 0        \* no address: the connection is not bound to a remote end
Junk == <<"junk", 0, 0>>
Nothing == [from |-> Anyone, port |-> 0, data |-> << >>]
Slots == 1 .. UdpConns
Smaller(a, b) == IF a < b THEN a ELSE b
Units(k, n) == [i \in 1 .. n |-> <<"in", k, i>>]   \* of the k-th datagram

\* memset(&appdata, 0, sizeof(appdata))
Cleared == [packet_in |-> FALSE, packet_out |-> FALSE, in_size |-> 0, in_pos |-> 0,
            out_pos |-> 0, send |-> FALSE]

Unheard == [from |-> Anyone, data |-> << >>, read |-> << >>, clean |-> TRUE, alone |-> TRUE]
Unwritten == [to |-> Anyone, data |-> << >>, clean |-> TRUE, times |-> 0, arp |-> FALSE]

\* cur[o]: the last datagram o was given, and what o has read since; alone if nothing was left
\* of the one before, clean if nothing of one before was read either.  out[o]: the packet o is
\* writing, how often it was sent, and whether once in a frame as long as an ARP packet.
Start ==
  [conns |-> [s \in Slots |-> [lport |-> 0, rip |-> Anyone, app |-> 0]],
   slot |-> [o \in Objects |-> 0],
   app |-> [o \in Objects |-> Cleared],
   myData |-> [i \in 1 .. BufSize |-> Junk], holder |-> <<"out", 0>>,
   cur |-> [o \in Objects |-> Unheard],
   out |-> [o \in Objects |-> Unwritten],
   ins |-> 0, outs |-> 0]

Init == udp = Start

\* n units of myData from pos on; past the end of the array lies something else.
From(u, pos, n) ==
  LET there == SubSeq(u.myData, pos + 1, Smaller(pos + n, BufSize))
  IN  there \o [i \in 1 .. n - Len(there) |-> Junk]

-----------------------------------------------------------------------------
(* tick(): a datagram, and the poll of every connection.                   *)

\* memcpy into myData; holder is who did so last
Store(u, pos, data, holder) ==
  [u EXCEPT !.myData = SubSeq(@, 1, pos) \o data \o SubSeq(@, pos + Len(data) + 1, BufSize),
            !.holder = holder]

Hears(u, s, d) ==
  LET c == u.conns[s] IN /\ c.lport # 0 /\ c.lport = d.port
                         /\ (c.rip = Anyone \/ c.rip = d.from)

\* uip_process() finds the connection; uipudp_appcall() takes the datagram in
Receive(u, d) ==
  LET found == {s \in Slots : Hears(u, s, d)}
      s == Min(found)
      o == u.conns[s].app
      data == SubSeq(d.data, 1, Smaller(Len(d.data), BufSize))
      a == u.app[o]
      alone == a.in_size = 0
  IN  IF found = {} THEN u
      ELSE [Store(u, 0, data, <<"in", o>>) EXCEPT
              !.conns[s] = [@ EXCEPT !.rip = d.from],
              !.app[o] = [a EXCEPT !.in_size = @ + Len(data), !.packet_in = TRUE],
              !.cur[o] = [from |-> d.from, data |-> data, read |-> << >>, alone |-> alone,
                          clean |-> alone /\ a.in_pos = 0]]

\* A poll of the connection of o, which has a packet to send: _send().  A frame as long as an
\* ARP packet is taken for one, and its packet stays to be sent.
HasPacket(u, o) == u.slot[o] # 0 /\ u.app[o].send /\ u.app[o].out_pos > 0
Transmit(u, o) ==
  LET p == u.out[o]
      done == u.app[o].out_pos # ArpPayload
  IN  [u EXCEPT !.app[o] = [@ EXCEPT !.send = ~done, !.packet_out = ~done],
                !.out[o] = [p EXCEPT !.times = Smaller(@ + 1, 2), !.arp = p.arp \/ ~done]]

\* uip_process(UIP_UDP_TIMER) for the connection of o, and for every connection: each poll
\* looks at and changes what is its own object's only
Poll(u, o) == IF HasPacket(u, o) THEN Transmit(u, o) ELSE u
PollAll(u) == [u EXCEPT !.app = [o \in Objects |-> Poll(u, o).app[o]],
                        !.out = [o \in Objects |-> Poll(u, o).out[o]]]

\* d is Nothing when no datagram has come
Tick(u, d) == PollAll(IF d = Nothing THEN u ELSE Receive(u, d))

-----------------------------------------------------------------------------
(* The calls of RF24UDP, and whether they succeed.                         *)

\* uip_udp_new(): the first unused entry of the table and a local port nobody has
Free(u) == {s \in Slots : u.conns[s].lport = 0}
New(u, o, rip) ==
  IF Free(u) = {} THEN u
  ELSE LET s == Min(Free(u)) IN
       [u EXCEPT !.conns[s] = [lport |-> 0 - s, rip |-> rip, app |-> o], !.slot[o] = s]

Begin(u, o, port) ==
  LET v == IF u.slot[o] = 0 THEN New(u, o, Anyone) ELSE u
  IN  IF v.slot[o] = 0 THEN u ELSE [v EXCEPT !.conns[v.slot[o]].lport = port]

Stop(u, o) ==
  IF u.slot[o] = 0 THEN u
  ELSE [u EXCEPT !.conns[u.slot[o]] = [@ EXCEPT !.lport = 0, !.app = 0],
                 !.slot[o] = 0, !.app[o] = Cleared, !.cur[o] = Unheard, !.out[o] = Unwritten]

\* beginPacket() after its tick: the connection turns to p, or a new one does
MayBeginPacket(u, o) == (u.slot[o] # 0 \/ Free(u) # {}) /\ ~u.app[o].packet_out
Aimed(u, o, p) == IF u.slot[o] = 0 THEN New(u, o, p) ELSE [u EXCEPT !.conns[u.slot[o]].rip = p]
BeginPacket(u, o, p) ==
  IF MayBeginPacket(u, o)
  THEN [Aimed(u, o, p) EXCEPT !.app[o] = [@ EXCEPT !.packet_out = TRUE, !.out_pos = 0],
                              !.cur[o] = [@ EXCEPT !.from = Anyone],
                              !.out[o] = [Unwritten EXCEPT !.to = p]]
  ELSE [Aimed(u, o, p) EXCEPT !.cur[o] = [@ EXCEPT !.from = Anyone],
                              !.out[o] = [@ EXCEPT !.to = p]]

\* nobody else has put anything into myData since o began to write to it
Undisturbed(u, o) == u.out[o].data = << >> \/ u.holder = <<"out", o>>

\* The sketch does not write more than myData holds.
Fits(u, o, data) == u.app[o].out_pos + Len(data) <= BufSize
Write(u, o, data) ==
  LET p == u.out[o]
      pos == u.app[o].out_pos
  IN  IF ~u.app[o].packet_out THEN u
      ELSE [Store(u, pos, data, <<"out", o>>) EXCEPT
              !.app[o] = [@ EXCEPT !.out_pos = pos + Len(data)],
              !.out[o] = [p EXCEPT !.data = @ \o data, !.clean = p.clean /\ Undisturbed(u, o)]]

\* endPacket() polls the connection: nothing is sent, and 0 returned, for an empty packet
EndPacket(u, o) ==
  IF u.slot[o] = 0 \/ ~u.app[o].packet_out THEN u
  ELSE Poll([u EXCEPT !.app[o].send = TRUE], o)

\* A mutant of Given: reads from the start of the array.
Given_FromStart(u, o, n) ==
  IF ~u.app[o].packet_in THEN << >> ELSE From(u, 0, Smaller(n, u.app[o].in_size))

\* what read() puts into the sketch's buffer, for a request of n units
Given(u, o, n) ==
  LET a == u.app[o] IN
  IF ~a.packet_in THEN << >> ELSE From(u, a.in_pos, Smaller(n, a.in_size))
Read(u, o, n) ==
  LET got == Given(u, o, n)
      a == u.app[o]
  IN  IF ~a.packet_in THEN u
      ELSE [u EXCEPT !.app[o] = [a EXCEPT !.in_pos = @ + Len(got), !.in_size = @ - Len(got),
                                          !.packet_in = a.in_size - Len(got) >= 1],
                     !.cur[o] = [@ EXCEPT !.read = u.cur[o].read \o got]]

\* peek(), after its tick
Peek(u, o) == IF u.app[o].packet_in THEN From(u, u.app[o].in_pos, 1) ELSE << >>

Flush(u, o) == [u EXCEPT !.app[o] = [@ EXCEPT !.packet_in = FALSE, !.in_size = 0]]

RemoteIP(u, o) == IF u.slot[o] = 0 THEN Anyone ELSE u.conns[u.slot[o]].rip

-----------------------------------------------------------------------------
(* The sketch and the network: any call, and any datagram to a port in use. *)

Datagrams(u) ==
  {Nothing} \cup
  (IF u.ins = MaxIn \/ u.ins + u.outs >= MaxAll THEN {}
   ELSE {[from |-> p, port |-> u.conns[s].lport,
          data |-> Units(u.ins + 1, n)] :
            p \in Peers, s \in {t \in Slots : u.conns[t].lport # 0}, n \in Sizes})

Counted(u, d) == IF d = Nothing THEN u ELSE [u EXCEPT !.ins = @ + 1]

\* parsePacket(), available(), peek(), or any other call that only runs tick()
DoTick == \E d \in Datagrams(udp) : udp' = Tick(Counted(udp, d), d)
DoBegin == \E o \in Objects, port \in Ports : udp' = Begin(udp, o, port)
DoStop == \E o \in Objects : udp' = Stop(udp, o)
DoBeginPacket ==
  \E o \in Objects, p \in Peers, d \in Datagrams([udp EXCEPT !.outs = @ + 1]) :
    /\ udp.outs < MaxOut /\ udp.ins + udp.outs < MaxAll
    /\ udp' = BeginPacket(Tick(Counted([udp EXCEPT !.outs = @ + 1], d), d), o, p)
DoWrite ==
  \E o \in Objects :
    LET data == << <<"out", udp.outs, udp.app[o].out_pos + 1>> >> IN
    udp.app[o].packet_out /\ Fits(udp, o, data) /\ udp' = Write(udp, o, data)
DoEndPacket == \E o \in Objects : udp' = EndPacket(udp, o)
DoRead == \E o \in Objects, n \in 1 .. BufSize : udp.app[o].packet_in /\ udp' = Read(udp, o, n)
DoFlush == \E o \in Objects : udp' = Flush(udp, o)

Next == \/ DoTick \/ DoBegin \/ DoStop \/ DoBeginPacket \/ DoWrite \/ DoEndPacket
        \/ DoRead \/ DoFlush

Spec == Init /\ [][Next]_udp

-----------------------------------------------------------------------------
(* What RF24UDP promises.                                                  *)

\* The state keeps its type, and the table and the objects agree: an entry in use is the
\* entry of the object it calls back, and no entry is in use that no object can release.
TypeOK ==
  /\ \A o \in Objects :
       /\ udp.slot[o] \in 0 .. UdpConns
       /\ udp.app[o] \in [packet_in : BOOLEAN, packet_out : BOOLEAN, send : BOOLEAN,
                          in_size : 0 .. MaxIn * BufSize, in_pos : 0 .. MaxIn * BufSize,
                          out_pos : 0 .. BufSize]
       /\ udp.slot[o] # 0 => udp.conns[udp.slot[o]].app = o
  /\ \A s \in Slots :
       LET c == udp.conns[s] IN
       c.lport # 0 => c.app \in Objects /\ udp.slot[c.app] = s /\ c.rip \in Peers \cup {Anyone}

\* read() (RF24Udp.cpp:498) gives the sketch the current packet, and peek() shows what comes next
\* of it: what was read since a datagram came, and the next unit, is how that datagram begins - as
\* long as nothing of an earlier one had been read or was left, and myData was not used by another
\* packet in between.  Of an empty datagram nothing is read, but peek() shows what was in the array.
ReadsFirst ==
  \A o \in Objects : LET c == udp.cur[o]
                         next == IF c.data = << >> THEN << >> ELSE Peek(udp, o)
    IN  c.clean /\ udp.holder = <<"in", o>> => IsPrefix(c.read \o next, c.data)

\* "Read up to len bytes from the current packet" (RF24Udp.cpp:481), for a sketch with one
\* socket that writes no packets and reads each one to its end before the next comes.
ReadsCurrent ==
  \A o \in Objects : LET c == udp.cur[o] IN
    /\ c.alone
    /\ \A x \in Objects \ {o} : udp.cur[x].data = << >>
    /\ \A i \in 1 .. BufSize : udp.myData[i][1] # "out"
    => IsPrefix(c.read, c.data)

\* What endPacket() and the polls after it (RF24Udp.cpp:333, :702) send is what the sketch
\* wrote since beginPacket(), to the remote end it named - unless a datagram or another
\* object's packet was put into the array the packet is kept in.
SendsWritten ==
  \A o \in Objects : LET p == udp.out[o] IN
    udp.app[o].packet_out =>
      /\ RemoteIP(udp, o) = p.to
      /\ p.clean /\ Undisturbed(udp, o) => p.data = From(udp, 0, udp.app[o].out_pos)

\* A packet is sent once, as _send() (RF24Udp.cpp:705) forgets it, unless a frame of it was as
\* long as an ARP packet: then the polls repeat it, with what was written since.
SentOnce == \A o \in Objects : udp.out[o].times > 1 => udp.out[o].arp

\* remoteIP() (RF24Udp.cpp:566) names who sent the packet the sketch is reading, unless the
\* sketch has begun a packet of its own since it came.
RemoteIsSender ==
  \A o \in Objects : LET c == udp.cur[o] IN
    udp.app[o].in_size > 0 /\ c.from # Anyone => RemoteIP(udp, o) = c.from
=============================================================================
