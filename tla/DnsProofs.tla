----------------------------- MODULE DnsProofs ------------------------------
(***************************************************************************)
(* A lookup gives its socket back, however it ends, and keeps it when it   *)
(* hangs, whatever the names, the answers, where they are cut and the      *)
(* sizes, and whether int has 16 bits or 32.                               *)
(*                                                                         *)
(* GivesBack is inductive but for what the calls of RF24UDP do to the      *)
(* table: none of them takes the socket of the lookup away or gives it     *)
(* one, but for its own begin() and stop().                                *)
(***************************************************************************)
EXTENDS Dns, TLAPS

Fields == {"conns", "slot", "app", "myData", "holder", "cur", "out", "ins", "outs"}

\* The state of the sockets has its parts, and every object its place in the table or none.
Shaped(u) == Fields \subseteq DOMAIN u /\ DOMAIN u.slot = Objects

\* From u to v no object gets or loses its place; the lookup's object does not.
Same(u, v) == Shaped(v) /\ v.slot = u.slot
Stays(u, v) == Shaped(v) /\ v.slot[Client] = u.slot[Client]

Control(d) == {"pc", "waits", "result", "name", "caller", "id", "message"} \subseteq DOMAIN d

DnsInv == Shaped(udp) /\ Control(dns) /\ GivesBack

LEMMA Sockets == Client \in Objects /\ Sketch \in Objects /\ Filler \in Objects /\ Client # Sketch /\ Client # Filler
BY DnsAssumption

-----------------------------------------------------------------------------
(* What the calls of RF24UDP do to the table.                              *)

LEMMA Chain ==
  ASSUME NEW u, NEW v, NEW w, Same(u, v), Same(v, w)
  PROVE  Same(u, w)
BY DEF Same

LEMMA SetsApp == ASSUME NEW u, Shaped(u), NEW x PROVE Same(u, [u EXCEPT !.app = x])
BY DEF Shaped, Same, Fields
LEMMA SetsOut == ASSUME NEW u, Shaped(u), NEW x PROVE Same(u, [u EXCEPT !.out = x])
BY DEF Shaped, Same, Fields
LEMMA SetsCur == ASSUME NEW u, Shaped(u), NEW x PROVE Same(u, [u EXCEPT !.cur = x])
BY DEF Shaped, Same, Fields
LEMMA SetsConns == ASSUME NEW u, Shaped(u), NEW x PROVE Same(u, [u EXCEPT !.conns = x])
BY DEF Shaped, Same, Fields
LEMMA SetsIns == ASSUME NEW u, Shaped(u), NEW x PROVE Same(u, [u EXCEPT !.ins = x])
BY DEF Shaped, Same, Fields

LEMMA StoreSame ==
  ASSUME NEW u, Shaped(u), NEW pos, NEW data, NEW holder
  PROVE  Same(u, Store(u, pos, data, holder))
BY DEF Shaped, Same, Fields, Store

LEMMA ReceiveSame ==
  ASSUME NEW u, Shaped(u), NEW d
  PROVE  Same(u, Receive(u, d))
<1> DEFINE found == {s \in Slots : Hears(u, s, d)}
           s == Min(found)
           o == u.conns[s].app
           data == SubSeq(d.data, 1, Smaller(Len(d.data), BufSize))
           a == u.app[o]
           alone == a.in_size = 0
           v == Store(u, 0, data, <<"in", o>>)
           w == [v EXCEPT !.conns[s] = [@ EXCEPT !.rip = d.from],
                          !.app[o] = [a EXCEPT !.in_size = @ + Len(data), !.packet_in = TRUE],
                          !.cur[o] = [from |-> d.from, data |-> data, read |-> << >>, alone |-> alone,
                                      clean |-> alone /\ a.in_pos = 0]]
<1>1. Receive(u, d) = IF found = {} THEN u ELSE w
  BY DEF Receive
<1>2. Same(u, v)
  BY StoreSame, Zenon
<1> HIDE DEF v, s, o, data, a, alone
<1>3. Same(v, w)
  BY <1>2 DEF Same, Shaped, Fields
<1> HIDE DEF w, found
<1>4. Same(u, u) /\ Same(u, w)
  BY <1>2, <1>3 DEF Same
<1> QED BY <1>1, <1>4

LEMMA TickSame ==
  ASSUME NEW u, Shaped(u), NEW d, NEW e
  PROVE  Same(u, Tick(Counted(u, d), e))
<1> DEFINE c == Counted(u, d)
           r == IF e = Nothing THEN c ELSE Receive(c, e)
<1>1. Same(u, c)
  BY SetsIns DEF Counted, Same
<1> HIDE DEF c
<1>2. Same(u, r)
  BY <1>1, ReceiveSame, Chain, Zenon DEF Same
<1> HIDE DEF r
<1>3. Same(r, PollAll(r))
  BY <1>2 DEF PollAll, Same, Shaped, Fields
<1>4. Same(u, PollAll(r))
  BY <1>2, <1>3, Chain, Zenon
<1> QED BY <1>4 DEF Tick, r, c

LEMMA PollSame ==
  ASSUME NEW u, Shaped(u), NEW o
  PROVE  Same(u, Poll(u, o))
BY DEF Poll, Transmit, Same, Shaped, Fields

LEMMA WriteSame ==
  ASSUME NEW u, Shaped(u), NEW o, NEW data
  PROVE  Same(u, Write(u, o, data))
<1> DEFINE pos == u.app[o].out_pos
           p == u.out[o]
           v == Store(u, pos, data, <<"out", o>>)
           w == [v EXCEPT !.app[o] = [@ EXCEPT !.out_pos = pos + Len(data)],
                          !.out[o] = [p EXCEPT !.data = @ \o data, !.clean = p.clean /\ Undisturbed(u, o)]]
<1>1. Write(u, o, data) = IF ~u.app[o].packet_out THEN u ELSE w
  BY DEF Write
<1>2. Same(u, v)
  BY StoreSame, Zenon
<1> HIDE DEF v, pos, p
<1>3. Same(v, w)
  BY <1>2 DEF Same, Shaped, Fields
<1> HIDE DEF w
<1>4. Same(u, u) /\ Same(u, w)
  BY <1>2, <1>3 DEF Same
<1> QED BY <1>1, <1>4

LEMMA ReadSame ==
  ASSUME NEW u, Shaped(u), NEW o, NEW n
  PROVE  Same(u, Read(u, o, n))
<1> DEFINE got == Given(u, o, n)
           a == u.app[o]
<1>1. ASSUME NEW x, NEW y
      PROVE  Same(u, [u EXCEPT !.app[o] = x, !.cur[o] = y])
  BY DEF Same, Shaped, Fields
<1>2. Same(u, u)
  BY DEF Same
<1> QED BY <1>1, <1>2 DEF Read

LEMMA EndPacketSame ==
  ASSUME NEW u, Shaped(u), NEW o
  PROVE  Same(u, EndPacket(u, o))
<1> DEFINE v == [u EXCEPT !.app[o].send = TRUE]
<1>1. Same(u, v)
  BY DEF Same, Shaped, Fields
<1>2. EndPacket(u, o) = IF u.slot[o] = 0 \/ ~u.app[o].packet_out THEN u ELSE Poll(v, o)
  BY DEF EndPacket
<1> HIDE DEF v
<1>3. Same(v, Poll(v, o))
  BY <1>1, PollSame, Zenon DEF Same
<1>4. Same(u, u)
  BY DEF Same
<1> QED BY <1>1, <1>2, <1>3, <1>4, Chain, Zenon

\* uip_udp_new() changes the place of o only.
LEMMA NewStays ==
  ASSUME NEW u, Shaped(u), NEW o, o # Client, NEW rip
  PROVE  Stays(u, New(u, o, rip))
BY Sockets DEF New, Stays, Shaped, Fields

LEMMA NewShaped ==
  ASSUME NEW u, Shaped(u), NEW o, NEW rip
  PROVE  Shaped(New(u, o, rip))
BY DEF New, Shaped, Fields

LEMMA BeginShaped ==
  ASSUME NEW u, Shaped(u), NEW o, NEW port
  PROVE  Shaped(Begin(u, o, port)) /\ (o # Client => Stays(u, Begin(u, o, port)))
<1> DEFINE v == IF u.slot[o] = 0 THEN New(u, o, Anyone) ELSE u
           w == [v EXCEPT !.conns[v.slot[o]].lport = port]
<1>1. Begin(u, o, port) = IF v.slot[o] = 0 THEN u ELSE w
  BY DEF Begin
<1>2. Shaped(v) /\ (o # Client => Stays(u, v))
  BY NewStays, NewShaped DEF Stays
<1> HIDE DEF v
<1>3. Same(v, w)
  BY <1>2 DEF Same, Shaped, Fields
<1> HIDE DEF w
<1> QED BY <1>1, <1>2, <1>3 DEF Same, Stays

\* stop() of the lookup's object gives its place back.
LEMMA StopGivesBack ==
  ASSUME NEW u, Shaped(u)
  PROVE  Shaped(Stop(u, Client)) /\ Stop(u, Client).slot[Client] = 0
BY Sockets DEF Stop, Shaped, Fields

\* beginPacket() of the lookup, which has a place, and of others.
LEMMA BeginPacketStays ==
  ASSUME NEW u, Shaped(u), NEW o, NEW p, o # Client \/ u.slot[o] # 0
  PROVE  Stays(u, BeginPacket(u, o, p))
<1> DEFINE v == Aimed(u, o, p)
<1>1. Stays(u, v)
  <2>1. CASE u.slot[o] = 0
    BY <2>1, NewStays DEF Aimed
  <2>2. CASE u.slot[o] # 0
    BY <2>2, SetsConns DEF Aimed, Stays, Same, Shaped, Fields
  <2> QED BY <2>1, <2>2
<1>2. ASSUME NEW x, NEW y, NEW z
      PROVE  /\ Same(v, [v EXCEPT !.app[o] = x, !.cur[o] = y, !.out[o] = z])
             /\ Same(v, [v EXCEPT !.cur[o] = y, !.out[o] = z])
  <2> HIDE DEF v
  <2> QED BY <1>1, SMTT(40) DEF Same, Stays, Shaped, Fields
<1>3. Same(v, BeginPacket(u, o, p))
  <2> HIDE DEF v
  <2> QED BY <1>2 DEF BeginPacket, v
<1> HIDE DEF v
<1> QED BY <1>1, <1>3 DEF Same, Stays

-----------------------------------------------------------------------------
(* The steps of a lookup.                                                  *)

LEMMA Starts == DnsInit => DnsInv
<1> SUFFICES ASSUME DnsInit PROVE DnsInv
  OBVIOUS
<1> DEFINE listening == Begin(Start, Sketch, 1)
<1>1. Shaped(Start) /\ Start.slot[Client] = 0
  BY Sockets DEF Start, Shaped, Fields
<1>2. Stays(Start, listening)
  BY <1>1, Sockets, BeginShaped
<1> HIDE DEF listening
<1>3. Stays(listening, Begin(listening, Filler, 3))
  BY <1>2, Sockets, BeginShaped DEF Stays
<1>4. udp \in {Start, listening, Begin(listening, Filler, 3)} /\ dns = Idle
  BY DEF DnsInit, listening
<1>5. Shaped(udp) /\ udp.slot[Client] = 0
  BY <1>1, <1>2, <1>3, <1>4 DEF Stays
<1>6. Control(dns) /\ dns.pc = "idle" /\ dns.waits = 0
  BY <1>4 DEF Idle, Control
<1> QED BY <1>5, <1>6 DEF DnsInv, GivesBack, Waits

\* The lookup ends, and its socket is stopped.
LEMMA EndsWell ==
  ASSUME DnsInv, NEW u, Shaped(u), NEW r, Ends(u, r)
  PROVE  DnsInv'
<1>1. Shaped(udp') /\ udp'.slot[Client] = 0
  BY StopGivesBack DEF Ends
<1>2. Control(dns') /\ dns'.pc = "done" /\ dns'.waits = dns.waits
  BY DEF Ends, DnsInv, Control
<1> QED BY <1>1, <1>2 DEF DnsInv, GivesBack

\* The lookup hangs, and keeps its socket.
LEMMA HangsWell ==
  ASSUME DnsInv, NEW u, Shaped(u), u.slot[Client] # 0, NEW n, Hangs(u, n)
  PROVE  DnsInv'
<1>1. Same(u, udp')
  BY ReadSame DEF Hangs
<1>2. Control(dns') /\ dns'.pc = "endless" /\ dns'.waits = dns.waits
  BY DEF Hangs, DnsInv, Control
<1> QED BY <1>1, <1>2 DEF DnsInv, GivesBack, Same

LEMMA LookupKeeps ==
  ASSUME DnsInv, NEW name, NEW caller, Lookup(name, caller)
  PROVE  DnsInv'
<1> DEFINE now == [Idle EXCEPT !.pc = "done", !.caller = caller, !.name = name]
           ended(r) == [now EXCEPT !.result = r]
           asks == [now EXCEPT !.pc = "ask"]
<1>1. /\ Control(now) /\ now.pc = "done" /\ now.waits = 0
      /\ Control(asks) /\ asks.pc = "ask" /\ asks.waits = 0
  BY DEF Idle, Control
<1>2. ASSUME NEW r PROVE Control(ended(r)) /\ ended(r).pc = "done" /\ ended(r).waits = 0
  BY DEF Idle, Control
<1>3. dns.pc = "idle" /\ udp.slot[Client] = 0 /\ Shaped(udp)
  BY DEF Lookup, DnsInv, GivesBack
<1>4. \/ \E r : dns' = ended(r) /\ udp' = udp
      \/ \E port \in Ports : /\ udp' = Begin(udp, Client, port)
                             /\ dns' = IF udp'.slot[Client] = 0 THEN now ELSE asks
  BY Zenon DEF Lookup
<1> HIDE DEF now, ended, asks
<1>5. CASE \E r : dns' = ended(r) /\ udp' = udp
  BY <1>2, <1>3, <1>5 DEF DnsInv, GivesBack, Waits
<1>6. CASE \E port \in Ports : /\ udp' = Begin(udp, Client, port)
                                /\ dns' = IF udp'.slot[Client] = 0 THEN now ELSE asks
  <2>1. Shaped(udp')
    BY <1>3, <1>6, BeginShaped
  <2> QED BY <1>1, <1>6, <2>1 DEF DnsInv, GivesBack, Waits
<1> QED BY <1>4, <1>5, <1>6, Zenon

LEMMA AskKeeps ==
  ASSUME DnsInv, NEW d, Ask(d)
  PROVE  DnsInv'
<1> DEFINE t == Tick(Counted(udp, d), d)
           begun == BeginPacket(t, Client, Server)
           id == Cardinality(requests) + 1
           w == Write(begun, Client, Request(id, dns.name))
<1>1. /\ dns.pc = "ask" /\ udp' = EndPacket(w, Client)
      /\ dns' = [dns EXCEPT !.pc = "wait", !.id = id, !.waits = 1]
  BY DEF Ask
<1>2. Shaped(udp) /\ udp.slot[Client] # 0 /\ Control(dns)
  BY <1>1 DEF DnsInv, GivesBack
<1>3. Shaped(t) /\ t.slot[Client] # 0
  BY <1>2, TickSame DEF Same
<1> HIDE DEF t, id
<1>4. Shaped(begun) /\ begun.slot[Client] # 0
  BY <1>3, BeginPacketStays DEF Stays
<1> HIDE DEF begun
<1>5. Shaped(w) /\ w.slot[Client] # 0
  BY <1>4, WriteSame DEF Same
<1> HIDE DEF w
<1>6. Shaped(udp') /\ udp'.slot[Client] # 0
  BY <1>1, <1>5, EndPacketSame DEF Same
<1>7. Control(dns') /\ dns'.pc = "wait" /\ dns'.waits = 1
  BY <1>1, <1>2 DEF Control
<1> QED BY <1>6, <1>7 DEF DnsInv, GivesBack, Waits

LEMMA ProcessResponseKeeps ==
  ASSUME DnsInv, NEW d, NEW e, ProcessResponse(d, e)
  PROVE  DnsInv'
<1> DEFINE t == Tick(Counted(udp, d), d)
           v == Tick(Counted(t, e), e)
<1>1. /\ \/ udp' = t /\ dns' = dns
         \/ \E r : Ends(t, r)
         \/ \E r : Ends(v, r)
         \/ \E n : Hangs(v, n)
      /\ dns.pc = "wait"
  BY Zenon DEF ProcessResponse
<1>2. Shaped(udp) /\ udp.slot[Client] # 0
  BY <1>1 DEF DnsInv, GivesBack
<1>3. Same(udp, t)
  BY <1>2, TickSame
<1> HIDE DEF t
<1>4. Shaped(v) /\ v.slot[Client] # 0
  BY <1>2, <1>3, TickSame DEF Same
<1> HIDE DEF v
<1>5. CASE udp' = t /\ dns' = dns
  BY <1>3, <1>5 DEF DnsInv, GivesBack, Same
<1>6. CASE \E r : Ends(t, r)
  BY <1>3, <1>6, EndsWell DEF Same
<1>7. CASE \E r : Ends(v, r)
  BY <1>4, <1>7, EndsWell
<1>8. CASE \E n : Hangs(v, n)
  BY <1>4, <1>8, HangsWell
<1> QED BY <1>1, <1>5, <1>6, <1>7, <1>8, Zenon

LEMMA TimeOutKeeps ==
  ASSUME DnsInv, TimeOut
  PROVE  DnsInv'
<1>1. CASE dns.waits < Waits /\ dns' = [dns EXCEPT !.waits = @ + 1] /\ udp' = udp
  <2>1. Control(dns') /\ dns'.pc = dns.pc /\ dns'.waits = dns.waits + 1
    BY <1>1 DEF DnsInv, Control
  <2> QED BY <1>1, <2>1 DEF DnsInv, GivesBack, Waits
<1>2. CASE Ends(udp, Returned(Fail(TIMED_OUT)))
  BY <1>2, EndsWell DEF DnsInv
<1> QED BY <1>1, <1>2, Zenon DEF TimeOut

LEMMA ReturnKeeps ==
  ASSUME DnsInv, NEW d, Return(d)
  PROVE  DnsInv'
<1> DEFINE t == Tick(Counted(udp, d), d)
<1>1. /\ dns.pc = "done" /\ dns' = Idle
      /\ udp' = udp \/ udp' = BeginPacket(t, Sketch, Other)
  BY DEF Return
<1>2. Shaped(udp) /\ udp.slot[Client] = 0
  BY <1>1 DEF DnsInv, GivesBack
<1>3. Same(udp, t)
  BY <1>2, TickSame
<1> HIDE DEF t
<1>4. Stays(t, BeginPacket(t, Sketch, Other))
  BY <1>3, Sockets, BeginPacketStays DEF Same
<1>5. Shaped(udp') /\ udp'.slot[Client] = 0
  BY <1>1, <1>2, <1>3, <1>4 DEF Same, Stays
<1>6. Control(dns') /\ dns'.pc = "idle" /\ dns'.waits = 0
  BY <1>1 DEF Idle, Control
<1> QED BY <1>5, <1>6 DEF DnsInv, GivesBack, Waits

LEMMA SketchSendsKeeps ==
  ASSUME DnsInv, SketchSends
  PROVE  DnsInv'
<1> DEFINE w == Write(udp, Sketch, << <<"out">> >>)
<1>1. udp' = EndPacket(w, Sketch) /\ dns' = dns
  BY DEF SketchSends
<1>2. Same(udp, w)
  BY WriteSame DEF DnsInv
<1> HIDE DEF w
<1>3. Same(w, udp')
  BY <1>1, <1>2, EndPacketSame DEF Same
<1> QED BY <1>1, <1>2, <1>3 DEF DnsInv, GivesBack, Same

(* However a lookup ends - an answer, an error, an answer of somebody else,
   or none in time - its socket goes back to the table, and it has a socket
   as long as it asks and waits, or hangs in a message that ends too soon
   (Dns.cpp:162). *)
THEOREM LookupGivesBack == DnsSpec => []GivesBack
<1>1. DnsInv /\ [DnsNext]_dnsVars => DnsInv'
  <2> SUFFICES ASSUME DnsInv, [DnsNext]_dnsVars PROVE DnsInv'
    OBVIOUS
  <2>1. CASE DnsNext
    BY <2>1, LookupKeeps, AskKeeps, ProcessResponseKeeps, TimeOutKeeps, ReturnKeeps, SketchSendsKeeps,
       Zenon DEF DnsNext
  <2>2. CASE UNCHANGED dnsVars
    BY <2>2 DEF dnsVars, DnsInv, GivesBack
  <2> QED BY <2>1, <2>2
<1>2. DnsInv => GivesBack
  BY DEF DnsInv
<1> QED BY Starts, <1>1, <1>2, PTL DEF DnsSpec
=============================================================================
