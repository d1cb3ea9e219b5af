-------------------------------- MODULE Dns ---------------------------------
(***************************************************************************)
(* Name lookups in the uIP build: DNSClient of Dns.cpp and its callers,    *)
(* RF24Client::connect(host) and RF24UDP::beginPacket(host), over the UDP  *)
(* sockets of UipUdp and a server whose answers are late, repeated or lost.*)
(*                                                                         *)
(* A lookup opens a socket of its own in the table, and its request and    *)
(* the answer share myData with the sketch's socket.  tick() runs at the   *)
(* start of beginPacket(), parsePacket() and available(): in between, the  *)
(* steps of a lookup are one step here.                                    *)
(*                                                                         *)
(* A message is a row of parts: two for the header, then labels, the end   *)
(* of a name or a pointer, a type and its data.  A name is a row of        *)
(* labels, a label a row of characters, a character its distance to '0'.   *)
(***************************************************************************)
EXTENDS UipUdp

CONSTANTS
  Client, Sketch, Filler, \* of Objects: iUdp of the lookup, the sketch's, one more
  Names,        \* what the sketch looks up
  Server,       \* iDNSServer with DNS_PORT, one of Peers
  Other,        \* the remote end the sketch exchanges packets with
  Answers,      \* the answers the server gives: the types of their rows, or an error
  Cuts,         \* where a message may end before its time, sent so or too long for some link, in parts
  MaxLookups

ASSUME DnsAssumption ==
  /\ {Client, Sketch, Filler} \subseteq Objects /\ Client \notin {Sketch, Filler}

VARIABLES
  dns,          \* the lookup: where it is, and its members
  requests,     \* history: the requests sent
  wide,         \* int has 32 bits, not 16
  hasServer     \* an address for the server is set

dnsVars == <<udp, dns, requests, wide, hasServer>>

TIMED_OUT == -1
INVALID_SERVER == -2
TRUNCATED == -3
INVALID_RESPONSE == -4
HeaderSize == 2 \* DNS_HEADER_SIZE, in parts
Waits == 3
NoAddress == <<>>
Garbage == << -1 >>

-----------------------------------------------------------------------------
(* Numeric names.                                                          *)

Wrap(v) == IF wide THEN v ELSE ((v + 32768) % 65536) - 32768
Value(label) == FoldLeft(LAMBDA v, c : Wrap(v * 10 + c), 0, label)

\* inet_aton(): its test for digits is always true, so that any name is numeric whose labels
\* come out at 255 at most, as an int
IsNumeric(name) == Len(name) <= 4 /\ \A i \in 1 .. Len(name) : Value(name[i]) <= 255
Numeric(name) == [i \in 1 .. Len(name) |-> Value(name[i]) % 256]

\* A row of decimal digits, and the number it is
IsDecimal(label) == Len(label) \in 1 .. 3 /\ \A i \in 1 .. Len(label) : label[i] \in 0 .. 9
Decimal(label) == FoldLeft(LAMBDA v, c : v * 10 + c, 0, label)

-----------------------------------------------------------------------------
(* Messages.                                                               *)

Address(name) == <<"address", name>>
Request(id, name) ==
  << <<"header", id, FALSE, FALSE>>, <<"counts", 1, 0>>, <<"labels", name>>, <<"end">>, <<"question">> >>

\* An answer of the server: an error, or rows of a type and its data; the name is a pointer
Row(q, type) == << <<"pointer">>, <<"type", type>>, <<"data", IF type = "A" THEN Address(q.name) ELSE Garbage>> >>
Reply(q, rows) ==
  << <<"header", q.id, TRUE, rows = <<"error">> >>, <<"counts", 1, Len(rows)>>,
     <<"labels", q.name>>, <<"end">>, <<"question">> >>
  \o (IF rows = <<"error">> THEN << >>
      ELSE FlattenSeq([j \in 1 .. Len(rows) |-> Row(q, rows[j])]))

Fail(code) == [ret |-> code, addr |-> NoAddress]
Found(addr) == [ret |-> 1, addr |-> addr]
Endless == Fail(0) \* no code of ProcessResponse(), which does not return

\* The answers from part i on, k of n of them to go: the first address counts.  Behind the end
\* of the message read() leaves type and address as they are, which is to say undefined, and in
\* header_flags the length of the row before, or the header's flags, which are not 4.
Walk(s, n) ==
  LET IsType(i, type) == s[i][1] = "type" /\ s[i][2] = type
      f[k \in 0 .. n] ==
        LET i == HeaderSize + 5 + 3 * (n - k) IN
        IF k = 0 THEN {Fail(-10)}
        ELSE IF i > Len(s) THEN {Fail(-9), Fail(-10)} \cup (IF k < n THEN {Found(Garbage)} ELSE {})
        ELSE IF IsType(i, "A of another length") THEN {Fail(-9)}
        ELSE IF ~IsType(i, "A") THEN f[k - 1]
        ELSE IF i = Len(s) \/ s[i + 1][1] # "data" THEN {Found(Garbage)}
        ELSE {Found(s[i + 1][2])}
  IN  f[n]

\* The name of the question: a label's length counts down to 255, so that the loop goes on with
\* the next length until one is 0.  Behind the end of the message read() leaves it 255, for ever
\* (Dns.cpp:318-331), or, when not even a label was read, undefined.
NameEnds(s) == \E i \in HeaderSize + 1 .. Len(s) : s[i] = <<"end">>
Skip(s) == IF NameEnds(s) THEN Walk(s, s[2][3])
           ELSE {Endless} \cup (IF Len(s) = HeaderSize THEN Walk(s, s[2][3]) ELSE {})

\* A mutant of Parse: takes an answer to any request.
Parse_AnyId(s, id) ==
  IF Len(s) < HeaderSize THEN {Fail(TRUNCATED)}
  ELSE IF s[1][1] # "header" \/ ~s[1][3] \/ s[1][4] THEN {Fail(INVALID_RESPONSE)}
  ELSE IF s[2][3] = 0 THEN {Fail(-6)}
  ELSE Skip(s)

\* ProcessResponse() from the header on, s being what read() will give
Parse(s, id) ==
  IF Len(s) < HeaderSize THEN {Fail(TRUNCATED)}
  ELSE IF s[1][1] # "header" \/ s[1][2] # id \/ ~s[1][3] THEN {Fail(INVALID_RESPONSE)}
  ELSE IF s[1][4] THEN {Fail(-5)}
  ELSE IF s[2][3] = 0 THEN {Fail(-6)}
  ELSE Skip(s)

\* ProcessResponse() returns a uint16_t, which a wide int takes for positive
AsInt(code) == IF wide THEN code % 65536 ELSE code
Returned(r) == [r EXCEPT !.ret = AsInt(@)]

-----------------------------------------------------------------------------
\* message: history, the datagram getHostByName() has its result from, or hangs in
Idle == [pc |-> "idle", caller |-> "none", name |-> << >>, id |-> 0, waits |-> 0, result |-> Fail(0),
         message |-> << >>]

\* The sketch may listen, on port 1, and other sockets may leave no room in the table.
DnsInit ==
  /\ LET listening == Begin(Start, Sketch, 1)
     IN  udp \in {Start, listening, Begin(listening, Filler, 3)}
  /\ dns = Idle /\ requests = {}
  /\ wide \in BOOLEAN /\ hasServer \in BOOLEAN

\* What a tick may take in: an answer to any request there has been, or the beginning of one, or
\* a datagram for the sketch
Incoming(u) ==
  {Nothing} \cup
  (IF u.ins = MaxIn THEN {}
   ELSE {[from |-> Server, port |-> q.port, data |-> Reply(q, rows)] : q \in requests, rows \in Answers}
        \cup {[from |-> Server, port |-> q.port, data |-> SubSeq(Reply(q, rows), 1, n)] :
                q \in requests, rows \in Answers \cap {<<"A">>}, n \in Cuts}
        \cup {[from |-> Other, port |-> u.conns[s].lport, data |-> << <<"other">> >>] :
                s \in {u.slot[Sketch]} \ {0}})

\* A mutant of Ends: without iUdp.stop().
Ends_KeepsSocket(u, r) ==
  udp' = u /\ dns' = [dns EXCEPT !.pc = "done", !.result = r, !.message = u.cur[Client].data]

Ends(u, r) ==
  /\ udp' = Stop(u, Client)
  /\ dns' = [dns EXCEPT !.pc = "done", !.result = r, !.message = u.cur[Client].data]

\* ProcessResponse() reads on behind the end of the message, and nothing else runs any more.
Hangs(u, n) ==
  /\ udp' = Read(u, Client, n)
  /\ dns' = [dns EXCEPT !.pc = "endless", !.message = u.cur[Client].data]

\* getHostByName() as far as iUdp.begin()
Lookup(name, caller) ==
  LET now == [Idle EXCEPT !.pc = "done", !.caller = caller, !.name = name] IN
  /\ dns.pc = "idle" /\ Cardinality(requests) < MaxLookups
  /\ \/ /\ IsNumeric(name)
        /\ dns' = [now EXCEPT !.result = Found(Numeric(name))]
        /\ UNCHANGED udp
     \/ /\ ~IsNumeric(name) /\ ~hasServer
        /\ dns' = [now EXCEPT !.result = Fail(INVALID_SERVER)]
        /\ UNCHANGED udp
     \/ /\ ~IsNumeric(name) /\ hasServer
        /\ \E port \in Ports : udp' = Begin(udp, Client, port)
        /\ dns' = IF udp'.slot[Client] = 0 THEN now ELSE [now EXCEPT !.pc = "ask"]
  /\ UNCHANGED <<requests, wide, hasServer>>

\* beginPacket(), BuildRequest(), endPacket(); millis() gives the request a number of its own
Ask(d) ==
  LET id == Cardinality(requests) + 1 IN
  /\ dns.pc = "ask"
  /\ \E t \in {Tick(Counted(udp, d), d)} : \E begun \in {BeginPacket(t, Client, Server)} :
       udp' = EndPacket(Write(begun, Client, Request(id, dns.name)), Client)
  /\ requests' = requests \cup {[id |-> id, name |-> dns.name, port |-> udp.conns[udp.slot[Client]].lport]}
  /\ dns' = [dns EXCEPT !.pc = "wait", !.id = id, !.waits = 1]
  /\ UNCHANGED <<wide, hasServer>>

\* A round of ProcessResponse(): parsePacket() finds d and, when there is something, who is it
\* from, available() finds e, and the message
ProcessResponse(d, e) ==
  /\ dns.pc = "wait"
  /\ \E t \in {Tick(Counted(udp, d), d)} :
     \/ /\ t.app[Client].in_size <= 0 /\ e = Nothing
        /\ udp' = t /\ UNCHANGED dns
     \/ /\ t.app[Client].in_size > 0 /\ RemoteIP(t, Client) # Server /\ e = Nothing
        /\ Ends(t, Returned(Fail(INVALID_SERVER)))
     \/ /\ t.app[Client].in_size > 0 /\ RemoteIP(t, Client) = Server
        /\ e = Nothing \/ e \in Incoming(t)
        /\ \E u \in {Tick(Counted(t, e), e)} : \E n \in {u.app[Client].in_size} :
             \E r \in Parse(Given(u, Client, n), dns.id) :
               IF r = Endless THEN Hangs(u, n) ELSE Ends(u, Returned(r))
  /\ UNCHANGED <<requests, wide, hasServer>>

\* A mutant of TimeOut: the waits are not counted.
TimeOut_Uncounted ==
  /\ dns.pc = "wait" /\ udp.app[Client].in_size <= 0
  /\ IF AsInt(TIMED_OUT) = TIMED_OUT THEN UNCHANGED <<udp, dns>>
     ELSE Ends(udp, Returned(Fail(TIMED_OUT)))
  /\ UNCHANGED <<requests, wide, hasServer>>

\* Five seconds are over: getHostByName() waits again while it recognises TIMED_OUT
TimeOut ==
  /\ dns.pc = "wait" /\ udp.app[Client].in_size <= 0
  /\ IF AsInt(TIMED_OUT) = TIMED_OUT /\ dns.waits < Waits
     THEN dns' = [dns EXCEPT !.waits = @ + 1] /\ UNCHANGED udp
     ELSE Ends(udp, Returned(Fail(TIMED_OUT)))
  /\ UNCHANGED <<requests, wide, hasServer>>

\* connect(host) goes on to connect(address), or gives 0; beginPacket(host) goes on to
\* beginPacket(address), or gives what getHostByName() gave
Return(d) ==
  /\ dns.pc = "done"
  /\ IF dns.caller = "beginPacket" /\ dns.result.ret = 1
     THEN \E t \in {Tick(Counted(udp, d), d)} : udp' = BeginPacket(t, Sketch, Other)
     ELSE d = Nothing /\ UNCHANGED udp
  /\ dns' = Idle
  /\ UNCHANGED <<requests, wide, hasServer>>
Outcome == IF dns.caller = "connect" /\ dns.result.ret # 1 THEN 0 ELSE dns.result.ret

\* The sketch sends the packet it has begun.
SketchSends ==
  /\ dns.pc = "idle" /\ udp.app[Sketch].packet_out
  /\ udp' = EndPacket(Write(udp, Sketch, << <<"out">> >>), Sketch)
  /\ UNCHANGED <<dns, requests, wide, hasServer>>

DnsNext ==
  \/ \E name \in Names, caller \in {"connect", "beginPacket"} : Lookup(name, caller)
  \/ \E d \in Incoming(udp) : Ask(d)
  \/ \E d, e \in Incoming(udp) : ProcessResponse(d, e)
  \/ TimeOut \/ (\E d \in Incoming(udp) : Return(d)) \/ SketchSends

\* The lookup runs on, and millis() with it; what the network sends makes no step possible
\* that is not possible without it.
DnsSpec ==
  /\ DnsInit /\ [][DnsNext]_dnsVars
  /\ WF_dnsVars(Ask(Nothing)) /\ WF_dnsVars(ProcessResponse(Nothing, Nothing))
  /\ WF_dnsVars(TimeOut) /\ WF_dnsVars(Return(Nothing))

-----------------------------------------------------------------------------
\* A lookup holds its socket as long as it asks and waits, and for ever if it hangs, and when it is
\* over has given it back (Dns.cpp:162).
GivesBack ==
  /\ dns.pc \in {"idle", "ask", "wait", "done", "endless"} /\ dns.waits \in 0 .. Waits
  /\ (udp.slot[Client] # 0) <=> dns.pc \in {"ask", "wait", "endless"}

\* inet_aton() (Dns.cpp:52) takes four decimal numbers up to 255 for the address they are, and
\* four with a larger one in it for no address, but for a name to look up.
QuadIsItself ==
  (\A i \in 1 .. Len(dns.name) : IsDecimal(dns.name[i])) /\ Len(dns.name) = 4 =>
    LET quad == [i \in 1 .. 4 |-> Decimal(dns.name[i])] IN
    IF \A i \in 1 .. 4 : quad[i] <= 255 THEN dns.result = Found(quad)
    ELSE dns.result # Found(Numeric(dns.name))

\* A message is cut when it ends before the last of the rows its header counts.
Cut(m) == Len(m) < HeaderSize + 3 + 3 * m[2][3]

\* An address getHostByName() (Dns.cpp:107) returns with 1 is the one the server has for this
\* very name, whatever answers come late, twice, or meet the request or a packet of the sketch
\* in myData, unless the last datagram was cut, by myData or before; or the one the name spells.
\* And where int has 16 bits a lookup that gives up for want of an answer has waited three times
\* (Dns.cpp:149).
LookupIsHonest ==
  dns.pc = "done" =>
    /\ dns.result.ret = 1 /\ ~IsNumeric(dns.name) =>
         dns.result.addr = Address(dns.name) \/ Cut(dns.message)
    /\ QuadIsItself
    /\ ~wide /\ dns.result.ret = TIMED_OUT => dns.waits = Waits

\* Every call of getHostByName() returns, unless it was given a message that ends before the
\* name of its question does: then the loop over the name (Dns.cpp:318-331) may never end.
LookupEnds == dns.pc # "idle" ~> (dns.pc = "idle" \/ (dns.pc = "endless" /\ ~NameEnds(dns.message)))

\* "Returns 1 if successful, 0 if there was a problem resolving the hostname or port"
\* (RF24Udp.h:119, of beginPacket(host)); not so.
HostResult == dns.pc = "done" => Outcome \in {0, 1}
=============================================================================
