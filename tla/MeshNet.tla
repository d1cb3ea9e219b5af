------------------------------ MODULE MeshNet -------------------------------
(***************************************************************************)
(* IP frames on the mesh: what tick() takes from the radio, the IP and     *)
(* ICMP part of uip_process(), and where network_send(),                   *)
(* sendFrameToRadio() and sendFrame() send what a node has to send.        *)
(*                                                                         *)
(* Every node has one of the library's builds.  In the uIP build the frame *)
(* to send lies in uip_buf, the very buffer the radio puts what it         *)
(* receives into, and a lookup of an address on the mesh runs the radio.   *)
(* The stacks of lwIP and Zephyr are external: they answer an echo request *)
(* that is in order and theirs.  The queues between lwIP and the radio are *)
(* those of FrameQueues.                                                   *)
(***************************************************************************)
EXTENDS Integers, FiniteSets

CONSTANTS
  Master, Child, \* two nodes: the one with mesh address 00, and another one
  Net,          \* the first two octets of the mesh's addresses, as one
  Far,          \* those of a host outside
  ChildHost,    \* the last octet of the child's address
  Lengths,      \* of the echo requests, by their IP header
  Sizes,        \* of the frames they come in
  MaxPings,     \* requests in all
  MaxDue,       \* segments the TCP connections have to send in all
  Mtu,          \* RF24_MTU of the Zephyr build's driver
  MaxPayload,   \* MAX_PAYLOAD_SIZE
  Interval,     \* of periodic_timer
  ClockRange    \* of clock_time()

\* Octets are octets, the two nodes have addresses of their own, and the timer's interval fits its clock.
ASSUME MeshAssumption == /\ Master # Child /\ "none" \notin {Master, Child}
                         /\ Net \in 0 .. 255 /\ Far \in 0 .. 255 \ {Net} /\ ChildHost \in 2 .. 255
                         /\ Lengths \subseteq Nat /\ Sizes \subseteq Nat /\ MaxPayload \in Nat
                         /\ ClockRange \in Nat /\ Interval \in 1 .. ClockRange - 1

VARIABLES
  env,          \* the nodes' builds, and whether char has a sign where that matters
  air,          \* the frames on their way, each with the node it goes to
  node,         \* of each node: uip_buf, uip_len, the connection, periodic_timer, frames to send, and
                \* a history that changes when tick() finds nothing come while a segment is due
  clock,        \* clock_time()
  sent,         \* history: the last frame a node has sent
  pings, dues,  \* the numbers of requests and of segments there have been
  answers       \* history: the requests answered, answered again, and heard during a lookup

vars == <<env, air, node, clock, sent, pings, dues, answers>>

Nodes == {Master, Child}
None == "none"
Nobody == [net |-> 0, sub |-> 0, host |-> 0]
NoFrame == [kind |-> None, src |-> Nobody, dst |-> Nobody, got |-> 0, len |-> 0,
            flaw |-> None, sum |-> 0, was |-> 0, id |-> 0, meant |-> Nobody, cut |-> FALSE]
Header == 28 \* octets, of IP and ICMP
Nothing == [to |-> Master, frame |-> NoFrame]
Flaws == {None, "version", "fragment", "checksum", "protocol"}
Sums == {0, 65526, 65527, 65535} \* around the places where the sum carries

HostOf(n) == IF n = Master THEN 1 ELSE ChildHost
Addr(n) == [net |-> Net, sub |-> 1, host |-> HostOf(n)]
Outside == [net |-> Far, sub |-> 1, host |-> HostOf(Child)]
\* Same first two octets and host as the child, another third octet
Cousin == [net |-> Net, sub |-> 2, host |-> HostOf(Child)]
\* begin(ip, dns)
Gateway == [net |-> Net, sub |-> 1, host |-> 1]

Init ==
  /\ env \in [build : [Nodes -> {"uIP", "lwIP", "Zephyr"}], signed : BOOLEAN]
  /\ env.signed => \E n \in Nodes : env.build[n] = "lwIP"
  /\ air = {} /\ clock = ClockRange - 1
  /\ node = [n \in Nodes |-> [buf |-> NoFrame, len |-> 0, due |-> Nobody, start |-> clock, late |-> 0,
                              quiet |-> FALSE, queue |-> {}]]
  /\ sent = [by |-> None, made |-> NoFrame, frame |-> NoFrame, to |-> None, found |-> None]
  /\ pings = 0 /\ dues = 0 /\ answers = [heard |-> {}, once |-> {}, again |-> {}]

-----------------------------------------------------------------------------
(* uiptimer.c.                                                             *)

\* A mutant of Expired: the difference is an int, not of the clock's type.
Expired_Int(n) == clock - node[n].start >= Interval
\* timer_expired()
Expired(n) == (clock - node[n].start + ClockRange) % ClockRange >= Interval
\* timer_reset()
Restart(start) == (start + Interval) % ClockRange

-----------------------------------------------------------------------------
(* Where a frame goes.                                                     *)

\* A byte of the frame: sendFrameToRadio() has it as a char
Octet(n, b) == IF env.build[n] = "lwIP" /\ env.signed /\ b >= 128 THEN b - 256 ELSE b

\* A mutant of Looks: compares the whole address.
Looks_WholeNet(n, f) ==
  /\ n # Master => Gateway.host # f.dst.host
  /\ f.dst.net = Net /\ f.dst.sub = 1
\* The node asks for the mesh address of the destination: it is in the net, and not the gateway
Looks(n, f) ==
  /\ n # Master => Gateway.host # Octet(n, f.dst.host)
  /\ Octet(n, f.dst.net) = Net

\* getAddress(): the master looks into its list, the child asks the master, who may not answer
Found(f) == {None} \cup {k \in {Child} : HostOf(k) = f.dst.host}

\* The node it goes to, if any
Hop(n, f, found) ==
  IF ~Looks(n, f) THEN {Master}
  ELSE IF found # None THEN {found}
  ELSE {Master} \ {n}

\* A frame of a protocol no stack here has: there may always be one more of them.
Chatter(n) ==
  [to |-> n, frame |-> [NoFrame EXCEPT !.src = Outside, !.dst = Addr(n), !.got = 40, !.len = 40,
                                       !.flaw = "protocol"]]
Arriving(n, frames) == {Nothing, Chatter(n)} \cup {m \in frames : m.to = n}

\* What network.write() has put on the air, with rest the frames that were there.  asked is what
\* arrived in uip_buf while the node asked for the address.
Write(n, made, rest, found, asked) ==
  LET frame == IF asked = Nothing THEN made ELSE [asked.frame EXCEPT !.got = made.got]
      hop == Hop(n, made, found)
  IN  /\ air' = (rest \ {asked}) \cup {[to |-> k, frame |-> frame] : k \in hop}
      /\ IF hop = {} THEN UNCHANGED <<sent, answers>>
         ELSE /\ sent' = [by |-> n, made |-> made, frame |-> frame, to |-> CHOOSE k \in hop : TRUE,
                          found |-> found]
              /\ LET reply == {made.id} \ {0} IN
                 answers' = [heard |-> answers.heard \cup ({asked.frame.id} \ {0}),
                             once |-> answers.once \cup reply,
                             again |-> answers.again \cup (reply \cap answers.once)]

-----------------------------------------------------------------------------
(* ICMP echo.                                                              *)

\* The checksum, on a little-endian machine, of a header whose first octet goes from 8 to 0
EchoSum(sum) == (IF sum >= 65527 THEN sum + 9 ELSE sum + 8) % 65536
Answer(n, f) ==
  [f EXCEPT !.src = Addr(n), !.dst = f.src, !.kind = "reply", !.got = f.len, !.sum = EchoSum(f.sum)]

\* A mutant of Passes: a frame for anybody is taken.
Passes_AnyDst(n, f, len) == f.flaw = None /\ f.len % 256 <= len
\* uip_process(): len is uip_len; the length in the header loses its upper octet in the test
Passes(n, f, len) == f.flaw = None /\ f.len % 256 <= len /\ f.dst = Addr(n)

\* What a stack makes of a frame
Made(n, f, ok) == IF ok /\ f.kind = "echo" THEN {Answer(n, f)} ELSE {}

-----------------------------------------------------------------------------
(* tick().                                                                 *)

\* A frame of 28 octets up to the buffer's size (UIP_BUFSIZE) sets uip_len; it is in uip_buf anyway.
Taken(n, m) ==
  IF m = Nothing THEN [node[n] EXCEPT !.quiet = node[n].due # Nobody /\ ~@]
  ELSE [node[n] EXCEPT !.buf = m.frame, !.len = IF m.frame.got >= Header THEN m.frame.got ELSE @]

\* network_send() of made; uip_len stays, and with it the frame in the buffer
Send(n, made, rest, left) ==
  \E found \in IF Looks(n, made) THEN Found(made) ELSE {None} :
    \E asked \in IF Looks(n, made) /\ n # Master THEN Arriving(n, rest) ELSE {Nothing} :
      /\ Write(n, made, rest, found, asked)
      /\ node' = [node EXCEPT ![n] =
                    [left EXCEPT !.buf = IF asked = Nothing THEN made ELSE asked.frame,
                                 !.len = made.len]]

\* A frame that is no echo request, or not in order, ends in drop: uip_len is 0.  One to a TCP
\* connection is UipTcp's matter.
UipInput(n, t, rest) ==
  /\ t.len > 0
  /\ \/ \E made \in Made(n, t.buf, Passes(n, t.buf, t.len)) : Send(n, made, rest, t)
     \/ /\ Made(n, t.buf, Passes(n, t.buf, t.len)) = {}
        /\ node' = [node EXCEPT ![n] = [t EXCEPT !.len = 0]]
        /\ air' = rest /\ UNCHANGED <<sent, answers>>

\* uip_periodic() for the connection, which may have a segment to send
UipPeriodic(n, t, rest) ==
  LET left == [t EXCEPT !.due = Nobody, !.start = Restart(@), !.late = @ - Interval,
                          !.quiet = FALSE]
      segment == [NoFrame EXCEPT !.kind = "tcp", !.src = Addr(n), !.dst = t.due, !.got = 40, !.len = 40]
  IN  /\ t.len = 0 /\ Expired(n)
      /\ \/ t.due # Nobody /\ Send(n, segment, rest, left)
         \/ /\ t.due = Nobody
            /\ node' = [node EXCEPT ![n] = left]
            /\ air' = rest /\ UNCHANGED <<sent, answers>>

UipIdle(n, t, rest) ==
  /\ t.len = 0 /\ ~Expired(n)
  /\ node' = [node EXCEPT ![n] = t]
  /\ air' = rest /\ UNCHANGED <<sent, answers>>

\* What came, or is left of the frame sent last, is input; else it may be time for the connection.
UipTick(n) ==
  /\ env.build[n] = "uIP"
  /\ \E m \in Arriving(n, air) : \E t \in {Taken(n, m)} :
       UipInput(n, t, air \ {m}) \/ UipPeriodic(n, t, air \ {m}) \/ UipIdle(n, t, air \ {m})
  /\ UNCHANGED <<env, clock, pings, dues>>

\* The other two builds hand a frame to their stack: lwIP's when it is longer than 28 octets,
\* Zephyr's (rf24_netif_deliver_frame()) when it has all that its header says.
InOrder(n, f) ==
  /\ env.build[n] = "lwIP" => f.got > Header
  /\ env.build[n] = "Zephyr" => f.len <= Mtu + 64
  /\ f.len <= f.got /\ f.flaw = None /\ f.dst = Addr(n)
OtherTick(n) ==
  /\ env.build[n] # "uIP"
  /\ \E m \in air : /\ m.to = n /\ air' = air \ {m}
                    /\ node' = [node EXCEPT ![n].queue = @ \cup Made(n, m.frame, InOrder(n, m.frame))]
  /\ UNCHANGED <<env, clock, sent, pings, dues, answers>>

\* rf24_vsend(): the driver does not take a frame that is longer than its buffer; nor does
\* sendFrameToRadio() send one the network layer cannot.
Sends(n, made) == made.len \in 1 .. (IF env.build[n] = "Zephyr" THEN Mtu ELSE MaxPayload)

\* sendQueuedFrame(), and Zephyr's thread in sendFrame(): the frame has a buffer of its own, but
\* what the radio brings during a lookup is lost.
OtherSend(n) ==
  /\ env.build[n] # "uIP"
  /\ \E made \in node[n].queue :
       /\ IF ~Sends(n, made) THEN UNCHANGED <<air, sent, answers>>
          ELSE \E found \in IF Looks(n, made) THEN Found(made) ELSE {None} :
            \E lost \in IF Looks(n, made) /\ n # Master THEN Arriving(n, air) ELSE {Nothing} :
              Write(n, made, air \ {lost}, found, Nothing)
       /\ node' = [node EXCEPT ![n].queue = @ \ {made}]
  /\ UNCHANGED <<env, clock, pings, dues>>

-----------------------------------------------------------------------------
(* The rest of the world.                                                  *)

\* was, meant and cut are for the properties: the request's checksum, its destination, and whether
\* its end is missing though the radio has a frame to hand over.
Request(src, dst, len, got, flaw, sum, id) ==
  [kind |-> "echo", src |-> src, dst |-> dst, got |-> got, len |-> len, flaw |-> flaw, sum |-> sum,
   was |-> sum, id |-> id, meant |-> dst, cut |-> got \in Header .. len - 1]

\* An echo request comes to a node, whoever it is from and for
Ping ==
  /\ pings < MaxPings /\ pings' = pings + 1
  /\ \E n \in Nodes, src \in {Addr(Master), Addr(Child), Outside, Cousin}, dst \in {Addr(Master), Addr(Child)},
        len \in Lengths, got \in Sizes, flaw \in Flaws, sum \in Sums :
       /\ src # dst /\ got <= len
       /\ flaw # None \/ sum # 0 => src = Outside /\ len = got /\ len < 256 /\ (flaw # None => sum = 0)
       /\ air' = air \cup {[to |-> n, frame |-> Request(src, dst, len, got, flaw, sum, pings + 1)]}
  /\ UNCHANGED <<env, node, clock, sent, dues, answers>>

Lose == (\E m \in air : air' = air \ {m}) /\ UNCHANGED <<env, node, clock, sent, pings, dues, answers>>

\* The connection of a node has a segment to send, or to send again
Due ==
  /\ dues < MaxDue /\ dues' = dues + 1
  /\ \E n \in Nodes, dst \in {Outside, Cousin} :
       env.build[n] = "uIP" /\ node' = [node EXCEPT ![n].due = dst]
  /\ UNCHANGED <<env, air, clock, sent, pings, answers>>

\* What comes does not keep tick() from the timer of a segment for as long as the clock's range,
\* which is 49 days of milliseconds.
Clock ==
  /\ \A n \in Nodes : node[n].due # Nobody => node[n].late < ClockRange - 1
  /\ clock' = (clock + 1) % ClockRange
  /\ node' = [n \in Nodes |-> IF env.build[n] = "uIP" THEN [node[n] EXCEPT !.late = (@ + 1) % ClockRange]
                              ELSE node[n]]
  /\ UNCHANGED <<env, air, sent, pings, dues, answers>>

Next ==
  \/ \E n \in Nodes : UipTick(n) \/ OtherTick(n) \/ OtherSend(n)
  \/ Ping \/ Lose \/ Due \/ Clock

Spec == Init /\ [][Next]_vars /\ WF_vars(Clock)

-----------------------------------------------------------------------------
\* The state keeps its type, and periodic_timer has started when it should have, whatever the
\* clock's width (uiptimer.c:82).
TypeOK ==
  /\ \A n \in Nodes : LET s == node[n] IN
       /\ env.build[n] = "uIP" => s.late \in 0 .. ClockRange - 1 /\ (s.start + s.late) % ClockRange = clock
       /\ s.len \in {0, 40} \cup Lengths \cup Sizes /\ s.due \in {Nobody, Outside, Cousin}
  /\ \A m \in air : m.to \in Nodes

\* network_send(), sendFrameToRadio() and sendFrame() agree (RF24Ethernet.cpp:119, :864, :920):
\* a frame goes to the node that has its destination's address or, when the lookup fails, to the
\* master, and one for another net or the gateway goes to the master - unless char has a sign
\* and the net's octets are above 127, when lwIP's frames for the child go to the master.  It
\* is the frame that was made, unless a child of the uIP build had to ask for the address and
\* heard another frame meanwhile.
RoutesHome ==
  sent.by # None =>
    LET dst == sent.made.dst
        blind == env.build[sent.by] = "lwIP" /\ env.signed /\ Net >= 128
    IN  /\ sent.to # Master => dst.net = Net /\ dst.host = HostOf(sent.to)
        /\ \A k \in Nodes : dst = Addr(k) => sent.to = k \/ (sent.to = Master /\ (sent.found = None \/ blind))
        /\ sent.by = Child \/ sent.to # Master \/ dst.net = Far \/ blind
        /\ sent.frame = sent.made \/ (env.build[sent.by] = "uIP" /\ sent.by = Child /\ dst.net = Net)

\* One answer for an echo request (unless it came while the node asked for an address, and uip_len
\* was that of the frame it replaced), from the node it is for, with a right checksum if the
\* request's was right - and no answer for a frame that lost its end on the way (uip.c:853),
\* unless 256 octets or more should have come (the cast in line 857), or uip_len was another
\* frame's: that came in during a lookup, or with less than a header.
AnswersOnce ==
  /\ answers.again \subseteq answers.heard
  /\ sent.made.kind = "reply" =>
       /\ sent.made.src = sent.made.meant /\ sent.made.flaw = None
       /\ \/ ~sent.made.cut \/ sent.made.id \in answers.heard
          \/ env.build[sent.by] = "uIP" /\ sent.made.len >= 256
       /\ sent.made.sum % 65535 = (sent.made.was + 8) % 65535

\* A segment of the connection is handed to network_send(), whatever comes, if tick() finds again
\* and again that nothing has come: only then does it look at the timer (RF24Ethernet.cpp:709-715).
Quiet(n) == node[n].quiet # node'[n].quiet
ConnServed ==
  \A n \in Nodes : []<><<Quiet(n)>>_vars => (node[n].due # Nobody ~> node[n].due = Nobody)
=============================================================================
