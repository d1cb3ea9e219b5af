--------------------------- MODULE MeshNetProofs ----------------------------
(***************************************************************************)
(* Frames go where the three builds' rules send them, and a request is     *)
(* answered once, for any addresses, lengths, sizes and numbers of         *)
(* requests, with any clock and interval.                                  *)
(***************************************************************************)
EXTENDS MeshNet, TLAPS

Builds == {"uIP", "lwIP", "Zephyr"}
Hosts == {Addr(Master), Addr(Child), Outside, Cousin}
Places == Hosts \cup {Nobody}
Extents == {0, 40} \cup Lengths \cup Sizes
Frames == [kind : {None, "echo", "reply", "tcp"}, src : Places, dst : Places, got : Extents, len : Extents,
           flaw : Flaws, sum : Nat, was : Sums, id : Nat, meant : Places, cut : BOOLEAN]
Messages == [to : Nodes, frame : Frames]
States == [buf : Frames, len : Extents, due : {Nobody, Outside, Cousin}, start : Int, late : Int,
           quiet : BOOLEAN, queue : SUBSET Frames]

Typed ==
  /\ env \in [build : [Nodes -> Builds], signed : BOOLEAN]
  /\ air \subseteq Messages
  /\ node \in [Nodes -> States]
  /\ sent \in [by : Nodes \cup {None}, made : Frames, frame : Frames, to : Nodes \cup {None}, found : {None, Child}]
  /\ pings \in Nat
  /\ answers \in [heard : SUBSET Nat, once : SUBSET Nat, again : SUBSET Nat]

\* A request on its way is as it was sent, unless it has been heard during a lookup, which may
\* give it another end.
Known(f) ==
  /\ f.id \in 0 .. pings
  /\ f.kind = "echo" =>
       /\ f.src \in Hosts /\ f.meant = f.dst /\ f.sum = f.was /\ f.id # 0
       /\ f.id \in answers.heard \/ (f.cut <=> f.got \in Header .. f.len - 1)

\* What AnswersOnce says of one answer, when node n gives it
Right(n, f) ==
  /\ f.kind = "reply" /\ f.dst \in Hosts /\ f.src = f.meant /\ f.flaw = None /\ f.id \in 1 .. pings
  /\ \/ ~f.cut \/ f.id \in answers.heard
     \/ env.build[n] = "uIP" /\ f.len >= 256
  /\ f.sum % 65535 = (f.was + 8) % 65535

\* The state s of node n: only of a request that was heard does uip_input() see more than once.
Sound(n, s) ==
  /\ Known(s.buf)
  /\ \A f \in s.queue : Right(n, f)
  /\ env.build[n] = "uIP" /\ s.len > 0 /\ s.buf.kind = "echo" => s.buf.id \in answers.heard

\* The copies of a request that may still be answered, and the answers not yet sent
Asking(k) == {m \in air : m.frame.kind = "echo" /\ m.frame.id = k}
Waiting(k) == {w \in Nodes \X Frames : w[2] \in node[w[1]].queue /\ w[2].id = k}

\* Of a request that was not heard there is one copy, or one answer, or it has been answered.
OneCopy(k) ==
  /\ \A m1, m2 \in Asking(k) : m1 = m2
  /\ \A w1, w2 \in Waiting(k) : w1 = w2
  /\ Asking(k) = {} \/ Waiting(k) = {}
  /\ k \in answers.once => Asking(k) = {} /\ Waiting(k) = {}

Copies == \A k \in 1 .. pings : k \in answers.heard \/ OneCopy(k)

FrameInv ==
  /\ \A m \in air : Known(m.frame)
  /\ \A n \in Nodes : Sound(n, node[n])
  /\ answers.heard \cup answers.once \subseteq 1 .. pings

\* What has been sent
SentInv ==
  /\ sent.made.kind = "reply" => Right(sent.by, sent.made)
  /\ answers.again \subseteq answers.heard

MeshInv == Typed /\ FrameInv /\ Copies /\ SentInv /\ RoutesHome

-----------------------------------------------------------------------------
(* Routes.                                                                 *)

\* What RoutesHome says of a frame that node n sends to node k
Route(n, f, k, found) ==
  LET blind == env.build[n] = "lwIP" /\ env.signed /\ Net >= 128
  IN  /\ k # Master => f.dst.net = Net /\ f.dst.host = HostOf(k)
      /\ \A j \in Nodes : f.dst = Addr(j) => k = j \/ (k = Master /\ (found = None \/ blind))
      /\ n = Child \/ k # Master \/ f.dst.net = Far \/ blind

Asks(n, f) == IF Looks(n, f) THEN Found(f) ELSE {None}

LEMMA HopIs ==
  ASSUME NEW n \in Nodes, NEW f, f.dst \in Hosts, env.build[n] \in Builds, env.signed \in BOOLEAN,
         NEW found \in Asks(n, f)
  PROVE  \/ Hop(n, f, found) = {} /\ n = Master
         \/ \E k \in Nodes : Hop(n, f, found) = {k} /\ Route(n, f, k, found)
<1> USE MeshAssumption DEF Nodes, None
<1> DEFINE blind == env.build[n] = "lwIP" /\ env.signed /\ Net >= 128
<1>1. /\ f.dst.net \in {Net, Far} /\ f.dst.host \in {1, ChildHost}
      /\ f.dst = Addr(Master) => f.dst.net = Net /\ f.dst.host = 1
      /\ f.dst = Addr(Child) => f.dst.net = Net /\ f.dst.host = ChildHost
  BY DEF Hosts, Addr, Outside, Cousin, HostOf
<1>2. HostOf(Master) = 1 /\ HostOf(Child) = ChildHost
  BY DEF HostOf
<1>3. Gateway.host = 1
  BY DEF Gateway
<1>4. (Octet(n, f.dst.net) = Net) <=> (f.dst.net = Net /\ ~blind)
  BY <1>1 DEF Octet
<1>5. (Octet(n, f.dst.host) = 1) <=> (f.dst.host = 1)
  BY <1>1 DEF Octet
<1> HIDE DEF blind
<1>6. Looks(n, f) <=> (f.dst.net = Net /\ ~blind /\ (n = Master \/ f.dst.host = ChildHost))
  BY <1>1, <1>3, <1>4, <1>5 DEF Looks
<1>7. \A k : (k # Master => f.dst.net = Net /\ f.dst.host = HostOf(k))
          /\ (\A j \in Nodes : f.dst = Addr(j) => k = j \/ (k = Master /\ (found = None \/ blind)))
          /\ (n = Child \/ k # Master \/ f.dst.net = Far \/ blind)
        => Route(n, f, k, found)
  BY DEF Route, blind
<1>8. CASE ~Looks(n, f)
  <2>1. Hop(n, f, found) = {Master} /\ found = None
    BY <1>8 DEF Hop, Asks
  <2> QED BY <2>1, <1>1, <1>6, <1>7, <1>8
<1>9. CASE Looks(n, f) /\ found # None
  <2>1. Hop(n, f, found) = {found} /\ found = Child /\ f.dst.host = ChildHost
    BY <1>9, <1>2 DEF Hop, Asks, Found
  <2> QED BY <2>1, <1>1, <1>2, <1>6, <1>7, <1>9
<1>10. CASE Looks(n, f) /\ found = None
  <2>1. Hop(n, f, found) = {Master} \ {n}
    BY <1>10 DEF Hop
  <2> QED BY <2>1, <1>1, <1>2, <1>6, <1>7, <1>10
<1> QED BY <1>8, <1>9, <1>10

-----------------------------------------------------------------------------
(* Frames.                                                                 *)

LEMMA FrameTypes ==
  /\ NoFrame \in Frames /\ NoFrame.kind = None /\ NoFrame.id = 0 /\ Nothing.frame = NoFrame
  /\ Extents \subseteq Nat
  /\ \A n \in Nodes : Addr(n) \in Hosts
  /\ \A n \in Nodes : /\ Chatter(n) \in Messages /\ Chatter(n).frame.kind = None
                       /\ Chatter(n).frame.id = 0
<1>1. Extents \subseteq Nat
  BY MeshAssumption DEF Extents
<1>2. \A n \in Nodes : Addr(n) \in Hosts
  BY DEF Hosts, Nodes
<1>3. NoFrame \in Frames /\ NoFrame.kind = None /\ NoFrame.id = 0
  BY DEF NoFrame, Frames, Extents, Flaws, Places, Sums
<1>4. \A f : [to |-> Master, frame |-> f].frame = f
  OBVIOUS
<1>5. \A n \in Nodes : /\ Chatter(n) \in Messages /\ Chatter(n).frame.kind = None
                        /\ Chatter(n).frame.id = 0
  <2> SUFFICES ASSUME NEW n \in Nodes
               PROVE  /\ Chatter(n) \in Messages /\ Chatter(n).frame.kind = None
                      /\ Chatter(n).frame.id = 0
    OBVIOUS
  <2> DEFINE a == [NoFrame EXCEPT !.src = Outside]
             b == [a EXCEPT !.dst = Addr(n)]
             c == [b EXCEPT !.got = 40]
             d == [c EXCEPT !.len = 40]
             e == [d EXCEPT !.flaw = "protocol"]
  <2>1. a \in Frames /\ a.kind = None /\ a.id = 0
    BY <1>3 DEF Frames, Places, Hosts
  <2> HIDE DEF a
  <2>2. b \in Frames /\ b.kind = None /\ b.id = 0
    BY <1>2, <2>1 DEF Frames, Places
  <2> HIDE DEF b
  <2>3. c \in Frames /\ c.kind = None /\ c.id = 0
    BY <2>2 DEF Frames, Extents
  <2> HIDE DEF c
  <2>4. d \in Frames /\ d.kind = None /\ d.id = 0
    BY <2>3 DEF Frames, Extents
  <2> HIDE DEF d
  <2>5. e \in Frames /\ e.kind = None /\ e.id = 0
    BY <2>4 DEF Frames, Flaws
  <2>6. Chatter(n) = [to |-> n, frame |-> e]
    BY DEF Chatter, a, b, c, d
  <2> HIDE DEF e
  <2> QED BY <2>5, <2>6 DEF Messages
<1> QED BY <1>1, <1>2, <1>3, <1>4, <1>5 DEF Nothing

LEMMA SumRight ==
  ASSUME NEW x \in Sums
  PROVE  /\ EchoSum(x) \in Nat
         /\ EchoSum(x) % 65535 = (x + 8) % 65535
BY DEF Sums, EchoSum

\* An answer to a request that is in order is in order itself.
LEMMA AnswerIs ==
  ASSUME NEW n \in Nodes, NEW f \in Frames, f.kind = "echo", Known(f), pings \in Nat,
         f.flaw = None, f.dst = Addr(n),
         \/ ~f.cut \/ f.id \in answers.heard
         \/ env.build[n] = "uIP" /\ f.len >= 256
  PROVE  LET a == Answer(n, f) IN
         /\ a \in Frames /\ Right(n, a) /\ a.id = f.id /\ a.len = f.len /\ a.id # 0
         /\ a.dst \in Hosts /\ a.kind = "reply"
<1>0. Addr(n) \in Hosts
  BY FrameTypes, SMTT(30)
<1> DEFINE a == Answer(n, f)
<1>1. /\ a.kind = "reply" /\ a.src = Addr(n) /\ a.dst = f.src /\ a.got = f.len /\ a.len = f.len
      /\ a.flaw = f.flaw /\ a.sum = EchoSum(f.sum) /\ a.was = f.was /\ a.id = f.id /\ a.meant = f.meant /\ a.cut = f.cut
      /\ a = [kind |-> a.kind, src |-> a.src, dst |-> a.dst, got |-> a.got, len |-> a.len, flaw |-> a.flaw,
              sum |-> a.sum, was |-> a.was, id |-> a.id, meant |-> a.meant, cut |-> a.cut]
  <2> DEFINE b1 == [f EXCEPT !.src = Addr(n)]
             b2 == [b1 EXCEPT !.dst = f.src]
             b3 == [b2 EXCEPT !.kind = "reply"]
             b4 == [b3 EXCEPT !.got = f.len]
             b5 == [b4 EXCEPT !.sum = EchoSum(f.sum)]
             Fields == {"kind", "src", "dst", "got", "len", "flaw", "sum", "was", "id", "meant", "cut"}
  <2>1. f = [x \in Fields |-> f[x]]
    BY SMTT(30) DEF Frames
  <2>2. /\ b1 = [x \in Fields |-> IF x = "src" THEN Addr(n) ELSE f[x]]
        /\ b2 = [x \in Fields |-> IF x = "dst" THEN f.src ELSE b1[x]]
        /\ b3 = [x \in Fields |-> IF x = "kind" THEN "reply" ELSE b2[x]]
        /\ b4 = [x \in Fields |-> IF x = "got" THEN f.len ELSE b3[x]]
        /\ b5 = [x \in Fields |-> IF x = "sum" THEN EchoSum(f.sum) ELSE b4[x]]
    BY <2>1, ZenonT(40)
  <2>3. a = b5
    BY DEF Answer
  <2> HIDE DEF a, b1, b2, b3, b4, b5
  <2>4. a = [x \in Fields |-> a[x]]
    BY <2>2, <2>3
  <2> QED BY <2>2, <2>3, <2>4, SMTT(30)
<1>2. /\ f.src \in Hosts /\ f.meant = f.dst /\ f.sum = f.was /\ f.id \in 1 .. pings
  BY DEF Known
<1>3. EchoSum(f.sum) \in Nat /\ EchoSum(f.sum) % 65535 = (f.was + 8) % 65535
  <2>1. f.was \in Sums
    BY DEF Frames
  <2> QED BY <1>2, <2>1, SumRight
<1>4. f.was \in Sums /\ f.len \in Extents /\ f.flaw \in Flaws /\ f.cut \in BOOLEAN /\ f.meant \in Places /\ f.id \in Nat
  BY DEF Frames
<1> HIDE DEF a
<1>5. a \in Frames
  BY <1>0, <1>1, <1>2, <1>3, <1>4 DEF Frames, Places
<1>6. Right(n, a)
  BY <1>0, <1>1, <1>2, <1>3 DEF Right
<1> QED BY <1>1, <1>2, <1>5, <1>6, SMTT(30) DEF a

-----------------------------------------------------------------------------
(* What network.write() does.                                              *)

\* What a node gives to it: an answer that is due, or a segment
Sendable(n, f) ==
  /\ f \in Frames /\ f.dst \in Hosts
  /\ \/ Right(n, f) /\ (f.id \in answers.once => f.id \in answers.heard)
     \/ f.kind = "tcp" /\ f.id = 0

LEMMA WriteIs ==
  ASSUME Typed, FrameInv, SentInv, RoutesHome, NEW n \in Nodes, NEW made, Sendable(n, made),
         NEW rest \in SUBSET air, NEW found \in Asks(n, made),
         NEW asked, asked = Nothing
           \/ (asked \in rest \cup {Chatter(n)} /\ n = Child /\ Looks(n, made) /\ env.build[n] = "uIP"),
         Write(n, made, rest, found, asked), UNCHANGED <<env, pings>>
  PROVE  /\ air' \subseteq Messages
         /\ sent' \in [by : Nodes \cup {None}, made : Frames, frame : Frames, to : Nodes \cup {None},
                       found : {None, Child}]
         /\ answers' \in [heard : SUBSET Nat, once : SUBSET Nat, again : SUBSET Nat]
         /\ answers.heard \subseteq answers.heard'
         /\ asked.frame.id \in answers.heard' \cup {0}
         /\ \A m \in air' : \/ m \in rest
                            \/ m.frame.kind = "echo" => m.frame.id \in answers.heard'
         /\ \A m \in air' : Known(m.frame)'
         /\ answers.heard' \cup answers.once' \subseteq 1 .. pings
         /\ answers.once' \subseteq answers.once \cup ({made.id} \ {0})
         /\ SentInv'
         /\ RoutesHome'
<1> DEFINE frame == IF asked = Nothing THEN made ELSE [asked.frame EXCEPT !.got = made.got]
           hop == Hop(n, made, found)
           reply == {made.id} \ {0}
           heard == {asked.frame.id} \ {0}
<1>1. /\ air' = (rest \ {asked}) \cup {[to |-> k, frame |-> frame] : k \in hop}
      /\ hop = {} => sent' = sent /\ answers' = answers
      /\ hop # {} =>
           /\ sent' = [by |-> n, made |-> made, frame |-> frame, to |-> CHOOSE k \in hop : TRUE,
                       found |-> found]
           /\ answers' = [heard |-> answers.heard \cup heard, once |-> answers.once \cup reply,
                          again |-> answers.again \cup (reply \cap answers.once)]
  BY DEF Write
<1>2. env' = env /\ pings' = pings /\ pings \in Nat /\ env.build[n] \in Builds /\ env.signed \in BOOLEAN
  BY DEF Typed
<1>3. \/ hop = {} /\ n = Master
      \/ \E k \in Nodes : hop = {k} /\ Route(n, made, k, found)
  BY <1>2, HopIs DEF Sendable
<1>4. Nothing.frame = NoFrame
  BY FrameTypes
<1>5. asked.frame \in Frames /\ Known(asked.frame)
  <2>1. CASE asked = Nothing
    BY <1>2, <1>4, <2>1, FrameTypes DEF Known, None
  <2>2. CASE asked \in rest
    BY <2>2 DEF Typed, FrameInv, Messages
  <2>3. CASE asked = Chatter(n)
    BY <1>2, <2>3, FrameTypes DEF Known, None, Messages
  <2> QED BY <2>1, <2>2, <2>3
<1>6. /\ made \in Frames /\ made.kind # "echo" /\ made.id \in 0 .. pings
      /\ made.id \in answers.once => made.id \in answers.heard
      /\ made.kind = "reply" => Right(n, made)
  BY <1>2, FrameTypes DEF Sendable, Right, Typed, FrameInv
<1>7. /\ frame \in Frames
      /\ frame.kind = "echo" => /\ frame.id \in heard /\ frame.src \in Hosts /\ frame.meant = frame.dst
                                /\ frame.sum = frame.was
      /\ frame.id \in 0 .. pings
  <2>1. CASE asked = Nothing
    BY <1>6, <2>1
  <2>2. CASE asked # Nothing
    <3>1. frame = [asked.frame EXCEPT !.got = made.got]
      BY <2>2
    <3> HIDE DEF frame
    <3>2. /\ frame.kind = asked.frame.kind /\ frame.id = asked.frame.id /\ frame.src = asked.frame.src
          /\ frame.meant = asked.frame.meant /\ frame.dst = asked.frame.dst /\ frame.sum = asked.frame.sum
          /\ frame.was = asked.frame.was
          /\ frame \in Frames
      BY <3>1, <1>5, <1>6 DEF Frames
    <3> QED BY <3>2, <1>5 DEF Known
  <2> QED BY <2>1, <2>2
<1>8. heard \subseteq 1 .. pings /\ reply \subseteq 1 .. pings
  BY <1>2, <1>5, <1>6 DEF Known
<1>9. /\ answers \in [heard : SUBSET Nat, once : SUBSET Nat, again : SUBSET Nat]
      /\ answers.heard \cup answers.once \subseteq 1 .. pings
      /\ answers.again \subseteq answers.heard
      /\ sent \in [by : Nodes \cup {None}, made : Frames, frame : Frames, to : Nodes \cup {None},
                   found : {None, Child}]
      /\ \A m \in air : m \in Messages /\ Known(m.frame)
      /\ sent.made.kind = "reply" => Right(sent.by, sent.made)
  BY DEF Typed, FrameInv, SentInv
<1>10. CASE hop = {}
  <2>1. air' = rest \ {asked} /\ sent' = sent /\ answers' = answers
    BY <1>1, <1>10
  <2>2. n = Master
    BY <1>3, <1>10
  <2>3. asked = Nothing
    BY <2>2, MeshAssumption
  <2>4. asked.frame.id = 0
    BY <1>4, <2>3, FrameTypes
  <2>5. SentInv' /\ RoutesHome'
    BY <1>2, <1>9, <2>1 DEF SentInv, Right, RoutesHome
  <2>6. \A m \in air' : Known(m.frame)'
    BY <1>2, <1>9, <2>1 DEF Known
  <2> QED BY <1>9, <2>1, <2>4, <2>5, <2>6
<1>11. CASE hop # {}
  <2>1. PICK k \in Nodes : hop = {k} /\ Route(n, made, k, found)
    BY <1>3, <1>11
  <2>2. air' = (rest \ {asked}) \cup {[to |-> k, frame |-> frame]}
    BY <1>1, <2>1
  <2>3. /\ sent' = [by |-> n, made |-> made, frame |-> frame, to |-> k, found |-> found]
        /\ answers' = [heard |-> answers.heard \cup heard, once |-> answers.once \cup reply,
                       again |-> answers.again \cup (reply \cap answers.once)]
    BY <1>1, <1>11, <2>1
  <2>4. frame = made \/ (env.build[n] = "uIP" /\ n = Child /\ made.dst.net = Net)
    <3>1. CASE asked = Nothing
      BY <3>1
    <3>2. CASE asked # Nothing
      <4>1. env.build[n] = "uIP" /\ n = Child /\ Looks(n, made)
        BY <3>2
      <4>2. Octet(n, made.dst.net) = made.dst.net
        BY <4>1 DEF Octet
      <4> QED BY <4>1, <4>2 DEF Looks
    <3> QED BY <3>1, <3>2
  <2>5. found \in {None, Child}
    BY DEF Asks, Found
  <2> HIDE DEF frame, hop, reply, heard
  <2>6. answers' \in [heard : SUBSET Nat, once : SUBSET Nat, again : SUBSET Nat]
    <3>1. \A h, o, a \in SUBSET Nat :
            [heard |-> h, once |-> o, again |-> a] \in [heard : SUBSET Nat, once : SUBSET Nat, again : SUBSET Nat]
      OBVIOUS
    <3>2. heard \subseteq Nat /\ reply \subseteq Nat
      BY <1>2, <1>8
    <3>3. /\ answers.heard \cup heard \in SUBSET Nat /\ answers.once \cup reply \in SUBSET Nat
          /\ answers.again \cup (reply \cap answers.once) \in SUBSET Nat
      BY <1>9, <3>2, Zenon
    <3> QED BY <2>3, <3>1, <3>3
  <2>7. /\ answers'.heard = answers.heard \cup heard /\ answers'.once = answers.once \cup reply
        /\ answers'.again = answers.again \cup (reply \cap answers.once)
    BY <2>3
  <2>8. sent'.by = n /\ sent'.made = made /\ sent'.frame = frame /\ sent'.to = k /\ sent'.found = found
    BY <2>3
  <2>9. \A f : Known(f) => Known(f)'
    BY <1>2, <2>7 DEF Known
  <2>10. \A m \in air' : /\ m \in Messages /\ Known(m.frame)'
                         /\ m \in rest \/ (m.frame.kind = "echo" => m.frame.id \in answers.heard')
    <3> SUFFICES ASSUME NEW m \in air'
                 PROVE  /\ m \in Messages /\ Known(m.frame)'
                        /\ m \in rest \/ (m.frame.kind = "echo" => m.frame.id \in answers.heard')
      OBVIOUS
    <3>1. CASE m \in rest
      BY <3>1, <1>9, <2>9
    <3>2. CASE m = [to |-> k, frame |-> frame]
      <4>1. m.to = k /\ m.frame = frame /\ m \in Messages
        BY <3>2, <1>7 DEF Messages
      <4>2. frame.kind = "echo" => frame.id \in answers.heard' /\ frame.id # 0
        BY <1>7, <1>8, <2>7
      <4>3. Known(frame)'
        BY <1>2, <1>7, <4>2 DEF Known
      <4> QED BY <4>1, <4>2, <4>3
    <3> QED BY <2>2, <3>1, <3>2
  <2>11. SentInv'
    <3>1. made.kind = "reply" => Right(n, made)'
      BY <1>2, <1>6, <2>7 DEF Right
    <3>2. answers.again' \subseteq answers.heard'
      BY <1>6, <1>9, <2>7 DEF reply
    <3> QED BY <2>8, <3>1, <3>2 DEF SentInv
  <2>12. RoutesHome'
    BY <1>2, <2>1, <2>4, <2>8 DEF RoutesHome, Route
  <2>13. sent' \in [by : Nodes \cup {None}, made : Frames, frame : Frames, to : Nodes \cup {None},
                    found : {None, Child}]
    BY <1>6, <1>7, <2>3, <2>5
  <2>14. asked.frame.id \in answers.heard' \cup {0}
    BY <2>7 DEF heard
  <2>15. answers.heard' \cup answers.once' \subseteq 1 .. pings
    BY <1>8, <1>9, <2>7, Zenon
  <2>16. answers.once' \subseteq answers.once \cup ({made.id} \ {0})
    BY <2>7 DEF reply
  <2> QED BY <2>6, <2>7, <2>10, <2>11, <2>12, <2>13, <2>14, <2>15, <2>16
<1> QED BY <1>10, <1>11

-----------------------------------------------------------------------------
(* Steps.                                                                  *)

\* What is known of frames stays known when more requests come and more are heard.
LEMMA StillKnown ==
  ASSUME env' = env, pings \in Nat, pings' \in {pings, pings + 1}, answers.heard \subseteq answers.heard'
  PROVE  /\ \A f : Known(f) => Known(f)'
         /\ \A n \in Nodes : \A f : Right(n, f) => Right(n, f)'
         /\ \A n \in Nodes : \A s : Sound(n, s) => Sound(n, s)'
<1>1. 0 .. pings \subseteq 0 .. pings' /\ 1 .. pings \subseteq 1 .. pings'
  OBVIOUS
<1>2. \A f : Known(f) => Known(f)'
  BY <1>1 DEF Known
<1>3. \A n \in Nodes : \A f : Right(n, f) => Right(n, f)'
  BY <1>1 DEF Right
<1> QED BY <1>2, <1>3 DEF Sound

LEMMA SoundThen ==
  ASSUME NEW j, NEW s, node'[j] = s
  PROVE  Sound(j, node[j])' <=> /\ Known(s.buf)' /\ \A f \in s.queue : Right(j, f)'
                                /\ env'.build[j] = "uIP" /\ s.len > 0 /\ s.buf.kind = "echo"
                                     => s.buf.id \in answers'.heard
BY DEF Sound, Known, Right

LEMMA StillSound ==
  ASSUME env' = env, pings \in Nat, pings' \in {pings, pings + 1}, answers.heard \subseteq answers.heard',
         NEW j \in Nodes, Sound(j, node'[j])
  PROVE  Sound(j, node[j])'
<1>1. PICK x : x = node'[j]
  OBVIOUS
<1>2. Sound(j, x)
  BY <1>1
<1>3. Sound(j, x)'
  BY <1>2, StillKnown
<1>4. Sound(j, node[j])' <=> /\ Known(x.buf)' /\ \A y \in x.queue : Right(j, y)'
                             /\ env'.build[j] = "uIP" /\ x.len > 0 /\ x.buf.kind = "echo"
                                  => x.buf.id \in answers'.heard
  BY <1>1, SoundThen
<1> QED BY <1>3, <1>4 DEF Sound

\* Copies that go, and answers that are sent, leave no more than one.
LEMMA StillOne ==
  ASSUME NEW k, OneCopy(k), Asking(k)' \subseteq Asking(k), Waiting(k)' \subseteq Waiting(k),
         k \in answers.once' => k \in answers.once \/ (Asking(k)' = {} /\ Waiting(k)' = {})
  PROVE  OneCopy(k)'
BY DEF OneCopy

LEMMA WaitingIs ==
  ASSUME NEW k, node \in [Nodes -> States], node' \in [Nodes -> States],
         \A j \in Nodes : node'[j].queue \subseteq node[j].queue
  PROVE  Waiting(k)' \subseteq Waiting(k)
BY DEF Waiting

\* A step that sends nothing
LEMMA Silent ==
  ASSUME MeshInv, UNCHANGED <<env, pings, sent, answers>>, air' \subseteq air,
         node' \in [Nodes -> States],
         \A j \in Nodes : node'[j].queue \subseteq node[j].queue /\ Sound(j, node'[j])
  PROVE  MeshInv'
<1>1. Typed /\ FrameInv /\ Copies /\ SentInv /\ RoutesHome
  BY DEF MeshInv
<1>2. Typed'
  BY <1>1 DEF Typed
<1>3. /\ pings \in Nat
      /\ \A f : Known(f) => Known(f)'
      /\ \A j \in Nodes : \A f : Right(j, f) => Right(j, f)'
      /\ \A j \in Nodes : \A s : Sound(j, s) => Sound(j, s)'
  <2>1. pings \in Nat
    BY <1>1 DEF Typed
  <2> QED BY <2>1, StillKnown
<1>4. FrameInv'
  BY <1>1, <1>3 DEF FrameInv
<1>5. SentInv'
  BY <1>1 DEF SentInv, Right
<1>6. Copies'
  <2> SUFFICES ASSUME NEW k \in 1 .. pings, k \notin answers.heard
               PROVE  OneCopy(k)'
    BY DEF Copies
  <2>1. OneCopy(k)
    BY <1>1 DEF Copies
  <2>2. Asking(k)' \subseteq Asking(k)
    BY DEF Asking
  <2>3. Waiting(k)' \subseteq Waiting(k)
    BY <1>1, WaitingIs DEF Typed
  <2> QED BY <2>1, <2>2, <2>3, StillOne
<1>7. RoutesHome'
  BY <1>1 DEF RoutesHome
<1> QED BY <1>2, <1>4, <1>5, <1>6, <1>7 DEF MeshInv

\* A step that sends: of the request it answers, if it was not heard, no copy is left.
LEMMA Sending ==
  ASSUME MeshInv, UNCHANGED <<env, pings>>, NEW n \in Nodes, NEW made, Sendable(n, made),
         NEW rest \in SUBSET air, NEW found \in Asks(n, made),
         NEW asked, asked = Nothing
           \/ (asked \in rest \cup {Chatter(n)} /\ n = Child /\ Looks(n, made) /\ env.build[n] = "uIP"),
         Write(n, made, rest, found, asked),
         made.id \in answers.heard \cup {0}
           \/ (Waiting(made.id)' = {} /\ \A m \in rest : m.frame.kind = "echo" => m.frame.id # made.id),
         node' \in [Nodes -> States],
         \A j \in Nodes : node'[j].queue \subseteq node[j].queue,
         \A j \in Nodes : Sound(j, node'[j])
           \/ /\ j = n /\ (node'[n].buf = made \/ node'[n].buf = asked.frame)
  PROVE  MeshInv'
<1>1. Typed /\ FrameInv /\ Copies /\ SentInv /\ RoutesHome
  BY DEF MeshInv
<1>2. /\ air' \subseteq Messages
      /\ sent' \in [by : Nodes \cup {None}, made : Frames, frame : Frames, to : Nodes \cup {None},
                    found : {None, Child}]
      /\ answers' \in [heard : SUBSET Nat, once : SUBSET Nat, again : SUBSET Nat]
      /\ answers.heard \subseteq answers.heard'
      /\ asked.frame.id \in answers.heard' \cup {0}
      /\ \A m \in air' : \/ m \in rest
                         \/ m.frame.kind = "echo" => m.frame.id \in answers.heard'
      /\ \A m \in air' : Known(m.frame)'
      /\ answers.heard' \cup answers.once' \subseteq 1 .. pings
      /\ answers.once' \subseteq answers.once \cup ({made.id} \ {0})
      /\ SentInv'
      /\ RoutesHome'
  BY <1>1, WriteIs, Zenon
<1>3. Typed'
  BY <1>1, <1>2 DEF Typed
<1>4. pings \in Nat /\ pings' = pings /\ env' = env
  BY <1>1 DEF Typed
<1>5. /\ \A f : Known(f) => Known(f)'
      /\ \A j \in Nodes : \A f : Right(j, f) => Right(j, f)'
      /\ \A j \in Nodes : \A s : Sound(j, s) => Sound(j, s)'
  BY <1>2, <1>4, StillKnown
<1>6. \A j \in Nodes : Sound(j, node[j])'
  <2> SUFFICES ASSUME NEW j \in Nodes PROVE Sound(j, node[j])'
    OBVIOUS
  <2>1. PICK s : s = node'[j]
    OBVIOUS
  <2>2. Sound(j, node[j])' <=> /\ Known(s.buf)' /\ \A f \in s.queue : Right(j, f)'
                               /\ env.build[j] = "uIP" /\ s.len > 0 /\ s.buf.kind = "echo"
                                    => s.buf.id \in answers'.heard
    BY <1>4, <2>1, SoundThen
  <2>3. CASE Sound(j, s)
    BY <1>2, <1>5, <2>2, <2>3 DEF Sound
  <2>4. CASE j = n /\ (s.buf = made \/ s.buf = asked.frame)
    <3>1. \A f \in s.queue : Right(j, f)'
      BY <1>1, <1>5, <2>1 DEF FrameInv, Sound
    <3>2. made.kind # "echo" /\ Known(made)
      BY <1>4 DEF Sendable, Right, Known
    <3>3. Known(asked.frame)
      <4>1. CASE asked = Nothing
        BY <1>4, <4>1, FrameTypes DEF Known, None
      <4>2. CASE asked \in rest
        BY <1>1, <4>2 DEF FrameInv
      <4>3. CASE asked = Chatter(n)
        BY <1>4, <4>3, FrameTypes DEF Known, None
      <4> QED BY <4>1, <4>2, <4>3
    <3>4. Known(s.buf)'
      BY <1>5, <2>4, <3>2, <3>3
    <3>5. s.buf.kind = "echo" => s.buf.id \in answers'.heard
      BY <1>2, <2>4, <3>2, <3>3 DEF Known
    <3> QED BY <2>2, <3>1, <3>4, <3>5
  <2> QED BY <2>1, <2>3, <2>4
<1>7. FrameInv'
  BY <1>2, <1>4, <1>6 DEF FrameInv
<1>8. Copies'
  <2> SUFFICES ASSUME NEW k \in 1 .. pings, k \notin answers.heard'
               PROVE  OneCopy(k)'
    BY <1>4 DEF Copies
  <2>1. OneCopy(k)
    BY <1>1, <1>2 DEF Copies
  <2>2. \A m \in Asking(k)' : m \in rest /\ m.frame.kind = "echo" /\ m.frame.id = k
    BY <1>2 DEF Asking
  <2>3. Asking(k)' \subseteq Asking(k)
    BY <2>2 DEF Asking
  <2>4. Waiting(k)' \subseteq Waiting(k)
    BY <1>1, WaitingIs DEF Typed
  <2>5. k \in answers.once' => k \in answers.once \/ k = made.id
    BY <1>2
  <2>6. k = made.id => Asking(k)' = {} /\ Waiting(k)' = {}
    BY <1>2, <2>2
  <2> QED BY <2>1, <2>3, <2>4, <2>5, <2>6, StillOne
<1> QED BY <1>2, <1>3, <1>7, <1>8 DEF MeshInv

-----------------------------------------------------------------------------
(* The uIP build's tick().                                                 *)

\* What uip_input() may work on: a frame has come, or the one sent last is looked at once more.
Input(n, t, rest) ==
  /\ t \in States /\ t.queue = node[n].queue /\ Known(t.buf)
  /\ t.buf.kind = "echo" /\ t.len > 0 /\ t.buf.id \notin answers.heard =>
       /\ \E m \in air : m.frame = t.buf /\ rest = air \ {m}
       /\ t.buf.cut => t.len = t.buf.got

LEMMA TakenIs ==
  ASSUME MeshInv, NEW n \in Nodes, env.build[n] = "uIP", NEW m \in Arriving(n, air)
  PROVE  Input(n, Taken(n, m), air \ {m})
<1> DEFINE s == node[n]
<1>1. Typed /\ FrameInv
  BY DEF MeshInv
<1>2. s \in States /\ Sound(n, s)
  BY <1>1 DEF Typed, FrameInv
<1>3. CASE m = Nothing
  <2> DEFINE q == s.due # Nobody /\ ~s.quiet
             t == [s EXCEPT !.quiet = q]
  <2>1. Taken(n, m) = t
    BY <1>2, <1>3 DEF Taken, States
  <2>2. q \in BOOLEAN
    OBVIOUS
  <2> HIDE DEF q
  <2>3. t \in States /\ t.buf = s.buf /\ t.queue = s.queue /\ t.len = s.len
    BY <1>2, <2>2 DEF States
  <2> HIDE DEF t
  <2> QED BY <1>2, <2>1, <2>3 DEF Input, Sound
<1>4. CASE m # Nothing
  <2> DEFINE u == [s EXCEPT !.buf = m.frame]
             l == IF m.frame.got >= Header THEN m.frame.got ELSE s.len
             t == [u EXCEPT !.len = l]
  <2>1. Taken(n, m) = t
    BY <1>2, <1>4 DEF Taken, States
  <2>2. /\ m \in air \/ m.frame.kind = None
        /\ m.frame \in Frames /\ Known(m.frame)
    <3>1. CASE m \in air
      BY <1>1, <3>1 DEF Typed, FrameInv, Messages
    <3>2. CASE m = Chatter(n)
      BY <1>1, <3>2, FrameTypes DEF Typed, Known, None, Messages
    <3> QED BY <1>4, <3>1, <3>2 DEF Arriving
  <2>3. l \in Extents /\ (m.frame.got >= Header => l = m.frame.got)
    BY <1>2, <2>2 DEF States, Frames
  <2> HIDE DEF l
  <2>4. u \in States /\ u.buf = m.frame /\ u.queue = s.queue
    BY <1>2, <2>2 DEF States
  <2> HIDE DEF u, s
  <2>5. t \in States /\ t.buf = m.frame /\ t.queue = s.queue /\ t.len = l
    BY <2>3, <2>4 DEF States
  <2> HIDE DEF t
  <2>6. m.frame.kind = "echo" /\ m.frame.id \notin answers.heard /\ m.frame.cut => m.frame.got >= Header
    BY <2>2, FrameTypes DEF Known, Header, Frames
  <2>7. Input(n, t, air \ {m})
    BY <2>2, <2>3, <2>5, <2>6 DEF Input, s, None
  <2> QED BY <2>1, <2>7
<1> QED BY <1>3, <1>4

\* network_send()
LEMMA SendIs ==
  ASSUME MeshInv, UNCHANGED <<env, pings>>, NEW n \in Nodes, env.build[n] = "uIP", NEW made, Sendable(n, made),
         NEW rest \in SUBSET air, NEW left \in States, left.queue = node[n].queue,
         Send(n, made, rest, left),
         made.id \in answers.heard \cup {0}
           \/ (Waiting(made.id) = {} /\ \A m \in rest : m.frame.kind = "echo" => m.frame.id # made.id)
  PROVE  MeshInv'
<1>1. Typed /\ FrameInv
  BY DEF MeshInv
<1>2. PICK found \in Asks(n, made) :
        \E asked \in IF Looks(n, made) /\ n # Master THEN Arriving(n, rest) ELSE {Nothing} :
          /\ Write(n, made, rest, found, asked)
          /\ node' = [node EXCEPT ![n] =
                        [left EXCEPT !.buf = IF asked = Nothing THEN made ELSE asked.frame, !.len = made.len]]
  BY Zenon DEF Send, Asks
<1>3. PICK asked \in IF Looks(n, made) /\ n # Master THEN Arriving(n, rest) ELSE {Nothing} :
        /\ Write(n, made, rest, found, asked)
        /\ node' = [node EXCEPT ![n] =
                      [left EXCEPT !.buf = IF asked = Nothing THEN made ELSE asked.frame, !.len = made.len]]
  BY <1>2, Zenon
<1>4. asked = Nothing
        \/ (asked \in rest \cup {Chatter(n)} /\ n = Child /\ Looks(n, made) /\ env.build[n] = "uIP")
  BY <1>3 DEF Arriving, Nodes
<1> DEFINE b == IF asked = Nothing THEN made ELSE asked.frame
           v == [left EXCEPT !.buf = b]
           s == [v EXCEPT !.len = made.len]
<1>5. node' = [node EXCEPT ![n] = s]
  BY <1>3 DEF States
<1>6. b \in Frames /\ made.len \in Extents
  BY <1>1, <1>4, FrameTypes DEF Sendable, Frames, Typed, Messages
<1>7. b = made \/ b = asked.frame
  OBVIOUS
<1> HIDE DEF b
<1>8. v \in States /\ v.buf = b /\ v.queue = left.queue
  BY <1>6 DEF States
<1> HIDE DEF v
<1>9. s \in States /\ s.buf = b /\ s.queue = node[n].queue
  BY <1>6, <1>8 DEF States
<1> HIDE DEF s
<1>10. /\ node \in [Nodes -> States]
       /\ node' \in [Nodes -> States] /\ node'[n] = s /\ \A j \in Nodes : j # n => node'[j] = node[j]
  BY <1>1, <1>5, <1>9 DEF Typed
<1>11. \A j \in Nodes : node'[j].queue \subseteq node[j].queue
  BY <1>9, <1>10
<1>12. \A j \in Nodes : Sound(j, node'[j]) \/ (j = n /\ (node'[n].buf = made \/ node'[n].buf = asked.frame))
  BY <1>1, <1>7, <1>9, <1>10 DEF FrameInv
<1>13. \A k : Waiting(k) = {} => Waiting(k)' = {}
  BY <1>10, <1>11, WaitingIs
<1> QED BY <1>3, <1>4, <1>10, <1>11, <1>12, <1>13, Sending

LEMMA UipInputIs ==
  ASSUME MeshInv, UNCHANGED <<env, pings>>, NEW n \in Nodes, env.build[n] = "uIP",
         NEW rest \in SUBSET air, NEW t, Input(n, t, rest), UipInput(n, t, rest)
  PROVE  MeshInv'
<1>1. Typed /\ FrameInv /\ Copies
  BY DEF MeshInv
<1>2. t \in States /\ t.queue = node[n].queue /\ Known(t.buf) /\ t.buf \in Frames /\ t.len \in Extents
  BY DEF Input, States
<1>3. CASE \E made \in Made(n, t.buf, Passes(n, t.buf, t.len)) : Send(n, made, rest, t)
  <2> DEFINE f == t.buf
  <2>1. PICK made : made = Answer(n, f) /\ Send(n, made, rest, t) /\ f.kind = "echo" /\ Passes(n, f, t.len)
    BY <1>3 DEF Made
  <2>2. f.flaw = None /\ f.len % 256 <= t.len /\ f.dst = Addr(n) /\ t.len > 0
    BY <2>1 DEF Passes, UipInput
  <2>3. f.id \notin answers.heard =>
          /\ \E m \in air : m.frame = f /\ rest = air \ {m}
          /\ f.cut => t.len = f.got
    BY <2>1, <2>2 DEF Input
  <2> HIDE DEF f
  <2>4. f \in Frames /\ Known(f)
    BY <1>2 DEF f
  <2>5. \/ ~f.cut \/ f.id \in answers.heard
        \/ env.build[n] = "uIP" /\ f.len >= 256
    <3> SUFFICES ASSUME f.cut, f.id \notin answers.heard, ~(f.len >= 256) PROVE FALSE
      OBVIOUS
    <3>1. f.len \in Nat /\ f.got \in Nat
      BY <2>4, FrameTypes, ZenonT(40) DEF Frames
    <3>2. f.len % 256 = f.len
      BY <3>1
    <3>3. f.got \in Header .. f.len - 1
      BY <2>1, <2>4 DEF Known
    <3> QED BY <2>2, <2>3, <3>1, <3>2, <3>3
  <2>6. pings \in Nat
    BY <1>1 DEF Typed
  <2>7. /\ made \in Frames /\ Right(n, made) /\ made.id = f.id /\ made.len = f.len
        /\ made.dst \in Hosts
    BY <2>1, <2>2, <2>4, <2>5, <2>6, AnswerIs
  <2>8. CASE f.id \in answers.heard
    BY <1>2, <2>1, <2>7, <2>8, SendIs DEF Sendable
  <2>9. CASE f.id \notin answers.heard
    <3>1. PICK m \in air : m.frame = f /\ rest = air \ {m}
      BY <2>3, <2>9
    <3>2. m \in Asking(f.id)
      BY <2>1, <3>1 DEF Asking
    <3>3. OneCopy(f.id)
      BY <1>1, <2>1, <2>4, <2>6, <2>9 DEF Copies, Known
    <3>4. f.id \notin answers.once /\ Waiting(f.id) = {} /\ \A x \in Asking(f.id) : x = m
      BY <3>2, <3>3 DEF OneCopy
    <3>5. \A x \in rest : x.frame.kind = "echo" => x.frame.id # f.id
      BY <3>1, <3>4 DEF Asking
    <3> QED BY <1>2, <2>1, <2>7, <3>4, <3>5, SendIs DEF Sendable
  <2> QED BY <2>8, <2>9
<1>4. CASE /\ node' = [node EXCEPT ![n] = [t EXCEPT !.len = 0]]
           /\ air' = rest /\ UNCHANGED <<sent, answers>>
  <2> DEFINE s == [t EXCEPT !.len = 0]
  <2>1. s \in States /\ s.queue = t.queue /\ s.buf = t.buf /\ s.len = 0
    BY <1>2, FrameTypes DEF States, Extents
  <2>2. node' = [node EXCEPT ![n] = s]
    BY <1>4
  <2> HIDE DEF s
  <2>3. Sound(n, s)
    BY <1>1, <1>2, <2>1 DEF FrameInv, Sound
  <2> QED BY <1>1, <1>2, <1>4, <2>1, <2>2, <2>3, Silent DEF Typed, FrameInv
<1> QED BY <1>3, <1>4 DEF UipInput

LEMMA UipPeriodicIs ==
  ASSUME MeshInv, UNCHANGED <<env, pings>>, NEW n \in Nodes, env.build[n] = "uIP",
         NEW rest \in SUBSET air, NEW t, Input(n, t, rest), UipPeriodic(n, t, rest)
  PROVE  MeshInv'
<1>1. Typed /\ FrameInv
  BY DEF MeshInv
<1>2. /\ t \in States /\ t.queue = node[n].queue /\ Known(t.buf) /\ t.len = 0
      /\ t.due \in {Nobody, Outside, Cousin} /\ t.start \in Int /\ t.late \in Int
  BY DEF Input, States, UipPeriodic
<1> DEFINE a == [t EXCEPT !.due = Nobody]
           b == [a EXCEPT !.start = Restart(t.start)]
           g == [b EXCEPT !.late = t.late - Interval]
           left == [g EXCEPT !.quiet = FALSE]
           c == [NoFrame EXCEPT !.kind = "tcp"]
           d == [c EXCEPT !.src = Addr(n)]
           e == [d EXCEPT !.dst = t.due]
           f == [e EXCEPT !.got = 40]
           segment == [f EXCEPT !.len = 40]
<1>3. /\ \/ t.due # Nobody /\ Send(n, segment, rest, left)
         \/ /\ t.due = Nobody
            /\ node' = [node EXCEPT ![n] = left]
            /\ air' = rest /\ UNCHANGED <<sent, answers>>
  BY <1>2 DEF UipPeriodic, States
<1>4. ClockRange \in Nat \ {0} /\ Interval \in Int /\ Restart(t.start) \in Int
  BY <1>2, MeshAssumption DEF Restart
<1>5. a \in States /\ a.queue = t.queue /\ a.buf = t.buf /\ a.len = 0
  BY <1>2 DEF States
<1> HIDE DEF a
<1>6. b \in States /\ b.queue = t.queue /\ b.buf = t.buf /\ b.len = 0
  BY <1>4, <1>5 DEF States
<1> HIDE DEF b
<1>10. g \in States /\ g.queue = t.queue /\ g.buf = t.buf /\ g.len = 0
  BY <1>2, <1>4, <1>6 DEF States
<1> HIDE DEF g
<1>7. left \in States /\ left.queue = t.queue /\ left.buf = t.buf /\ left.len = 0
  BY <1>10 DEF States
<1> HIDE DEF left
<1>8. CASE t.due # Nobody /\ Send(n, segment, rest, left)
  <2>1. t.due \in Hosts /\ t.due \in Places /\ Addr(n) \in Places
    BY <1>2, <1>8, FrameTypes DEF Hosts, Places
  <2>2. c \in Frames /\ c.kind = "tcp" /\ c.id = 0
    BY FrameTypes DEF Frames
  <2> HIDE DEF c
  <2>3. d \in Frames /\ d.kind = "tcp" /\ d.id = 0
    BY <2>1, <2>2 DEF Frames
  <2> HIDE DEF d
  <2>4. e \in Frames /\ e.kind = "tcp" /\ e.id = 0 /\ e.dst = t.due
    BY <2>1, <2>3 DEF Frames
  <2> HIDE DEF e
  <2>5. f \in Frames /\ f.kind = "tcp" /\ f.id = 0 /\ f.dst = t.due
    BY <2>4 DEF Frames, Extents
  <2> HIDE DEF f
  <2>6. segment \in Frames /\ segment.kind = "tcp" /\ segment.id = 0 /\ segment.dst = t.due
    BY <2>5 DEF Frames, Extents
  <2> HIDE DEF segment
  <2>7. Sendable(n, segment)
    BY <2>1, <2>6 DEF Sendable
  <2> QED BY <1>2, <1>7, <1>8, <2>6, <2>7, SendIs
<1>9. CASE node' = [node EXCEPT ![n] = left] /\ air' = rest /\ UNCHANGED <<sent, answers>>
  <2>1. Sound(n, left)
    BY <1>1, <1>2, <1>7 DEF FrameInv, Sound
  <2> QED BY <1>1, <1>2, <1>7, <1>9, <2>1, Silent DEF Typed, FrameInv
<1> QED BY <1>3, <1>8, <1>9

LEMMA UipTickIs ==
  ASSUME MeshInv, NEW n \in Nodes, UipTick(n)
  PROVE  MeshInv'
<1>1. env.build[n] = "uIP" /\ UNCHANGED <<env, pings>>
  BY DEF UipTick
<1>2. PICK m \in Arriving(n, air) : \E t \in {Taken(n, m)} :
        UipInput(n, t, air \ {m}) \/ UipPeriodic(n, t, air \ {m}) \/ UipIdle(n, t, air \ {m})
  BY Zenon DEF UipTick
<1> DEFINE t == Taken(n, m)
<1>3. UipInput(n, t, air \ {m}) \/ UipPeriodic(n, t, air \ {m}) \/ UipIdle(n, t, air \ {m})
  BY <1>2
<1>4. Input(n, t, air \ {m})
  BY <1>1, TakenIs
<1>5. air \ {m} \in SUBSET air
  OBVIOUS
<1> HIDE DEF t
<1>6. CASE UipIdle(n, t, air \ {m})
  <2>1. Typed /\ FrameInv
    BY DEF MeshInv
  <2>2. t \in States /\ t.queue = node[n].queue /\ Sound(n, t)
    BY <1>4, <1>6, <2>1 DEF Input, UipIdle, Sound, FrameInv
  <2> QED BY <1>1, <1>5, <1>6, <2>1, <2>2, Silent DEF UipIdle, Typed, FrameInv
<1> QED BY <1>1, <1>3, <1>4, <1>5, <1>6, UipInputIs, UipPeriodicIs

-----------------------------------------------------------------------------
(* The other builds, and the rest of the world.                            *)

LEMMA OtherTickIs ==
  ASSUME MeshInv, NEW n \in Nodes, OtherTick(n)
  PROVE  MeshInv'
<1>1. Typed /\ FrameInv /\ Copies /\ SentInv /\ RoutesHome /\ UNCHANGED <<env, pings, sent, answers>>
  BY DEF MeshInv, OtherTick
<1>2. PICK m \in air : /\ m.to = n /\ air' = air \ {m}
                       /\ node' = [node EXCEPT ![n].queue = @ \cup Made(n, m.frame, InOrder(n, m.frame))]
  BY Zenon DEF OtherTick
<1> DEFINE f == m.frame
           made == Made(n, f, InOrder(n, f))
           s == node[n]
           t == [s EXCEPT !.queue = s.queue \cup made]
<1>3. /\ env.build[n] # "uIP" /\ pings \in Nat /\ s \in States /\ Sound(n, s)
      /\ f \in Frames /\ Known(f) /\ node \in [Nodes -> States]
  BY <1>1 DEF OtherTick, Typed, FrameInv, Messages
<1>4. node' = [node EXCEPT ![n] = t]
  BY <1>2
<1>5. made = {} \/ (made = {Answer(n, f)} /\ f.kind = "echo" /\ InOrder(n, f))
  BY DEF Made
<1>6. CASE made = {}
  <2>1. t = s
    BY <1>3, <1>6 DEF States
  <2>2. node' = node
    BY <1>3, <1>4, <2>1
  <2> QED BY <1>1, <1>2, <1>3, <2>2, Silent, Zenon DEF FrameInv
<1>7. CASE made = {Answer(n, f)} /\ f.kind = "echo" /\ InOrder(n, f)
  <2> DEFINE a == Answer(n, f)
  <2>1. ~f.cut \/ f.id \in answers.heard
    <3>1. f.len <= f.got /\ f.len \in Nat /\ f.got \in Nat
      BY <1>3, <1>7, FrameTypes, Zenon DEF InOrder, Frames
    <3> QED BY <1>3, <1>7, <3>1 DEF Known
  <2>2. f.flaw = None /\ f.dst = Addr(n)
    BY <1>7 DEF InOrder
  <2>3. a \in Frames /\ Right(n, a) /\ a.id = f.id
    BY <1>3, <1>7, <2>1, <2>2, AnswerIs
  <2>4. made = {a}
    BY <1>7, Zenon
  <2> HIDE DEF a, f, made, s
  <2>5. /\ t \in States /\ t.queue = s.queue \cup {a} /\ t.buf = s.buf /\ t.len = s.len
    BY <1>3, <2>3, <2>4 DEF States
  <2> HIDE DEF t
  <2>6. Sound(n, t)
    BY <1>3, <2>3, <2>5 DEF Sound
  <2>7. /\ node' \in [Nodes -> States] /\ node'[n] = t
        /\ \A j \in Nodes : j # n => node'[j] = node[j]
    BY <1>3, <1>4, <2>5
  <2>8. \A j \in Nodes : Sound(j, node'[j])
    BY <1>1, <2>6, <2>7 DEF FrameInv
  <2>9. \A x : Known(x) => Known(x)'
    BY <1>1, <1>3, StillKnown
  <2>10. \A j \in Nodes : Sound(j, node[j])'
    BY <1>1, <1>3, <2>8, StillSound
  <2>11. FrameInv'
    BY <1>1, <1>2, <2>9, <2>10, Zenon DEF FrameInv
  <2>12. Typed'
    BY <1>1, <1>2, <2>7 DEF Typed
  <2>13. Copies'
    <3> SUFFICES ASSUME NEW k \in 1 .. pings, k \notin answers.heard PROVE OneCopy(k)'
      BY <1>1 DEF Copies
    <3>1. OneCopy(k)
      BY <1>1 DEF Copies
    <3>2. Asking(k)' = Asking(k) \ {m}
      BY <1>2 DEF Asking
    <3>3. answers'.once = answers.once
      BY <1>1
    <3>4. CASE k # f.id
      <4>1. \A w \in Nodes \X Frames : w \in Waiting(k)' => w \in Waiting(k)
        <5> SUFFICES ASSUME NEW j \in Nodes, NEW x \in Frames, x \in node'[j].queue, x.id = k
                     PROVE  x \in node[j].queue
          BY DEF Waiting
        <5>1. CASE j = n
          BY <2>3, <2>5, <2>7, <3>4, <5>1 DEF s
        <5>2. CASE j # n
          BY <2>7, <5>2
        <5> QED BY <5>1, <5>2
      <4>2. Waiting(k)' \subseteq Waiting(k)
        BY <4>1 DEF Waiting
      <4> QED BY <3>1, <3>2, <3>3, <4>2, StillOne
    <3>5. CASE k = f.id
      <4>1. m \in Asking(k)
        BY <1>7, <3>5 DEF Asking, f
      <4>2. Asking(k)' = {} /\ Waiting(k) = {} /\ k \notin answers.once
        BY <3>1, <3>2, <4>1 DEF OneCopy
      <4>3. \A w \in Nodes \X Frames : w \in Waiting(k)' => w = <<n, a>>
        <5> SUFFICES ASSUME NEW j \in Nodes, NEW x \in Frames, x \in node'[j].queue, x.id = k
                     PROVE  j = n /\ x = a
          BY DEF Waiting
        <5>1. x \notin node[j].queue
          <6> SUFFICES ASSUME x \in node[j].queue PROVE <<j, x>> \in Waiting(k)
            BY <4>2
          <6> QED BY DEF Waiting
        <5>2. CASE j = n
          BY <2>5, <2>7, <5>1, <5>2 DEF s
        <5>3. CASE j # n
          BY <2>7, <5>1, <5>3
        <5> QED BY <5>2, <5>3
      <4>4. \A w1, w2 \in Waiting(k)' : w1 = w2
        BY <4>3 DEF Waiting
      <4> QED BY <3>3, <4>2, <4>4 DEF OneCopy
    <3> QED BY <3>4, <3>5
  <2>14. SentInv' /\ RoutesHome'
    BY <1>1 DEF SentInv, Right, RoutesHome
  <2> QED BY <2>11, <2>12, <2>13, <2>14 DEF MeshInv
<1> QED BY <1>5, <1>6, <1>7

LEMMA OtherSendIs ==
  ASSUME MeshInv, NEW n \in Nodes, OtherSend(n)
  PROVE  MeshInv'
<1>1. Typed /\ FrameInv /\ Copies /\ UNCHANGED <<env, pings>> /\ pings \in Nat
  BY DEF MeshInv, OtherSend, Typed
<1>2. PICK made \in node[n].queue :
        /\ IF ~Sends(n, made) THEN UNCHANGED <<air, sent, answers>>
           ELSE \E found \in IF Looks(n, made) THEN Found(made) ELSE {None} :
             \E lost \in IF Looks(n, made) /\ n # Master THEN Arriving(n, air) ELSE {Nothing} :
               Write(n, made, air \ {lost}, found, Nothing)
        /\ node' = [node EXCEPT ![n].queue = @ \ {made}]
  BY Zenon DEF OtherSend
<1> DEFINE s == node[n]
           t == [s EXCEPT !.queue = s.queue \ {made}]
<1>3. s \in States /\ Sound(n, s) /\ node \in [Nodes -> States]
  BY <1>1 DEF Typed, FrameInv
<1>4. node' = [node EXCEPT ![n] = t]
  BY <1>2
<1>5. made \in s.queue
  BY <1>2
<1> HIDE DEF s
<1>6. t \in States /\ t.queue = s.queue \ {made} /\ t.buf = s.buf /\ t.len = s.len
  BY <1>3 DEF States
<1> HIDE DEF t
<1>7. Sound(n, t)
  BY <1>3, <1>6 DEF Sound
<1>8. /\ node' \in [Nodes -> States] /\ node'[n] = t
      /\ \A j \in Nodes : j # n => node'[j] = node[j]
  BY <1>3, <1>4, <1>6
<1>9. \A j \in Nodes : node'[j].queue \subseteq node[j].queue /\ Sound(j, node'[j])
  BY <1>1, <1>6, <1>7, <1>8 DEF FrameInv, s
<1>10. CASE UNCHANGED <<air, sent, answers>>
  BY <1>1, <1>8, <1>9, <1>10, Silent
<1>11. CASE \E found \in IF Looks(n, made) THEN Found(made) ELSE {None} :
              \E lost \in IF Looks(n, made) /\ n # Master THEN Arriving(n, air) ELSE {Nothing} :
                Write(n, made, air \ {lost}, found, Nothing)
  <2>1. PICK found \in Asks(n, made) : \E lost : Write(n, made, air \ {lost}, found, Nothing)
    BY <1>11, Zenon DEF Asks
  <2>5. PICK lost : Write(n, made, air \ {lost}, found, Nothing)
    BY <2>1
  <2>2. Right(n, made) /\ made \in Frames
    BY <1>3, <1>5 DEF Sound, States
  <2>3. CASE made.id \in answers.heard
    <3>1. Sendable(n, made)
      BY <2>2, <2>3 DEF Sendable, Right
    <3> QED BY <1>1, <1>8, <1>9, <2>3, <2>5, <3>1, Sending
  <2>4. CASE made.id \notin answers.heard
    <3>1. OneCopy(made.id)
      BY <1>1, <2>2, <2>4 DEF Copies, Right
    <3>2. <<n, made>> \in Waiting(made.id)
      BY <1>5, <2>2 DEF Waiting, s
    <3>3. Asking(made.id) = {} /\ made.id \notin answers.once /\ \A w \in Waiting(made.id) : w = <<n, made>>
      BY <3>1, <3>2 DEF OneCopy
    <3>4. Sendable(n, made)
      BY <2>2, <3>3 DEF Sendable, Right
    <3>5. \A m \in air \ {lost} : m.frame.kind = "echo" => m.frame.id # made.id
      BY <3>3 DEF Asking
    <3>6. \A w : w \in Waiting(made.id)' => w \in Waiting(made.id)
      BY <1>3, <1>8, <1>9, WaitingIs
    <3>7. <<n, made>> \notin Waiting(made.id)'
      BY <1>6, <1>8 DEF Waiting
    <3>8. Waiting(made.id)' = {}
      BY <3>3, <3>6, <3>7
    <3> QED BY <1>1, <1>8, <1>9, <2>5, <3>4, <3>5, <3>8, Sending
  <2> QED BY <2>3, <2>4
<1> QED BY <1>2, <1>10, <1>11, Zenon

LEMMA PingIs ==
  ASSUME MeshInv, Ping
  PROVE  MeshInv'
<1>1. /\ Typed /\ FrameInv /\ Copies /\ SentInv /\ RoutesHome /\ pings' = pings + 1 /\ pings \in Nat
      /\ UNCHANGED <<env, node, sent, answers>>
  BY DEF MeshInv, Ping, Typed
<1>2. PICK n \in Nodes, src \in Hosts, dst \in {Addr(Master), Addr(Child)},
           len \in Lengths, got \in Sizes, flaw \in Flaws, sum \in Sums :
        air' = air \cup {[to |-> n, frame |-> Request(src, dst, len, got, flaw, sum, pings + 1)]}
  BY DEF Ping, Hosts
<1>15. PICK f : f = Request(src, dst, len, got, flaw, sum, pings + 1)
  OBVIOUS
<1> DEFINE m == [to |-> n, frame |-> f]
<1>3. /\ f.kind = "echo" /\ f.src = src /\ f.dst = dst /\ f.got = got /\ f.len = len /\ f.sum = sum /\ f.was = sum
      /\ f.id = pings + 1 /\ f.meant = dst /\ (f.cut <=> got \in Header .. len - 1)
  BY <1>15, Zenon DEF Request
<1>4. f \in Frames
  <2>1. /\ src \in Places /\ dst \in Places /\ len \in Extents /\ got \in Extents /\ sum \in Nat
        /\ pings + 1 \in Nat /\ (got \in Header .. len - 1) \in BOOLEAN
    BY <1>1 DEF Places, Hosts, Extents, Sums
  <2> QED BY <1>15, <2>1 DEF Request, Frames
<1>5. m \in Messages /\ m.frame = f
  BY <1>4 DEF Messages
<1>6. air' = air \cup {m}
  BY <1>2, <1>15
<1> HIDE DEF m
<1>7. pings' \in Nat
  BY <1>1
<1>8. Typed'
  BY <1>1, <1>5, <1>6, <1>7 DEF Typed
<1>9. /\ \A x : Known(x) => Known(x)'
      /\ \A j \in Nodes : \A x : Right(j, x) => Right(j, x)'
      /\ \A j \in Nodes : \A x : Sound(j, x) => Sound(j, x)'
  BY <1>1, StillKnown
<1>10. Known(f)'
  BY <1>1, <1>3, <1>7 DEF Known
<1>11. FrameInv'
  <2>1. 1 .. pings \subseteq 1 .. pings'
    BY <1>1
  <2>2. \A j \in Nodes : Sound(j, node[j])'
    BY <1>1, StillSound DEF FrameInv
  <2>3. \A x \in air' : Known(x.frame)'
    BY <1>1, <1>5, <1>6, <1>9, <1>10 DEF FrameInv
  <2> QED BY <1>1, <2>1, <2>2, <2>3 DEF FrameInv
<1>12. SentInv'
  <2>1. sent.by \in Nodes \/ sent.made.kind # "reply" \/ Right(sent.by, sent.made)
    BY <1>1 DEF SentInv
  <2>2. 1 .. pings \subseteq 1 .. pings'
    BY <1>1
  <2> QED BY <1>1, <2>2 DEF SentInv, Right
<1>13. Copies'
  <2> SUFFICES ASSUME NEW k \in 1 .. pings + 1, k \notin answers.heard PROVE OneCopy(k)'
    BY <1>1 DEF Copies
  <2>1. Waiting(k)' = Waiting(k)
    BY <1>1 DEF Waiting
  <2>2. CASE k # pings + 1
    <3>1. OneCopy(k)
      BY <1>1, <2>2 DEF Copies
    <3>2. Asking(k)' = Asking(k)
      BY <1>3, <1>5, <1>6, <2>2 DEF Asking
    <3> QED BY <1>1, <2>1, <3>1, <3>2, StillOne
  <2>3. CASE k = pings + 1
    <3>1. Asking(k) = {} /\ Waiting(k) = {} /\ k \notin answers.once
      BY <1>1, <2>3 DEF Asking, Waiting, FrameInv, Known, Sound, Right
    <3>2. Asking(k)' \subseteq {m}
      BY <1>6, <3>1 DEF Asking
    <3> QED BY <1>1, <2>1, <3>1, <3>2 DEF OneCopy
  <2> QED BY <2>2, <2>3
<1>14. RoutesHome'
  BY <1>1 DEF RoutesHome
<1> QED BY <1>8, <1>11, <1>12, <1>13, <1>14 DEF MeshInv

LEMMA DueIs ==
  ASSUME MeshInv, Due
  PROVE  MeshInv'
<1>1. Typed /\ FrameInv /\ UNCHANGED <<env, pings, sent, answers, air>>
  BY DEF MeshInv, Due
<1>2. PICK n \in Nodes, dst \in {Outside, Cousin} : node' = [node EXCEPT ![n].due = dst]
  BY Zenon DEF Due
<1> DEFINE s == node[n]
           t == [s EXCEPT !.due = dst]
<1>3. node' = [node EXCEPT ![n] = t]
  BY <1>2
<1>4. s \in States /\ Sound(n, s) /\ node \in [Nodes -> States]
  BY <1>1 DEF Typed, FrameInv
<1>5. t \in States /\ t.queue = s.queue /\ t.buf = s.buf /\ t.len = s.len
  BY <1>4 DEF States
<1> HIDE DEF t
<1>6. Sound(n, t)
  BY <1>4, <1>5 DEF Sound
<1> QED BY <1>1, <1>3, <1>4, <1>5, <1>6, Silent DEF FrameInv

LEMMA ClockIs ==
  ASSUME MeshInv, Clock
  PROVE  MeshInv'
<1>1. Typed /\ FrameInv /\ UNCHANGED <<env, pings, sent, answers, air>>
  BY DEF MeshInv, Clock
<1> DEFINE Late(s) == [s EXCEPT !.late = (s.late + 1) % ClockRange]
<1>2. node' = [n \in Nodes |-> IF env.build[n] = "uIP" THEN Late(node[n]) ELSE node[n]]
  BY DEF Clock
<1>3. \A s \in States : /\ Late(s) \in States /\ Late(s).queue = s.queue
                        /\ Late(s).buf = s.buf /\ Late(s).len = s.len
  <2>1. \A s \in States : (s.late + 1) % ClockRange \in Int
    BY MeshAssumption DEF States
  <2> QED BY <2>1 DEF States
<1>4. \A n \in Nodes : node[n] \in States /\ Sound(n, node[n])
  BY <1>1 DEF Typed, FrameInv
<1> HIDE DEF Late
<1>5. \A n \in Nodes : Sound(n, Late(node[n]))
  BY <1>3, <1>4 DEF Sound
<1>6. /\ node' \in [Nodes -> States]
      /\ \A n \in Nodes : node'[n].queue \subseteq node[n].queue /\ Sound(n, node'[n])
  BY <1>2, <1>3, <1>4, <1>5
<1> QED BY <1>1, <1>6, Silent

LEMMA MeshStarts == Init => MeshInv
<1> SUFFICES ASSUME Init PROVE MeshInv
  OBVIOUS
<1>1. /\ air = {} /\ pings = 0 /\ answers.heard = {} /\ answers.once = {} /\ answers.again = {}
      /\ answers \in [heard : SUBSET Nat, once : SUBSET Nat, again : SUBSET Nat]
      /\ env \in [build : [Nodes -> Builds], signed : BOOLEAN]
  BY DEF Init, Builds
<1>2. clock \in Int
  BY MeshAssumption DEF Init
<1>3. \A n \in Nodes : /\ node[n] \in States /\ node[n].buf = NoFrame /\ node[n].len = 0 /\ node[n].queue = {}
  <2> DEFINE first == [buf |-> NoFrame, len |-> 0, due |-> Nobody, start |-> clock, late |-> 0,
                       quiet |-> FALSE, queue |-> {}]
  <2>1. 0 \in Extents /\ 0 \in Int /\ FALSE \in BOOLEAN /\ {} \in SUBSET Frames
    BY DEF Extents
  <2>2. first \in States
    BY <1>2, <2>1, FrameTypes DEF States
  <2>3. \A n \in Nodes : node[n] = first
    BY DEF Init
  <2>4. first.buf = NoFrame /\ first.len = 0 /\ first.queue = {}
    OBVIOUS
  <2> HIDE DEF first
  <2> QED BY <2>2, <2>3, <2>4
<1>4. node \in [Nodes -> States]
  BY <1>3 DEF Init
<1>5. /\ sent.by = None /\ sent.made = NoFrame
      /\ sent \in [by : Nodes \cup {None}, made : Frames, frame : Frames, to : Nodes \cup {None},
                   found : {None, Child}]
  BY FrameTypes DEF Init
<1>6. Typed
  BY <1>1, <1>4, <1>5 DEF Typed
<1>7. Known(NoFrame) /\ NoFrame.kind # "echo" /\ NoFrame.kind # "reply"
  BY <1>1, FrameTypes DEF Known, None
<1>8. FrameInv
  BY <1>1, <1>3, <1>7 DEF FrameInv, Sound
<1>9. Copies /\ SentInv /\ RoutesHome
  BY <1>1, <1>5, <1>7 DEF Copies, SentInv, RoutesHome
<1> QED BY <1>6, <1>8, <1>9 DEF MeshInv

LEMMA MeshSteps == MeshInv /\ [Next]_vars => MeshInv'
<1> SUFFICES ASSUME MeshInv, [Next]_vars PROVE MeshInv'
  OBVIOUS
<1>1. CASE UNCHANGED <<env, pings, sent, answers, air, node>>
  BY <1>1, Silent DEF MeshInv, Typed, FrameInv
<1>2. CASE Lose
  BY <1>2, Silent DEF Lose, MeshInv, Typed, FrameInv
<1> QED BY <1>1, <1>2, UipTickIs, OtherTickIs, OtherSendIs, PingIs, DueIs, ClockIs DEF Next, vars

\* Every frame goes where the rules of network_send(), sendFrameToRadio() and sendFrame() send it,
\* and is the one that was made, but for the two exceptions RoutesHome names.
THEOREM FramesRouted == Spec => []RoutesHome
<1>1. Init => MeshInv
  BY MeshStarts
<1>2. MeshInv /\ [Next]_vars => MeshInv'
  BY MeshSteps
<1>3. MeshInv => RoutesHome
  BY DEF MeshInv
<1> QED BY <1>1, <1>2, <1>3, PTL DEF Spec

\* A request is answered once, by the node it is for, with a right checksum, if it came whole - and
\* was not heard during a lookup, and but for the 256 octets uip_process() does not see.
THEOREM RequestsAnswered == Spec => []AnswersOnce
<1>1. Init => MeshInv
  BY MeshStarts
<1>2. MeshInv /\ [Next]_vars => MeshInv'
  BY MeshSteps
<1>3. MeshInv => AnswersOnce
  BY DEF MeshInv, SentInv, Right, AnswersOnce
<1> QED BY <1>1, <1>2, <1>3, PTL DEF Spec

-----------------------------------------------------------------------------
(* periodic_timer.                                                         *)

LEMMA Turn ==
  ASSUME NEW d \in Nat \ {0}, NEW n \in Nat, n < d + d
  PROVE  n % d = IF n < d THEN n ELSE n - d
<1> DEFINE b == n % d
           p == n \div d
           a == IF n < d THEN n ELSE n - d
           q == IF n < d THEN 0 ELSE 1
<1>1. b \in 0 .. d - 1 /\ p \in Int /\ n = d * p + b
  OBVIOUS
<1>2. a \in 0 .. d - 1 /\ q \in Int /\ n = d * q + a
  OBVIOUS
<1> HIDE DEF b, p, a, q
<1>3. a - b = d * (p - q)
  BY <1>1, <1>2
<1>4. CASE p - q >= 1
  <2>1. d * (p - q) >= d
    BY <1>1, <1>2, <1>4
  <2> QED BY <1>1, <1>2, <1>3, <2>1
<1>5. CASE p - q <= -1
  <2>1. d * (p - q) <= -d
    BY <1>1, <1>2, <1>5
  <2> QED BY <1>1, <1>2, <1>3, <2>1
<1>6. CASE p - q = 0
  BY <1>1, <1>2, <1>3, <1>6
<1>7. p - q >= 1 \/ p - q <= -1 \/ p - q = 0
  BY <1>1, <1>2
<1>8. a = b
  BY <1>4, <1>5, <1>6, <1>7, <1>1, <1>2, <1>3
<1> QED BY <1>8 DEF a, b

\* The timer was started as long ago as tick() has not been called.
InStep(start, late) ==
  /\ start \in 0 .. ClockRange - 1 /\ late \in 0 .. ClockRange - 1
  /\ clock = IF start + late < ClockRange THEN start + late ELSE start + late - ClockRange

Timely ==
  /\ clock \in 0 .. ClockRange - 1
  /\ \A n \in Nodes : env.build[n] = "uIP" => InStep(node[n].start, node[n].late)

LEMMA ClockTurn ==
  \A n \in Nat : n < ClockRange + ClockRange =>
    n % ClockRange = IF n < ClockRange THEN n ELSE n - ClockRange
<1>1. ClockRange \in Nat \ {0}
  BY MeshAssumption
<1> QED BY <1>1, Turn, Zenon

LEMMA InStepIs ==
  ASSUME NEW start, NEW late, InStep(start, late)
  PROVE  (start + late) % ClockRange = clock
<1>1. /\ start \in Nat /\ late \in Nat
      /\ start + late \in Nat /\ start + late < ClockRange + ClockRange
  BY MeshAssumption DEF InStep
<1>2. (start + late) % ClockRange = IF start + late < ClockRange THEN start + late ELSE start + late - ClockRange
  BY <1>1, ClockTurn, MeshAssumption, SMTT(30)
<1> QED BY <1>2 DEF InStep

\* timer_reset() moves the start by the interval, not to the clock.
LEMMA RestartIs ==
  ASSUME NEW n \in Nodes, Timely, env.build[n] = "uIP", Expired(n)
  PROVE  InStep(Restart(node[n].start), node[n].late - Interval)
<1> DEFINE start == node[n].start
           late == node[n].late
<1>1. InStep(start, late) /\ clock \in 0 .. ClockRange - 1
  BY DEF Timely
<1>2. (clock - start + ClockRange) % ClockRange >= Interval
  BY DEF Expired
<1> HIDE DEF start, late
<1>3. /\ ClockRange \in Nat \ {0} /\ Interval \in 1 .. ClockRange - 1
      /\ start \in 0 .. ClockRange - 1 /\ late \in 0 .. ClockRange - 1
  BY <1>1, MeshAssumption DEF InStep
<1>4. clock - start + ClockRange \in Nat /\ clock - start + ClockRange < ClockRange + ClockRange
  BY <1>1, <1>3
<1>5. (clock - start + ClockRange) % ClockRange = late
  <2>1. late = IF clock - start + ClockRange < ClockRange THEN clock - start + ClockRange ELSE clock - start
    BY <1>1, <1>3 DEF InStep
  <2>2. (clock - start + ClockRange) % ClockRange
          = IF clock - start + ClockRange < ClockRange THEN clock - start + ClockRange
            ELSE clock - start + ClockRange - ClockRange
    BY <1>1, <1>3, <1>4, ClockTurn, SMTT(30)
  <2> QED BY <1>1, <1>3, <2>1, <2>2
<1>6. late >= Interval
  BY <1>2, <1>5
<1>7. start + Interval \in Nat /\ start + Interval < ClockRange + ClockRange
  BY <1>3
<1>8. Restart(start) = IF start + Interval < ClockRange THEN start + Interval ELSE start + Interval - ClockRange
  BY <1>3, <1>7, ClockTurn DEF Restart
<1>9. InStep(Restart(start), late - Interval)
  BY <1>1, <1>3, <1>6, <1>8 DEF InStep
<1> QED BY <1>9 DEF start, late

LEMMA TimelySame ==
  ASSUME Timely, UNCHANGED <<env, clock>>,
         \A n \in Nodes : env.build[n] = "uIP" =>
           \/ node'[n].start = node[n].start /\ node'[n].late = node[n].late
           \/ InStep(node'[n].start, node'[n].late)
  PROVE  Timely'
BY DEF Timely, InStep

LEMMA TimelyTick ==
  ASSUME MeshInv, Timely, NEW n \in Nodes, UipTick(n)
  PROVE  Timely'
<1>1. env.build[n] = "uIP" /\ UNCHANGED <<env, clock>>
  BY DEF UipTick
<1>2. PICK m \in Arriving(n, air) : \E t \in {Taken(n, m)} :
        UipInput(n, t, air \ {m}) \/ UipPeriodic(n, t, air \ {m}) \/ UipIdle(n, t, air \ {m})
  BY DEF UipTick
<1> DEFINE t == Taken(n, m)
           rest == air \ {m}
<1>3. UipInput(n, t, rest) \/ UipPeriodic(n, t, rest) \/ UipIdle(n, t, rest)
  BY <1>2
<1>4. t \in States /\ node \in [Nodes -> States]
  BY <1>1, TakenIs DEF Input, MeshInv, Typed
<1>5. t.start = node[n].start /\ t.late = node[n].late
  <2>1. \A s \in States : \A b, l :
          LET x == [s EXCEPT !.buf = b, !.len = l] IN x.start = s.start /\ x.late = s.late
    BY DEF States
  <2>2. \A s \in States : \A q :
          LET x == [s EXCEPT !.quiet = q] IN x.start = s.start /\ x.late = s.late
    BY DEF States
  <2> QED BY <1>4, <2>1, <2>2 DEF Taken
<1> HIDE DEF t, rest
<1>6. \A s, b, l : s \in States =>
        LET x == [s EXCEPT !.buf = b, !.len = l] IN x.start = s.start /\ x.late = s.late
  BY DEF States
<1>7. \A made, left : left \in States /\ Send(n, made, rest, left) =>
        /\ node'[n].start = left.start /\ node'[n].late = left.late
        /\ \A j \in Nodes : j # n => node'[j] = node[j]
  BY <1>4, <1>6 DEF Send
<1>8. CASE UipInput(n, t, rest)
  <2>1. [t EXCEPT !.len = 0].start = t.start /\ [t EXCEPT !.len = 0].late = t.late
    BY <1>4 DEF States
  <2>2. /\ node'[n].start = node[n].start /\ node'[n].late = node[n].late
        /\ \A j \in Nodes : j # n => node'[j] = node[j]
    BY <1>4, <1>5, <1>7, <1>8, <2>1, Zenon DEF UipInput
  <2> QED BY <1>1, <2>2, TimelySame
<1>9. CASE UipPeriodic(n, t, rest)
  <2> DEFINE left == [t EXCEPT !.due = Nobody, !.start = Restart(t.start), !.late = t.late - Interval,
                                !.quiet = FALSE]
             made == [NoFrame EXCEPT !.kind = "tcp", !.src = Addr(n), !.dst = t.due, !.got = 40, !.len = 40]
  <2>1. /\ Expired(n)
        /\ Send(n, made, rest, left) \/ node' = [node EXCEPT ![n] = left]
    BY <1>4, <1>9 DEF UipPeriodic, States
  <2>2. ClockRange \in Nat \ {0} /\ Interval \in Int /\ Restart(t.start) \in Int
    BY <1>4, MeshAssumption DEF Restart, States
  <2>3. left \in States /\ left.start = Restart(t.start) /\ left.late = t.late - Interval
    <3> DEFINE a == [t EXCEPT !.due = Nobody]
               b == [a EXCEPT !.start = Restart(t.start)]
               c == [b EXCEPT !.late = t.late - Interval]
               d == [c EXCEPT !.quiet = FALSE]
    <3>1. left = d
      OBVIOUS
    <3>2. a \in States /\ t.late \in Int
      BY <1>4 DEF States
    <3> HIDE DEF left, a
    <3>3. b \in States /\ b.start = Restart(t.start)
      BY <2>2, <3>2 DEF States
    <3> HIDE DEF b
    <3>4. c \in States /\ c.start = b.start /\ c.late = t.late - Interval
      BY <2>2, <3>2, <3>3 DEF States
    <3> HIDE DEF c
    <3>5. d \in States /\ d.start = c.start /\ d.late = c.late
      BY <3>4 DEF States
    <3> QED BY <3>1, <3>3, <3>4, <3>5
  <2> HIDE DEF left, made
  <2>4. /\ node'[n].start = left.start /\ node'[n].late = left.late
        /\ \A j \in Nodes : j # n => node'[j] = node[j]
    BY <1>4, <1>7, <2>1, <2>3
  <2>5. InStep(node'[n].start, node'[n].late)
    BY <1>1, <1>5, <2>1, <2>3, <2>4, RestartIs
  <2> QED BY <1>1, <2>4, <2>5, TimelySame
<1>10. CASE UipIdle(n, t, rest)
  BY <1>1, <1>4, <1>5, <1>10, TimelySame DEF UipIdle
<1> QED BY <1>3, <1>8, <1>9, <1>10

LEMMA TimelyClock ==
  ASSUME MeshInv, Timely, Clock
  PROVE  Timely'
<1>1. env' = env /\ clock' = (clock + 1) % ClockRange /\ node \in [Nodes -> States]
  BY DEF Clock, MeshInv, Typed
<1>2. \A n \in Nodes : env.build[n] = "uIP" =>
        node'[n].start = node[n].start /\ node'[n].late = (node[n].late + 1) % ClockRange
  <2> SUFFICES ASSUME NEW n \in Nodes, env.build[n] = "uIP"
               PROVE  node'[n].start = node[n].start /\ node'[n].late = (node[n].late + 1) % ClockRange
    OBVIOUS
  <2>1. node'[n] = [node[n] EXCEPT !.late = (node[n].late + 1) % ClockRange]
    BY DEF Clock
  <2> QED BY <1>1, <2>1 DEF States
<1>3. clock \in 0 .. ClockRange - 1 /\ ClockRange \in Nat \ {0}
  BY MeshAssumption DEF Timely
<1>4. \A x \in 0 .. ClockRange - 1 : (x + 1) % ClockRange = IF x + 1 < ClockRange THEN x + 1 ELSE 0
  <2> SUFFICES ASSUME NEW x \in 0 .. ClockRange - 1
               PROVE  (x + 1) % ClockRange = IF x + 1 < ClockRange THEN x + 1 ELSE 0
    OBVIOUS
  <2>1. x + 1 \in Nat /\ x + 1 < ClockRange + ClockRange
    BY <1>3
  <2>2. (x + 1) % ClockRange = IF x + 1 < ClockRange THEN x + 1 ELSE x + 1 - ClockRange
    BY <1>3, <2>1, ClockTurn
  <2> QED BY <1>3, <2>2
<1>5. \A n \in Nodes : env.build[n] = "uIP" => InStep(node[n].start, node[n].late)'
  <2> SUFFICES ASSUME NEW n \in Nodes, env.build[n] = "uIP"
               PROVE  InStep(node[n].start, node[n].late)'
    OBVIOUS
  <2>1. PICK start, late : start = node[n].start /\ late = node[n].late
    OBVIOUS
  <2>2. /\ start \in 0 .. ClockRange - 1 /\ late \in 0 .. ClockRange - 1
        /\ clock = IF start + late < ClockRange THEN start + late ELSE start + late - ClockRange
    BY <1>1, <1>3, <2>1 DEF Timely, InStep
  <2>3. node'[n].start = start /\ node'[n].late = IF late + 1 < ClockRange THEN late + 1 ELSE 0
    BY <1>2, <1>4, <2>1, <2>2
  <2>4. clock' = IF clock + 1 < ClockRange THEN clock + 1 ELSE 0
    BY <1>1, <1>3, <1>4
  <2>5. PICK then : then = node'[n].late
    OBVIOUS
  <2>6. then = IF late + 1 < ClockRange THEN late + 1 ELSE 0
    BY <2>3, <2>5
  <2>7. /\ then \in 0 .. ClockRange - 1
        /\ clock' = IF start + then < ClockRange THEN start + then ELSE start + then - ClockRange
    BY <1>3, <2>2, <2>4, <2>6
  <2> QED BY <2>2, <2>3, <2>5, <2>7 DEF InStep
<1>6. clock' \in 0 .. ClockRange - 1
  BY <1>1, <1>3, <1>4
<1> QED BY <1>1, <1>5, <1>6 DEF Timely

\* The state keeps its type, and periodic_timer has started when it should have, whatever the
\* clock's width, the interval and how late tick() is called.
THEOREM MeshTypeCorrect == Spec => []TypeOK
<1> DEFINE Inv == MeshInv /\ Timely
<1>1. Init => Inv
  <2> SUFFICES ASSUME Init PROVE Timely
    BY MeshStarts
  <2>1. clock = ClockRange - 1 /\ \A n \in Nodes : node[n].start = clock /\ node[n].late = 0
    BY DEF Init
  <2> QED BY <2>1, MeshAssumption DEF Timely, InStep
<1>2. Inv /\ [Next]_vars => Inv'
  <2> SUFFICES ASSUME MeshInv, Timely, [Next]_vars PROVE Timely'
    BY MeshSteps
  <2>1. CASE UNCHANGED <<env, clock, node>>
    BY <2>1, TimelySame
  <2>2. ASSUME NEW n \in Nodes, OtherTick(n) \/ OtherSend(n) PROVE Timely'
    <3>1. UNCHANGED <<env, clock>> /\ \A j \in Nodes : j # n => node'[j] = node[j]
      BY <2>2 DEF OtherTick, OtherSend, MeshInv, Typed
    <3>2. env.build[n] # "uIP"
      BY <2>2 DEF OtherTick, OtherSend
    <3> QED BY <3>1, <3>2, TimelySame
  <2>3. CASE Due
    <3>1. UNCHANGED <<env, clock>> /\ node \in [Nodes -> States]
      BY <2>3 DEF Due, MeshInv, Typed
    <3>2. PICK n \in Nodes, dst \in {Outside, Cousin} : node' = [node EXCEPT ![n] = [node[n] EXCEPT !.due = dst]]
      BY <2>3, Zenon DEF Due
    <3>3. \A j \in Nodes : node'[j].start = node[j].start /\ node'[j].late = node[j].late
      BY <3>1, <3>2 DEF States
    <3> QED BY <3>1, <3>3, TimelySame
  <2> QED BY <2>1, <2>2, <2>3, TimelyTick, TimelyClock DEF Next, vars, Ping, Lose
<1>3. Inv => TypeOK
  <2> SUFFICES ASSUME MeshInv, Timely PROVE TypeOK
    OBVIOUS
  <2>1. \A n \in Nodes : node[n] \in States /\ node[n].len \in Extents
    BY DEF MeshInv, Typed, States
  <2>2. \A n \in Nodes : env.build[n] = "uIP" =>
          node[n].late \in 0 .. ClockRange - 1 /\ (node[n].start + node[n].late) % ClockRange = clock
    BY InStepIs DEF Timely, InStep
  <2>3. \A m \in air : m.to \in Nodes
    BY DEF MeshInv, Typed, Messages
  <2> QED BY <2>1, <2>2, <2>3 DEF TypeOK, States, Extents
<1> QED BY <1>1, <1>2, <1>3, PTL DEF Spec
=============================================================================
