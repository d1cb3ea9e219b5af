------------------------- MODULE FrameQueuesProofs -------------------------
(***************************************************************************)
(* The lock-free TX ring of FrameQueues is safe for every ring size, every *)
(* counter range that the size divides at least twice, every set of        *)
(* frames, with and without a tcpip thread.                                *)
(***************************************************************************)
EXTENDS FrameQueues, SequenceTheorems, TLAPS

-----------------------------------------------------------------------------
(* Arithmetic of counters that wrap.                                       *)

\* The remainder is the number below the divisor that differs from the
\* dividend by a multiple of the divisor.
LEMMA Remainder ==
  ASSUME NEW d \in Nat \ {0}, NEW a \in Int
  PROVE  /\ a % d \in 0 .. d - 1
         /\ \E q \in Int : a = d * q + (a % d)
<1>1. a % d \in 0 .. d - 1
  OBVIOUS
<1>2. a = d * (a \div d) + (a % d) /\ (a \div d) \in Int
  OBVIOUS
<1> QED
  BY <1>1, <1>2, Zenon

LEMMA NoMultipleBelow ==
  ASSUME NEW d \in Nat \ {0}, NEW m \in Int, NEW c \in Int,
         c < d, -d < c, c = d * m
  PROVE  c = 0
<1>1. CASE m <= -1
  <2>1. d * m <= -d
    BY <1>1
  <2> QED BY <2>1
<1>2. CASE m >= 1
  <2>1. d * m >= d
    BY <1>2
  <2> QED BY <2>1
<1> QED BY <1>1, <1>2

LEMMA RemainderUnique ==
  ASSUME NEW d \in Nat \ {0}, NEW q \in Int, NEW a \in 0 .. d - 1
  PROVE  (d * q + a) % d = a
<1> DEFINE n == d * q + a
           b == n % d
<1>1. n \in Int
  OBVIOUS
<1>2. PICK p \in Int : n = d * p + b
  BY <1>1, Remainder, Zenon
<1>3. b \in 0 .. d - 1
  BY <1>1, Remainder
<1>4. a - b = d * (p - q)
  BY <1>2, <1>3
<1>5. a - b = 0
  <2> HIDE DEF b
  <2> QED BY <1>3, <1>4, NoMultipleBelow
<1> QED BY <1>3, <1>5

\* A number at most one turn outside the range wraps once.
LEMMA OneWrap ==
  ASSUME NEW d \in Nat \ {0}, NEW n \in -d .. 2 * d - 1
  PROVE  n % d = IF n < 0 THEN n + d ELSE IF n < d THEN n ELSE n - d
<1>1. CASE n < 0
  <2>1. (d * (-1) + (n + d)) % d = n + d
    BY <1>1, RemainderUnique
  <2> QED BY <1>1, <2>1
<1>2. CASE 0 <= n /\ n < d
  <2>1. (d * 0 + n) % d = n
    BY <1>2, RemainderUnique
  <2> QED BY <1>2, <2>1
<1>3. CASE d <= n
  <2>1. (d * 1 + (n - d)) % d = n - d
    BY <1>3, RemainderUnique
  <2> QED BY <1>3, <2>1
<1> QED BY <1>1, <1>2, <1>3

-----------------------------------------------------------------------------
(* The counters of the ring.                                               *)

LEMMA WidthSpan ==
  /\ MaxTxQueue \in Nat \ {0}
  /\ Width \in Nat \ {0}
  /\ MaxTxQueue < Width
<1>1. TxWraps >= 2 /\ MaxTxQueue \in Nat \ {0} /\ TxWraps \in Nat
  BY QueueAssumption
<1>2. MaxTxQueue * TxWraps >= MaxTxQueue * 2
  BY <1>1
<1> QED BY <1>1, <1>2 DEF Width

LEMMA BumpCases ==
  ASSUME NEW n \in Slots(Width)
  PROVE  /\ Bump(n) \in Slots(Width)
         /\ Bump(n) = IF n = Width - 1 THEN 0 ELSE n + 1
<1> DEFINE k == n + 1
<1>1. k \in -Width .. 2 * Width - 1 /\ ~(k < 0)
  BY WidthSpan DEF Slots
<1>2. k % Width = IF k < 0 THEN k + Width ELSE IF k < Width THEN k ELSE k - Width
  <2> HIDE DEF k
  <2> QED BY <1>1, WidthSpan, OneWrap, Zenon
<1> QED BY <1>1, <1>2, WidthSpan DEF Slots, Bump

LEMMA AheadCases ==
  ASSUME NEW m \in Slots(Width), NEW n \in Slots(Width)
  PROVE  Ahead(m, n) = IF m >= n THEN m - n ELSE m - n + Width
<1>1. m - n \in -Width .. 2 * Width - 1
  BY WidthSpan DEF Slots
<1>2. Ahead(m, n) = IF m - n < 0 THEN m - n + Width
                    ELSE IF m - n < Width THEN m - n ELSE m - n - Width
  BY <1>1, WidthSpan, OneWrap, Zenon DEF Ahead
<1> QED BY <1>2, WidthSpan DEF Slots

\* Writing a frame adds one to the frames queued, also across the wrap.
LEMMA AheadAfterWrite ==
  ASSUME NEW w \in Slots(Width), NEW r \in Slots(Width),
         Ahead(w, r) < MaxTxQueue
  PROVE  Ahead(Bump(w), r) = Ahead(w, r) + 1
<1>1. /\ Bump(w) \in Slots(Width)
      /\ Bump(w) = IF w = Width - 1 THEN 0 ELSE w + 1
  BY BumpCases
<1>2. Ahead(w, r) = IF w >= r THEN w - r ELSE w - r + Width
  BY AheadCases
<1>3. Ahead(Bump(w), r) = IF Bump(w) >= r THEN Bump(w) - r ELSE Bump(w) - r + Width
  BY <1>1, AheadCases
<1> QED BY <1>1, <1>2, <1>3, WidthSpan DEF Slots

\* Sending a frame takes one away.
LEMMA AheadAfterSend ==
  ASSUME NEW w \in Slots(Width), NEW r \in Slots(Width), w # r
  PROVE  Ahead(w, Bump(r)) = Ahead(w, r) - 1
<1>1. /\ Bump(r) \in Slots(Width)
      /\ Bump(r) = IF r = Width - 1 THEN 0 ELSE r + 1
  BY BumpCases
<1>2. Ahead(w, r) = IF w >= r THEN w - r ELSE w - r + Width
  BY AheadCases
<1>3. Ahead(w, Bump(r)) = IF w >= Bump(r) THEN w - Bump(r) ELSE w - Bump(r) + Width
  BY <1>1, AheadCases
<1> QED BY <1>1, <1>2, <1>3, WidthSpan DEF Slots

\* Counters less than a ring apart use different slots: this is where the
\* slots have to divide the range of the counters.
LEMMA SlotsDiffer ==
  ASSUME NEW w \in Slots(Width), NEW r \in Slots(Width),
         w # r, Ahead(w, r) < MaxTxQueue
  PROVE  Slot(w) # Slot(r)
<1> DEFINE Q == MaxTxQueue
<1>q. Q \in Nat \ {0} /\ TxWraps \in Nat
  BY QueueAssumption
<1>r. w \in Int /\ r \in Int
  BY WidthSpan DEF Slots
<1> SUFFICES ASSUME Slot(w) = Slot(r) PROVE FALSE
  OBVIOUS
<1>1. PICK a \in Int : w = Q * a + Slot(w)
  BY <1>q, <1>r, Remainder, Zenon DEF Slot
<1>2. PICK b \in Int : r = Q * b + Slot(r)
  BY <1>q, <1>r, Remainder, Zenon DEF Slot
<1>3. Slot(w) \in Int
  BY <1>q, <1>r, Remainder DEF Slot
<1>4. w - r = Q * (a - b)
  BY <1>1, <1>2, <1>3, <1>q
<1>5. \E m \in Int : Ahead(w, r) = Q * m
  <2> Ahead(w, r) = IF w >= r THEN w - r ELSE w - r + Width
    BY AheadCases
  <2>1. CASE w >= r
    <3>1. Ahead(w, r) = Q * (a - b)
      BY <2>1, <1>4
    <3> QED BY <3>1
  <2>2. CASE w < r
    <3>1. Ahead(w, r) = w - r + Q * TxWraps
      BY <2>2, <1>r DEF Width
    <3>2. Ahead(w, r) = Q * (a - b + TxWraps)
      BY <3>1, <1>4, <1>q
    <3> QED BY <3>2, <1>q
  <2> QED BY <2>1, <2>2, <1>r
<1>6. Ahead(w, r) \in 1 .. Q - 1
  BY AheadCases, WidthSpan DEF Slots
<1> HIDE DEF Q
<1> QED BY <1>5, <1>6, <1>q, NoMultipleBelow

LEMMA SlotType ==
  ASSUME NEW n \in Slots(Width)
  PROVE  Slot(n) \in Slots(MaxTxQueue)
BY WidthSpan, Remainder DEF Slot, Slots

LEMMA AheadType ==
  ASSUME NEW m \in Slots(Width), NEW n \in Slots(Width)
  PROVE  /\ Ahead(m, n) \in Slots(Width)
         /\ Ahead(m, n) = 0 <=> m = n
BY AheadCases, WidthSpan DEF Slots

LEMMA RxNextType ==
  ASSUME NEW n \in Slots(MaxRxQueue)
  PROVE  RxNext(n) \in Slots(MaxRxQueue)
BY QueueAssumption, Remainder DEF RxNext, Slots

-----------------------------------------------------------------------------
(* Type correctness: every variable of the frame path keeps its type.      *)

LEMMA TypeInit == Init => TypeOK
BY WidthSpan, QueueAssumption
DEF Init, TypeOK, Slots, LoopPcs, CorePcs, Threads, Idle

LEMMA TypeStep == TypeOK /\ [Next]_vars => TypeOK'
<1> SUFFICES ASSUME TypeOK, [Next]_vars PROVE TypeOK'
  OBVIOUS
<1> USE DEF TypeOK, txVars, rxVars, LoopMove
<1>1. ASSUME \/ ApiEnter \/ ApiLeave \/ TimeoutsEnter \/ TimeoutsLeave
             \/ InputEnter \/ InputLeave
      PROVE  TypeOK'
  BY <1>1, ZenonT(40) DEF ApiEnter, ApiLeave, TimeoutsEnter, TimeoutsLeave, InputEnter,
              InputLeave, Acquire, Release, LoopPcs, CorePcs, Threads
<1>2. ASSUME TcpipEnter \/ TcpipLeave
      PROVE  TypeOK'
  BY <1>2, ZenonT(40) DEF TcpipEnter, TcpipLeave, Acquire, Release, Threads
<1>3. ASSUME NEW f \in Arrivals, TickReceive(f)
      PROVE  TypeOK'
  BY <1>3, RxNextType DEF TickReceive, LoopPcs
<1>4. ASSUME ReadRx \/ ReadRxNothing
      PROVE  TypeOK'
  BY <1>4, RxNextType DEF ReadRx, ReadRxNothing, LoopPcs
<1>5. ASSUME SendNothing \/ SendBegin \/ SendRadio
      PROVE  TypeOK'
  BY <1>5, SlotType DEF SendNothing, SendBegin, SendRadio, LoopPcs
<1>6. ASSUME SendEnd
      PROVE  TypeOK'
  BY <1>6, BumpCases DEF SendEnd, LoopPcs
<1>7. ASSUME NEW t \in Threads, NEW f \in Frames, OutputBegin(t, f)
      PROVE  TypeOK'
  <2>1. Slot(nWrite) \in Slots(MaxTxQueue)
    BY SlotType
  <2> QED BY <1>7, <2>1 DEF OutputBegin
<1>8. ASSUME NEW t \in Threads, OutputCopied(t)
      PROVE  TypeOK'
  BY <1>8 DEF OutputCopied
<1>9. ASSUME NEW t \in Threads, OutputPublish(t)
      PROVE  TypeOK'
  <2>1. Idle \in [pc : {"none", "copy", "publish"}, slot : Slots(MaxTxQueue),
                  frame : Frames \cup {NoFrame}]
    BY WidthSpan DEF Idle, Slots
  <2>2. Bump(nWrite) \in Slots(Width)
    BY BumpCases
  <2> QED BY <1>9, <2>1, <2>2 DEF OutputPublish
<1>10. CASE UNCHANGED vars
  BY <1>10 DEF vars
<1> QED
  BY <1>1, <1>2, <1>3, <1>4, <1>5, <1>6, <1>7, <1>8, <1>9, <1>10
  DEF Next, TickSteps, OutputSteps

\* Every variable of the frame path keeps its type, for all ring sizes,
\* counter ranges and frames.
THEOREM TypeCorrect == Spec => []TypeOK
BY TypeInit, TypeStep, PTL DEF Spec

-----------------------------------------------------------------------------
(* The ring invariant.                                                     *)

LEMMA RingInit == Init => RingInv
<1> SUFFICES ASSUME Init PROVE RingInv
  OBVIOUS
<1>1. TypeOK
  BY TypeInit
<1>2. TxUsed = 0
  BY AheadType, WidthSpan DEF Init, TxUsed, Slots
<1> QED BY <1>1, <1>2, WidthSpan DEF Init, RingInv, CorePcs, Idle

LEMMA RingStep == RingInv /\ [Next]_vars => RingInv'
<1> SUFFICES ASSUME RingInv, [Next]_vars PROVE RingInv'
  OBVIOUS
<1>t. TypeOK /\ TypeOK'
  BY TypeStep DEF RingInv
<1>n. nWrite \in Slots(Width) /\ nRead \in Slots(Width)
  BY <1>t DEF TypeOK
\* Steps that leave the ring alone.
<1>1. ASSUME \/ ApiEnter \/ TimeoutsEnter \/ InputEnter
             \/ ApiLeave \/ TimeoutsLeave \/ InputLeave
      PROVE  RingInv'
  <2>1. TxUsed' = TxUsed
    BY <1>1 DEF ApiEnter, TimeoutsEnter, InputEnter, ApiLeave, TimeoutsLeave,
                InputLeave, txVars, TxUsed
  <2>2. CASE ApiEnter \/ TimeoutsEnter \/ InputEnter
    BY <2>1, <2>2, <1>t DEF RingInv, ApiEnter, TimeoutsEnter, InputEnter,
       Acquire, LoopMove, txVars, CorePcs
  <2>3. CASE ApiLeave \/ TimeoutsLeave \/ InputLeave
    BY <2>1, <2>3, <1>t DEF RingInv, ApiLeave, TimeoutsLeave, InputLeave,
       Release, LoopMove, txVars, CorePcs
  <2> QED BY <1>1, <2>2, <2>3
<1>2. ASSUME TcpipEnter \/ TcpipLeave
      PROVE  RingInv'
  <2>1. TxUsed' = TxUsed
    BY <1>2 DEF TcpipEnter, TcpipLeave, txVars, TxUsed
  <2>2. CASE TcpipEnter
    BY <2>1, <2>2, <1>t DEF RingInv, TcpipEnter, Acquire, txVars
  <2>3. CASE TcpipLeave
    BY <2>1, <2>3, <1>t DEF RingInv, TcpipLeave, Release, txVars
  <2> QED BY <1>2, <2>2, <2>3
<1>3. ASSUME NEW f \in Arrivals, TickReceive(f)
      PROVE  RingInv'
  BY <1>3, <1>t DEF RingInv, TickReceive, LoopMove, txVars, CorePcs, TxUsed
<1>4. ASSUME ReadRx \/ ReadRxNothing \/ SendNothing
      PROVE  RingInv'
  BY <1>4, <1>t DEF RingInv, ReadRx, ReadRxNothing, SendNothing, LoopMove,
     txVars, CorePcs, TxUsed
\* tick() takes the oldest frame.
<1>5. ASSUME SendBegin \/ SendRadio
      PROVE  RingInv'
  BY <1>5, <1>t DEF RingInv, SendBegin, SendRadio, LoopMove, CorePcs, TxUsed
<1>6. ASSUME SendEnd
      PROVE  RingInv'
  <2>1. nRead # nWrite /\ nRead' = Bump(nRead) /\ nWrite' = nWrite
    BY <1>6 DEF RingInv, SendEnd, LoopMove
  <2>2. TxUsed' = TxUsed - 1
    BY <2>1, <1>n, AheadAfterSend DEF TxUsed
  <2>3. TxUsed \in Int
    BY <1>n, AheadType, WidthSpan DEF TxUsed, Slots
  <2> QED BY <1>6, <2>1, <2>2, <2>3, <1>t, WidthSpan
          DEF RingInv, SendEnd, LoopMove, CorePcs
\* netif_output fills the next slot.
<1>7. ASSUME NEW t \in Threads, NEW f \in Frames, OutputBegin(t, f)
      PROVE  RingInv'
  <2>1. TxUsed' = TxUsed
    BY <1>7 DEF OutputBegin, TxUsed
  <2>2. output' = [output EXCEPT ![t] = [pc |-> "copy", slot |-> Slot(nWrite), frame |-> f]]
    BY <1>7 DEF OutputBegin
  <2>3. \A u \in Threads : output'[u].pc # "none"
          => u \in inCore /\ output'[u].slot = Slot(nWrite) /\ TxUsed < MaxTxQueue
    BY <1>7, <2>2, <1>t DEF RingInv, OutputBegin, TypeOK
  <2> QED BY <1>7, <2>1, <2>3, <1>t DEF RingInv, OutputBegin, rxVars
<1>8. ASSUME NEW t \in Threads, OutputCopied(t)
      PROVE  RingInv'
  <2>1. TxUsed' = TxUsed
    BY <1>8 DEF OutputCopied, TxUsed
  <2>2. \A u \in Threads : /\ output'[u].pc # "none" => output[u].pc # "none"
                           /\ output'[u].slot = output[u].slot
    BY <1>8, <1>t DEF OutputCopied, TypeOK
  <2> QED BY <1>8, <2>1, <2>2, <1>t DEF RingInv, OutputCopied
<1>9. ASSUME NEW t \in Threads, OutputPublish(t)
      PROVE  RingInv'
  <2>1. /\ t \in inCore /\ TxUsed < MaxTxQueue
        /\ nWrite' = Bump(nWrite) /\ nRead' = nRead
    BY <1>9 DEF RingInv, OutputPublish
  <2>2. TxUsed' = TxUsed + 1
    BY <2>1, <1>n, AheadAfterWrite DEF TxUsed
  <2>3. TxUsed \in Slots(Width) /\ TxUsed' \in Int
    BY <1>n, <2>2, AheadType, WidthSpan DEF TxUsed, Slots
  <2>4. TxUsed' <= MaxTxQueue /\ TxUsed' # 0
    BY <2>1, <2>2, <2>3, WidthSpan DEF Slots
  <2>5. nRead' # nWrite'
    BY <2>4, <1>t, AheadType DEF TxUsed, TypeOK
  <2>6. \A u \in Threads : output'[u].pc = "none"
    BY <1>9, <2>1, <1>t DEF RingInv, OutputPublish, TypeOK, Idle
  <2> QED BY <1>9, <2>4, <2>5, <2>6, <1>t DEF RingInv, OutputPublish
<1>10. CASE UNCHANGED vars
  BY <1>10, <1>t DEF RingInv, vars, TxUsed
<1> QED
  BY <1>1, <1>2, <1>3, <1>4, <1>5, <1>6, <1>7, <1>8, <1>9, <1>10
  DEF Next, TickSteps, OutputSteps

LEMMA RingImpliesDisjoint == RingInv => SlotsDisjoint
<1> SUFFICES ASSUME RingInv PROVE SlotsDisjoint
  OBVIOUS
<1>1. ASSUME NEW t \in Threads, output[t].pc # "none", loopPc \in {"radio", "sent"}
      PROVE  output[t].slot # sendSlot
  <2>1. output[t].slot = Slot(nWrite) /\ sendSlot = Slot(nRead)
    BY <1>1 DEF RingInv
  <2>2. nWrite # nRead /\ Ahead(nWrite, nRead) < MaxTxQueue
    BY <1>1 DEF RingInv, TxUsed
  <2> QED BY <2>1, <2>2, SlotsDiffer DEF RingInv, TypeOK
<1>2. \A t, u \in Threads : output[t].pc # "none" /\ output[u].pc # "none" => t = u
  BY DEF RingInv
<1> QED BY <1>1, <1>2 DEF SlotsDisjoint

\* The ring invariant holds of every run.
THEOREM RingSafe == Spec => []RingInv
BY RingInit, RingStep, PTL DEF Spec

\* netif_output never writes the slot tick() is sending, nor do two threads
\* write at once, for all ring sizes, counter ranges and frames.
THEOREM TxRaceFree == Spec => []SlotsDisjoint
BY RingSafe, RingImpliesDisjoint, PTL

-----------------------------------------------------------------------------
(* Sequences given by their elements.                                      *)

LEMMA FunctionIsSeq ==
  ASSUME NEW S, NEW n \in Nat, NEW f \in [1 .. n -> S]
  PROVE  f \in Seq(S) /\ Len(f) = n
<1>1. f \in Seq(S)
  BY SeqDef
<1>2. DOMAIN f = 1 .. Len(f) /\ Len(f) \in Nat
  BY <1>1, LenProperties
<1> QED BY <1>1, <1>2

LEMMA IsAppend ==
  ASSUME NEW S, NEW s \in Seq(S), NEW t \in Seq(S), NEW x \in S,
         Len(t) = Len(s) + 1,
         \A i \in 1 .. Len(s) : t[i] = s[i],
         t[Len(t)] = x
  PROVE  t = Append(s, x)
<1>1. /\ Append(s, x) \in Seq(S)
      /\ Len(Append(s, x)) = Len(s) + 1
      /\ \A i \in 1 .. Len(s) : Append(s, x)[i] = s[i]
      /\ Append(s, x)[Len(s) + 1] = x
  BY AppendProperties
<1>2. \A i \in 1 .. Len(t) : t[i] = Append(s, x)[i]
  BY <1>1, LenProperties
<1> QED BY <1>1, <1>2, SeqEqual

LEMMA IsTail ==
  ASSUME NEW S, NEW s \in Seq(S), NEW t \in Seq(S),
         Len(s) = Len(t) + 1,
         \A i \in 1 .. Len(t) : t[i] = s[i + 1]
  PROVE  s # << >> /\ t = Tail(s)
<1>1. s # << >>
  BY EmptySeq, LenProperties
<1>2. /\ Tail(s) \in Seq(S) /\ Len(Tail(s)) = Len(t)
      /\ \A i \in 1 .. Len(t) : t[i] = Tail(s)[i]
  BY <1>1, HeadTailProperties, LenProperties
<1> QED BY <1>1, <1>2, SeqEqual

-----------------------------------------------------------------------------
(* The TX ring as a queue of frames.                                       *)

\* The counter of the i-th oldest queued frame.
At(r, i) == (r + i - 1) % Width

\* The queued slots hold frames, and a writer that has finished copying has
\* its frame in its slot.
FifoInv ==
  /\ RingInv
  /\ \A i \in 1 .. TxUsed : txData[Slot(At(nRead, i))] \in Frames
  /\ \A t \in Threads : output[t].pc # "none" => output[t].frame \in Frames
  /\ \A t \in Threads : output[t].pc = "publish"
                          => txData[output[t].slot] = output[t].frame

LEMMA AtCases ==
  ASSUME NEW r \in Slots(Width), NEW i \in 1 .. MaxTxQueue
  PROVE  /\ At(r, i) \in Slots(Width)
         /\ At(r, i) = IF r + i - 1 < Width THEN r + i - 1 ELSE r + i - 1 - Width
<1> DEFINE k == r + i - 1
<1>1. k \in -Width .. 2 * Width - 1 /\ ~(k < 0)
  BY WidthSpan DEF Slots
<1>2. k % Width = IF k < 0 THEN k + Width ELSE IF k < Width THEN k ELSE k - Width
  <2> HIDE DEF k
  <2> QED BY <1>1, WidthSpan, OneWrap, Zenon
<1> QED BY <1>1, <1>2, WidthSpan DEF Slots, At

\* The oldest frame is at nRead, the next free counter is nWrite, sending
\* moves every frame one place forward, and the slot at nWrite is not queued.
LEMMA AtEnds ==
  ASSUME NEW w \in Slots(Width), NEW r \in Slots(Width),
         Ahead(w, r) <= MaxTxQueue
  PROVE  /\ At(r, 1) = r
         /\ Ahead(w, r) < MaxTxQueue => At(r, Ahead(w, r) + 1) = w
         /\ \A i \in 1 .. MaxTxQueue - 1 : At(Bump(r), i) = At(r, i + 1)
         /\ Ahead(w, r) < MaxTxQueue
              => \A i \in 1 .. Ahead(w, r) : Slot(At(r, i)) # Slot(w)
<1>0. /\ Ahead(w, r) \in Slots(Width)
      /\ Ahead(w, r) = IF w >= r THEN w - r ELSE w - r + Width
  BY AheadCases, AheadType
<1>1. At(r, 1) = r
  BY AtCases, WidthSpan DEF Slots
<1>2. ASSUME Ahead(w, r) < MaxTxQueue PROVE At(r, Ahead(w, r) + 1) = w
  <2> DEFINE i == Ahead(w, r) + 1
  <2>1. i \in 1 .. MaxTxQueue
    BY <1>0, <1>2, WidthSpan DEF Slots
  <2>2. At(r, i) = IF r + i - 1 < Width THEN r + i - 1 ELSE r + i - 1 - Width
    <3> HIDE DEF i
    <3> QED BY <2>1, AtCases
  <2> QED BY <1>0, <2>2, WidthSpan DEF Slots
<1>3. ASSUME NEW i \in 1 .. MaxTxQueue - 1 PROVE At(Bump(r), i) = At(r, i + 1)
  <2>1. /\ Bump(r) \in Slots(Width)
        /\ Bump(r) = IF r = Width - 1 THEN 0 ELSE r + 1
    BY BumpCases
  <2>2. i \in 1 .. MaxTxQueue /\ i + 1 \in 1 .. MaxTxQueue
    BY <1>3, WidthSpan
  <2>3. At(Bump(r), i) = IF Bump(r) + i - 1 < Width THEN Bump(r) + i - 1
                         ELSE Bump(r) + i - 1 - Width
    BY <2>1, <2>2, AtCases
  <2>4. At(r, i + 1) = IF r + i < Width THEN r + i ELSE r + i - Width
    <3> DEFINE j == i + 1
    <3>1. At(r, j) = IF r + j - 1 < Width THEN r + j - 1 ELSE r + j - 1 - Width
      <4>1. j \in 1 .. MaxTxQueue
        BY <2>2
      <4> HIDE DEF j
      <4> QED BY <4>1, AtCases
    <3> QED BY <3>1, <2>2 DEF Slots
  <2> QED BY <2>1, <2>2, <2>3, <2>4, WidthSpan DEF Slots
<1>4. ASSUME Ahead(w, r) < MaxTxQueue, NEW i \in 1 .. Ahead(w, r)
      PROVE  Slot(At(r, i)) # Slot(w)
  <2>1. i \in 1 .. MaxTxQueue
    BY <1>0, <1>4, WidthSpan DEF Slots
  <2>2. /\ At(r, i) \in Slots(Width)
        /\ At(r, i) = IF r + i - 1 < Width THEN r + i - 1 ELSE r + i - 1 - Width
    BY <2>1, AtCases
  <2>3. Ahead(w, At(r, i)) = IF w >= At(r, i) THEN w - At(r, i)
                             ELSE w - At(r, i) + Width
    BY <2>2, AheadCases
  <2>4. w # At(r, i) /\ Ahead(w, At(r, i)) < MaxTxQueue
    BY <1>0, <1>4, <2>1, <2>2, <2>3, WidthSpan DEF Slots
  <2> QED BY <2>2, <2>4, SlotsDiffer
<1> QED BY <1>1, <1>2, <1>3, <1>4

\* The queue held in data from counter r on.
Contents(data, r, n) == [i \in 1 .. n |-> data[Slot(At(r, i))]]

LEMMA ContentsSeq ==
  ASSUME NEW data, NEW r, NEW n \in Nat,
         \A i \in 1 .. n : data[Slot(At(r, i))] \in Frames
  PROVE  Contents(data, r, n) \in Seq(Frames) /\ Len(Contents(data, r, n)) = n
<1>1. Contents(data, r, n) \in [1 .. n -> Frames]
  BY DEF Contents
<1> QED BY <1>1, FunctionIsSeq

LEMMA FifoInit == Init => FifoInv
<1> SUFFICES ASSUME Init PROVE FifoInv
  OBVIOUS
<1>1. RingInv
  BY RingInit
<1>2. TxUsed = 0
  BY AheadType, WidthSpan DEF Init, TxUsed, Slots
<1> QED BY <1>1, <1>2 DEF FifoInv, Init, Idle

LEMMA FifoStep == FifoInv /\ [Next]_vars => FifoInv'
<1> SUFFICES ASSUME FifoInv, [Next]_vars PROVE FifoInv'
  OBVIOUS
<1>r. RingInv /\ RingInv'
  BY RingStep DEF FifoInv
<1>t. TypeOK /\ TypeOK'
  BY <1>r DEF RingInv
<1>n. nWrite \in Slots(Width) /\ nRead \in Slots(Width)
  BY <1>t DEF TypeOK
<1>u. TxUsed \in 0 .. MaxTxQueue
  BY <1>n, <1>r, AheadType, WidthSpan DEF TxUsed, Slots, RingInv
\* Steps that neither write a slot nor move a counter.
<1>1. ASSUME UNCHANGED <<nRead, nWrite, txData, output>>
      PROVE  FifoInv'
  BY <1>1, <1>r DEF FifoInv, TxUsed
<1>2. ASSUME SendEnd
      PROVE  FifoInv'
  <2>1. nRead # nWrite /\ nRead' = Bump(nRead) /\ UNCHANGED <<nWrite, txData, output>>
    BY <1>2, <1>r DEF RingInv, SendEnd, LoopMove
  <2>2. TxUsed' = TxUsed - 1
    BY <2>1, <1>n, AheadAfterSend DEF TxUsed
  <2>3. \A i \in 1 .. TxUsed' : At(nRead', i) = At(nRead, i + 1) /\ i + 1 \in 1 .. TxUsed
    <3>1. \A i \in 1 .. MaxTxQueue - 1 : At(Bump(nRead), i) = At(nRead, i + 1)
      BY <1>n, <1>u, AtEnds DEF TxUsed
    <3> HIDE DEF TxUsed
    <3> QED BY <3>1, <2>1, <2>2, <1>u, WidthSpan
  <2>4. \A i \in 1 .. TxUsed' : txData'[Slot(At(nRead', i))] \in Frames
    BY <2>1, <2>3 DEF FifoInv
  <2> QED BY <2>1, <2>4, <1>r DEF FifoInv
<1>3. ASSUME NEW t \in Threads, NEW f \in Frames, OutputBegin(t, f)
      PROVE  FifoInv'
  <2>1. /\ TxUsed < MaxTxQueue
        /\ UNCHANGED <<nRead, nWrite>>
        /\ txData' = [txData EXCEPT ![Slot(nWrite)] = Torn]
        /\ output' = [output EXCEPT ![t] = [pc |-> "copy", slot |-> Slot(nWrite), frame |-> f]]
    BY <1>3 DEF OutputBegin
  <2>2. TxUsed' = TxUsed
    BY <2>1 DEF TxUsed
  <2>3. \A i \in 1 .. TxUsed : Slot(At(nRead, i)) # Slot(nWrite)
    BY <2>1, <1>n, <1>u, AtEnds DEF TxUsed
  <2>4. \A i \in 1 .. TxUsed' : txData'[Slot(At(nRead', i))] \in Frames
    <3> SUFFICES ASSUME NEW i \in 1 .. TxUsed
                 PROVE  txData'[Slot(At(nRead, i))] \in Frames
      BY <2>1, <2>2
    <3> QED BY <2>1, <2>3, <1>t DEF FifoInv, TypeOK
  <2>5. \A u \in Threads : u # t => output[u].pc = "none" /\ output'[u] = output[u]
    BY <1>3, <2>1, <1>r, <1>t DEF RingInv, OutputBegin, TypeOK
  <2>6. output'[t].pc = "copy" /\ output'[t].frame = f
    BY <2>1, <1>t DEF TypeOK
  <2> QED BY <2>4, <2>5, <2>6, <1>r DEF FifoInv
<1>4. ASSUME NEW t \in Threads, OutputCopied(t)
      PROVE  FifoInv'
  <2>1. /\ output[t].pc = "copy"
        /\ UNCHANGED <<nRead, nWrite>>
        /\ txData' = [txData EXCEPT ![output[t].slot] = output[t].frame]
        /\ output' = [output EXCEPT ![t].pc = "publish"]
    BY <1>4 DEF OutputCopied
  <2>2. TxUsed' = TxUsed
    BY <2>1 DEF TxUsed
  <2>3. output[t].slot = Slot(nWrite) /\ TxUsed < MaxTxQueue
    BY <2>1, <1>r DEF RingInv
  <2>4. \A i \in 1 .. TxUsed : Slot(At(nRead, i)) # Slot(nWrite)
    BY <2>3, <1>n, <1>u, AtEnds DEF TxUsed
  <2>5. \A i \in 1 .. TxUsed' : txData'[Slot(At(nRead', i))] \in Frames
    <3> SUFFICES ASSUME NEW i \in 1 .. TxUsed
                 PROVE  txData'[Slot(At(nRead, i))] \in Frames
      BY <2>1, <2>2
    <3> QED BY <2>1, <2>3, <2>4, <1>t DEF FifoInv, TypeOK
  <2>6. \A u \in Threads : u # t => output[u].pc = "none" /\ output'[u] = output[u]
    BY <2>1, <1>r, <1>t DEF RingInv, TypeOK
  <2>7. /\ output'[t].pc = "publish" /\ output'[t].slot = output[t].slot
        /\ output'[t].frame = output[t].frame
    BY <2>1, <1>t DEF TypeOK
  <2>8. txData'[output[t].slot] = output[t].frame
    BY <2>1, <2>3, <1>n, <1>t, SlotType DEF TypeOK
  <2> QED BY <2>1, <2>5, <2>6, <2>7, <2>8, <1>r DEF FifoInv
<1>5. ASSUME NEW t \in Threads, OutputPublish(t)
      PROVE  FifoInv'
  <2>1. /\ output[t].pc = "publish" /\ output[t].slot = Slot(nWrite)
        /\ TxUsed < MaxTxQueue
        /\ nWrite' = Bump(nWrite) /\ UNCHANGED <<nRead, txData>>
        /\ output' = [output EXCEPT ![t] = Idle]
    BY <1>5, <1>r DEF RingInv, OutputPublish
  <2>2. TxUsed' = TxUsed + 1
    BY <2>1, <1>n, AheadAfterWrite DEF TxUsed
  <2>3. At(nRead, TxUsed + 1) = nWrite
    BY <2>1, <1>n, <1>u, AtEnds DEF TxUsed
  <2>4. txData[Slot(nWrite)] \in Frames
    BY <2>1 DEF FifoInv
  <2>5. \A i \in 1 .. TxUsed' : txData'[Slot(At(nRead', i))] \in Frames
    <3> SUFFICES ASSUME NEW i \in 1 .. TxUsed + 1
                 PROVE  txData[Slot(At(nRead, i))] \in Frames
      BY <2>1, <2>2
    <3>1. CASE i = TxUsed + 1
      <4> HIDE DEF At
      <4> QED BY <3>1, <2>3, <2>4
    <3>2. CASE i \in 1 .. TxUsed
      BY <3>2 DEF FifoInv
    <3> QED BY <3>1, <3>2, <1>u
  <2>6. \A u \in Threads : output'[u].pc = "none"
    BY <2>1, <1>r, <1>t DEF RingInv, TypeOK, Idle
  <2> QED BY <2>5, <2>6, <1>r DEF FifoInv
<1>6. CASE UNCHANGED vars
  BY <1>1, <1>6 DEF vars
<1>7. ASSUME \/ ApiEnter \/ ApiLeave \/ TcpipEnter \/ TcpipLeave
             \/ \E f \in Arrivals : TickReceive(f)
             \/ TimeoutsEnter \/ TimeoutsLeave \/ ReadRx \/ ReadRxNothing
             \/ InputEnter \/ InputLeave \/ SendNothing \/ SendBegin \/ SendRadio
      PROVE  FifoInv'
  BY <1>1, <1>7 DEF ApiEnter, ApiLeave, TcpipEnter, TcpipLeave, TickReceive,
     TimeoutsEnter, TimeoutsLeave, ReadRx, ReadRxNothing, InputEnter, InputLeave,
     SendNothing, SendBegin, SendRadio, txVars
<1> QED
  BY <1>2, <1>3, <1>4, <1>5, <1>6, <1>7 DEF Next, TickSteps, OutputSteps

\* Each step takes the oldest frame, adds one at the end, or leaves the queue.
TxQueue == IF loopPc = "sent" THEN Tail(TxContents) ELSE TxContents

LEMMA TxContentsSeq ==
  ASSUME FifoInv
  PROVE  /\ TxContents = Contents(txData, nRead, TxUsed)
         /\ TxContents \in Seq(Frames)
         /\ Len(TxContents) = TxUsed
         /\ TxUsed \in 0 .. MaxTxQueue
<1>1. TxUsed \in 0 .. MaxTxQueue
  BY AheadType, WidthSpan DEF FifoInv, RingInv, TypeOK, TxUsed, Slots
<1>2. TxContents = Contents(txData, nRead, TxUsed)
  BY DEF TxContents, Contents, At
<1>3. \A i \in 1 .. TxUsed : txData[Slot(At(nRead, i))] \in Frames
  BY DEF FifoInv
<1> QED BY <1>1, <1>2, <1>3, ContentsSeq

LEMMA TxStep == FifoInv /\ [Next]_vars => [Tx!Next]_<<TxQueue, lastSent>>
<1> SUFFICES ASSUME FifoInv, [Next]_vars
             PROVE  [Tx!Next]_<<TxQueue, lastSent>>
  OBVIOUS
<1>r. RingInv /\ TypeOK
  BY DEF FifoInv, RingInv
<1>n. nWrite \in Slots(Width) /\ nRead \in Slots(Width)
  BY <1>r DEF TypeOK
<1>c. /\ TxContents = Contents(txData, nRead, TxUsed)
      /\ TxContents \in Seq(Frames)
      /\ Len(TxContents) = TxUsed
      /\ TxUsed \in 0 .. MaxTxQueue
  BY TxContentsSeq
<1>d. TxContents' = Contents(txData', nRead', TxUsed')
  BY DEF TxContents, Contents, At
<1> DEFINE Stutter == UNCHANGED <<TxQueue, lastSent>>
\* Steps that neither write a slot nor move a counter.
<1>1. ASSUME UNCHANGED <<nRead, nWrite, txData, lastSent>>,
             loopPc = "sent" <=> loopPc' = "sent"
      PROVE  Stutter
  BY <1>1 DEF TxQueue, TxContents, TxUsed
<1>2. ASSUME \/ ApiEnter \/ ApiLeave \/ TcpipEnter \/ TcpipLeave
             \/ \E f \in Arrivals : TickReceive(f)
             \/ TimeoutsEnter \/ TimeoutsLeave \/ ReadRx \/ ReadRxNothing
             \/ InputEnter \/ InputLeave \/ SendNothing \/ SendBegin
      PROVE  Stutter
  BY <1>1, <1>2 DEF ApiEnter, ApiLeave, TcpipEnter, TcpipLeave, TickReceive,
     TimeoutsEnter, TimeoutsLeave, ReadRx, ReadRxNothing, InputEnter, InputLeave,
     SendNothing, SendBegin, txVars, LoopMove
\* The radio is given the oldest frame ...
<1>3. ASSUME SendRadio
      PROVE  Tx!Take
  <2>1. /\ loopPc = "radio" /\ loopPc' = "sent"
        /\ lastSent' = txData[Slot(nRead)]
        /\ nRead # nWrite
        /\ UNCHANGED <<nRead, nWrite, txData>>
    BY <1>3, <1>r DEF SendRadio, LoopMove, RingInv
  <2>2. TxContents' = TxContents
    BY <2>1 DEF TxContents, TxUsed
  <2>3. TxUsed # 0
    BY <2>1, <1>n, AheadType DEF TxUsed
  <2>4. TxContents # << >>
    BY <2>3, <1>c, EmptySeq
  <2>5. At(nRead, 1) = nRead
    BY <1>n, <1>c, AtEnds DEF TxUsed
  <2>6. Head(TxContents) = txData[Slot(nRead)]
    <3>1. TxContents[1] = txData[Slot(At(nRead, 1))]
      <4> HIDE DEF TxUsed
      <4> QED BY <1>c, <2>3 DEF Contents
    <3> QED BY <3>1, <2>5, <2>4, <1>c
  <2>7. TxQueue = TxContents /\ TxQueue' = Tail(TxContents)
    BY <2>1, <2>2 DEF TxQueue
  <2> QED BY <2>1, <2>4, <2>6, <2>7 DEF Tx!Take, TxQueue
\* ... which leaves the ring only afterwards.
<1>4. ASSUME SendEnd
      PROVE  Stutter
  <2>1. /\ loopPc = "sent" /\ loopPc' = "idle"
        /\ nRead # nWrite /\ nRead' = Bump(nRead)
        /\ UNCHANGED <<nWrite, txData, lastSent>>
    BY <1>4, <1>r DEF SendEnd, LoopMove, RingInv
  <2>2. TxUsed' = TxUsed - 1 /\ TxUsed' \in Nat
    <3>1. TxUsed' = TxUsed - 1
      BY <2>1, <1>n, AheadAfterSend DEF TxUsed
    <3>2. TxUsed # 0
      BY <2>1, <1>n, AheadType DEF TxUsed
    <3> QED BY <3>1, <3>2, <1>c
  <2>3. \A i \in 1 .. TxUsed' : At(nRead', i) = At(nRead, i + 1)
    <3>1. \A i \in 1 .. MaxTxQueue - 1 : At(Bump(nRead), i) = At(nRead, i + 1)
      BY <1>n, <1>c, AtEnds DEF TxUsed
    <3> HIDE DEF TxUsed
    <3> QED BY <3>1, <2>1, <2>2, <1>c, WidthSpan
  <2>4. \A i \in 1 .. TxUsed' : TxContents'[i] = TxContents[i + 1]
    <3> HIDE DEF TxUsed
    <3>1. \A i \in 1 .. TxUsed' : i + 1 \in 1 .. TxUsed
      BY <2>2, <1>c
    <3> QED BY <2>1, <2>2, <2>3, <3>1, <1>c, <1>d DEF Contents
  <2>5. TxContents' \in Seq(Frames) /\ Len(TxContents') = TxUsed'
    <3>1. \A i \in 1 .. TxUsed' : txData'[Slot(At(nRead', i))] \in Frames
      BY FifoStep DEF FifoInv
    <3> QED BY <3>1, <2>2, <1>d, ContentsSeq
  <2>6. TxContents' = Tail(TxContents)
    BY <2>2, <2>4, <2>5, <1>c, IsTail
  <2> QED BY <2>1, <2>6 DEF TxQueue
\* netif_output's first two steps write a slot that is not queued.
<1>5. ASSUME UNCHANGED <<nRead, nWrite, lastSent, loopPc>>,
             TxUsed < MaxTxQueue,
             NEW v, txData' = [txData EXCEPT ![Slot(nWrite)] = v]
      PROVE  Stutter
  <2>1. TxUsed' = TxUsed
    BY <1>5 DEF TxUsed
  <2>2. \A i \in 1 .. TxUsed : Slot(At(nRead, i)) # Slot(nWrite)
    BY <1>5, <1>n, <1>c, AtEnds DEF TxUsed
  <2>3. \A i \in 1 .. TxUsed : txData'[Slot(At(nRead, i))] = txData[Slot(At(nRead, i))]
    BY <1>5, <2>2, <1>r DEF TypeOK
  <2>4. TxContents' = TxContents
    <3> HIDE DEF TxUsed
    <3> QED BY <2>1, <2>3, <1>5, <1>c, <1>d DEF Contents
  <2> QED BY <1>5, <2>4 DEF TxQueue
<1>6. ASSUME NEW t \in Threads, NEW f \in Frames, OutputBegin(t, f)
      PROVE  Stutter
  BY <1>5, <1>6, Zenon DEF OutputBegin
<1>7. ASSUME NEW t \in Threads, OutputCopied(t)
      PROVE  Stutter
  <2>1. output[t].slot = Slot(nWrite) /\ TxUsed < MaxTxQueue
    BY <1>7, <1>r DEF OutputCopied, RingInv
  <2> QED BY <1>5, <1>7, <2>1, Zenon DEF OutputCopied
\* Its last step adds the frame at the end.
<1>8. ASSUME NEW t \in Threads, OutputPublish(t)
      PROVE  Tx!Put(output[t].frame) /\ output[t].frame \in Frames
  <2> DEFINE f == output[t].frame
  <2>1. /\ output[t].pc = "publish" /\ output[t].slot = Slot(nWrite)
        /\ TxUsed < MaxTxQueue
        /\ nWrite' = Bump(nWrite)
        /\ UNCHANGED <<nRead, txData, lastSent, loopPc>>
    BY <1>8, <1>r DEF RingInv, OutputPublish
  <2>2. f \in Frames /\ txData[Slot(nWrite)] = f
    BY <2>1 DEF FifoInv
  <2>3. TxUsed' = TxUsed + 1
    BY <2>1, <1>n, AheadAfterWrite DEF TxUsed
  <2>4. At(nRead, TxUsed + 1) = nWrite
    BY <2>1, <1>n, <1>c, AtEnds DEF TxUsed
  <2> HIDE DEF TxUsed, f
  <2>5. TxContents' \in Seq(Frames) /\ Len(TxContents') = TxUsed'
    <3>1. \A i \in 1 .. TxUsed' : txData'[Slot(At(nRead', i))] \in Frames
      BY FifoStep DEF FifoInv
    <3>2. TxUsed' \in Nat
      BY <2>3, <1>c
    <3> QED BY <3>1, <3>2, <1>d, ContentsSeq
  <2>6. \A i \in 1 .. TxUsed : TxContents'[i] = TxContents[i]
    BY <2>1, <2>3, <1>c, <1>d DEF Contents
  <2>7. TxContents'[TxUsed'] = f
    <3>1. TxContents'[TxUsed'] = txData'[Slot(At(nRead', TxUsed'))]
      BY <2>3, <1>c, <1>d DEF Contents
    <3> QED BY <3>1, <2>1, <2>2, <2>3, <2>4
  <2>8. TxContents' = Append(TxContents, f)
    BY <2>2, <2>3, <2>5, <2>6, <2>7, <1>c, IsAppend
  <2>9. loopPc = "sent" => TxContents # << >>
    <3>1. ASSUME loopPc = "sent" PROVE TxUsed # 0
      BY <3>1, <1>n, <1>r, AheadType DEF TxUsed, RingInv
    <3> QED BY <3>1, <1>c, EmptySeq
  <2>10. TxQueue' = Append(TxQueue, f) /\ Len(TxQueue) < MaxTxQueue
    <3>1. CASE loopPc = "sent"
      <4>1. Tail(Append(TxContents, f)) = Append(Tail(TxContents), f)
        BY <3>1, <2>2, <2>9, <1>c, HeadTailAppend
      <4>2. Len(Tail(TxContents)) = TxUsed - 1
        BY <3>1, <2>9, <1>c, HeadTailProperties
      <4> QED BY <3>1, <4>1, <4>2, <2>1, <2>8, <1>c, WidthSpan DEF TxQueue
    <3>2. CASE loopPc # "sent"
      BY <3>2, <2>1, <2>8, <1>c DEF TxQueue
    <3> QED BY <3>1, <3>2
  <2> QED BY <2>1, <2>2, <2>10 DEF Tx!Put, TxQueue, f
<1>9. CASE UNCHANGED vars
  BY <1>1, <1>9 DEF vars
<1> QED
  BY <1>2, <1>3, <1>4, <1>6, <1>7, <1>8, <1>9
  DEF Next, TickSteps, OutputSteps, Tx!Next, TxQueue

LEMMA TxInit == Init => Tx!Init
<1> SUFFICES ASSUME Init PROVE Tx!Init
  OBVIOUS
<1>1. TxUsed = 0
  BY AheadType, WidthSpan DEF Init, TxUsed, Slots
<1>2. TxContents = << >>
  BY <1>1 DEF TxContents
<1> QED BY <1>2, QueueAssumption DEF Init, Tx!Init

\* Every frame netif_output accepted reaches the radio at most once, whole
\* and in order: the lock-free ring implements a bounded FIFO queue, for all
\* ring sizes, counter ranges and frames, with and without a tcpip thread.
THEOREM TxRefines == Spec => TxIsFifo
<1>1. Init /\ [][Next]_vars => []FifoInv
  BY FifoInit, FifoStep, PTL
<1>2. [Tx!Next]_<<TxQueue, lastSent>> <=> [Tx!Next]_(Tx!vars)
  BY DEF Tx!vars, TxQueue
<1>3. FifoInv /\ [Next]_vars => [Tx!Next]_(Tx!vars)
  BY TxStep, <1>2
<1> QED BY <1>1, <1>3, TxInit, PTL DEF Spec, TxIsFifo, Tx!Safe

-----------------------------------------------------------------------------
(* The RX ring, which only the loop thread touches.                        *)

RxAt(r, i) == (r + i - 1) % MaxRxQueue
RxUsed == (rxWrite - rxRead) % MaxRxQueue

\* The queued slots hold frames.
RxInv ==
  /\ TypeOK
  /\ \A i \in 1 .. RxUsed : rxData[RxAt(rxRead, i)] \in Frames

LEMMA RxCases ==
  ASSUME NEW r \in Slots(MaxRxQueue), NEW w \in Slots(MaxRxQueue)
  PROVE  /\ RxNext(r) = IF r = MaxRxQueue - 1 THEN 0 ELSE r + 1
         /\ (w - r) % MaxRxQueue = IF w >= r THEN w - r ELSE w - r + MaxRxQueue
         /\ \A i \in 1 .. MaxRxQueue :
              RxAt(r, i) = IF r + i - 1 < MaxRxQueue THEN r + i - 1
                           ELSE r + i - 1 - MaxRxQueue
<1> DEFINE Turn(n) == IF n < 0 THEN n + MaxRxQueue
                      ELSE IF n < MaxRxQueue THEN n ELSE n - MaxRxQueue
<1>1. \A n \in -MaxRxQueue .. 2 * MaxRxQueue - 1 : n % MaxRxQueue = Turn(n)
  BY OneWrap, QueueAssumption, Zenon
<1>2. /\ r + 1 \in -MaxRxQueue .. 2 * MaxRxQueue - 1
      /\ w - r \in -MaxRxQueue .. 2 * MaxRxQueue - 1
      /\ \A i \in 1 .. MaxRxQueue : r + i - 1 \in -MaxRxQueue .. 2 * MaxRxQueue - 1
  BY QueueAssumption DEF Slots
<1>3. /\ (r + 1) % MaxRxQueue = Turn(r + 1)
      /\ (w - r) % MaxRxQueue = Turn(w - r)
      /\ \A i \in 1 .. MaxRxQueue : (r + i - 1) % MaxRxQueue = Turn(r + i - 1)
  <2> HIDE DEF Turn
  <2> QED BY <1>1, <1>2
<1> QED BY <1>3, QueueAssumption DEF Slots, RxNext, RxAt

\* The oldest frame is at rxRead, reading moves every frame one place
\* forward, and a ring with room has its next free slot at rxWrite.
LEMMA RxEnds ==
  ASSUME TypeOK
  PROVE  /\ RxUsed \in 0 .. MaxRxQueue - 1
         /\ RxUsed = 0 <=> rxRead = rxWrite
         /\ RxAt(rxRead, 1) = rxRead
         /\ rxRead # rxWrite => /\ (rxWrite - RxNext(rxRead)) % MaxRxQueue = RxUsed - 1
                               /\ \A i \in 1 .. RxUsed - 1 :
                                    RxAt(RxNext(rxRead), i) = RxAt(rxRead, i + 1)
         /\ RxNext(rxWrite) # rxRead
              => /\ RxUsed < MaxRxQueue - 1
                 /\ (RxNext(rxWrite) - rxRead) % MaxRxQueue = RxUsed + 1
                 /\ RxAt(rxRead, RxUsed + 1) = rxWrite
                 /\ \A i \in 1 .. RxUsed : RxAt(rxRead, i) # rxWrite
<1>q. MaxRxQueue \in Nat \ {0}
  BY QueueAssumption
<1>t. rxRead \in Slots(MaxRxQueue) /\ rxWrite \in Slots(MaxRxQueue)
  BY DEF TypeOK
<1>n. RxNext(rxRead) \in Slots(MaxRxQueue) /\ RxNext(rxWrite) \in Slots(MaxRxQueue)
  BY <1>t, RxNextType
<1>u. RxUsed = IF rxWrite >= rxRead THEN rxWrite - rxRead
               ELSE rxWrite - rxRead + MaxRxQueue
  BY <1>t, RxCases DEF RxUsed
<1>m. /\ RxNext(rxRead) = IF rxRead = MaxRxQueue - 1 THEN 0 ELSE rxRead + 1
      /\ RxNext(rxWrite) = IF rxWrite = MaxRxQueue - 1 THEN 0 ELSE rxWrite + 1
  BY <1>t, RxCases
<1>a. \A i \in 1 .. MaxRxQueue :
        RxAt(rxRead, i) = IF rxRead + i - 1 < MaxRxQueue THEN rxRead + i - 1
                          ELSE rxRead + i - 1 - MaxRxQueue
  BY <1>t, RxCases
<1>1. RxUsed \in 0 .. MaxRxQueue - 1 /\ (RxUsed = 0 <=> rxRead = rxWrite)
  BY <1>q, <1>t, <1>u DEF Slots
<1>2. RxAt(rxRead, 1) = rxRead
  BY <1>q, <1>t, <1>a DEF Slots
<1>3. ASSUME rxRead # rxWrite
      PROVE  /\ (rxWrite - RxNext(rxRead)) % MaxRxQueue = RxUsed - 1
             /\ \A i \in 1 .. RxUsed - 1 :
                  RxAt(RxNext(rxRead), i) = RxAt(rxRead, i + 1)
  <2>1. (rxWrite - RxNext(rxRead)) % MaxRxQueue
          = IF rxWrite >= RxNext(rxRead) THEN rxWrite - RxNext(rxRead)
            ELSE rxWrite - RxNext(rxRead) + MaxRxQueue
    BY <1>t, <1>n, RxCases
  <2>2. (rxWrite - RxNext(rxRead)) % MaxRxQueue = RxUsed - 1
    BY <2>1, <1>3, <1>q, <1>t, <1>u, <1>m DEF Slots
  <2>3. ASSUME NEW i \in 1 .. RxUsed - 1
        PROVE  RxAt(RxNext(rxRead), i) = RxAt(rxRead, i + 1)
    <3> DEFINE j == i + 1
    <3>1. i \in 1 .. MaxRxQueue /\ j \in 1 .. MaxRxQueue
      BY <2>3, <1>1, <1>q
    <3>2. RxAt(RxNext(rxRead), i)
            = IF RxNext(rxRead) + i - 1 < MaxRxQueue THEN RxNext(rxRead) + i - 1
              ELSE RxNext(rxRead) + i - 1 - MaxRxQueue
      BY <3>1, <1>n, RxCases
    <3>3. RxAt(rxRead, j) = IF rxRead + j - 1 < MaxRxQueue THEN rxRead + j - 1
                            ELSE rxRead + j - 1 - MaxRxQueue
      <4> HIDE DEF j
      <4> QED BY <3>1, <1>a
    <3> QED BY <3>1, <3>2, <3>3, <1>m, <1>q, <1>t DEF Slots
  <2> QED BY <2>2, <2>3
<1>4. ASSUME RxNext(rxWrite) # rxRead
      PROVE  /\ RxUsed < MaxRxQueue - 1
             /\ (RxNext(rxWrite) - rxRead) % MaxRxQueue = RxUsed + 1
             /\ RxAt(rxRead, RxUsed + 1) = rxWrite
             /\ \A i \in 1 .. RxUsed : RxAt(rxRead, i) # rxWrite
  <2>1. RxUsed < MaxRxQueue - 1
    BY <1>4, <1>q, <1>t, <1>u, <1>m DEF Slots
  <2>2. (RxNext(rxWrite) - rxRead) % MaxRxQueue
          = IF RxNext(rxWrite) >= rxRead THEN RxNext(rxWrite) - rxRead
            ELSE RxNext(rxWrite) - rxRead + MaxRxQueue
    BY <1>t, <1>n, RxCases
  <2>3. (RxNext(rxWrite) - rxRead) % MaxRxQueue = RxUsed + 1
    BY <2>2, <1>4, <1>q, <1>t, <1>u, <1>m DEF Slots
  <2>4. RxAt(rxRead, RxUsed + 1) = rxWrite
    <3> DEFINE j == RxUsed + 1
    <3>1. RxAt(rxRead, j) = IF rxRead + j - 1 < MaxRxQueue THEN rxRead + j - 1
                            ELSE rxRead + j - 1 - MaxRxQueue
      <4>1. j \in 1 .. MaxRxQueue
        BY <2>1, <1>1, <1>q
      <4> HIDE DEF j
      <4> QED BY <4>1, <1>a
    <3> QED BY <3>1, <2>1, <1>1, <1>q, <1>t, <1>u DEF Slots
  <2>5. ASSUME NEW i \in 1 .. RxUsed PROVE RxAt(rxRead, i) # rxWrite
    <3>1. i \in 1 .. MaxRxQueue
      BY <2>5, <2>1, <1>1, <1>q
    <3> QED BY <3>1, <1>a, <1>1, <1>q, <1>t, <1>u DEF Slots
  <2> QED BY <2>1, <2>3, <2>4, <2>5
<1> QED BY <1>1, <1>2, <1>3, <1>4

LEMMA RxContentsSeq ==
  ASSUME RxInv
  PROVE  /\ RxContents \in Seq(Frames)
         /\ Len(RxContents) = RxUsed
         /\ \A i \in 1 .. RxUsed : RxContents[i] = rxData[RxAt(rxRead, i)]
<1>1. RxUsed \in Nat
  BY RxEnds DEF RxInv
<1>2. RxContents = [i \in 1 .. RxUsed |-> rxData[RxAt(rxRead, i)]]
  BY DEF RxContents, RxUsed, RxAt
<1>3. RxContents \in [1 .. RxUsed -> Frames]
  BY <1>2 DEF RxInv
<1> QED BY <1>1, <1>2, <1>3, FunctionIsSeq

LEMMA RxInit == Init => RxInv /\ Rx!Init
<1> SUFFICES ASSUME Init PROVE RxInv /\ Rx!Init
  OBVIOUS
<1>1. TypeOK
  BY TypeInit
<1>2. RxUsed = 0
  BY <1>1, RxEnds DEF Init
<1>3. RxContents = << >>
  BY <1>2 DEF RxContents, RxUsed
<1> QED BY <1>1, <1>2, <1>3, QueueAssumption DEF RxInv, Init, Rx!Init

\* Only tick() changes the RX ring: mesh.update() adds a frame, readRXQueue
\* takes one.
LEMMA RxStep == RxInv /\ [Next]_vars => RxInv' /\ [Rx!Next]_<<RxContents, lastInput>>
<1> SUFFICES ASSUME RxInv, [Next]_vars
             PROVE  RxInv' /\ [Rx!Next]_<<RxContents, lastInput>>
  OBVIOUS
<1>t. TypeOK /\ TypeOK'
  BY TypeStep DEF RxInv
<1>n. rxRead \in Slots(MaxRxQueue) /\ rxWrite \in Slots(MaxRxQueue)
  BY <1>t DEF TypeOK
<1>e. /\ RxUsed \in 0 .. MaxRxQueue - 1
      /\ RxUsed = 0 <=> rxRead = rxWrite
      /\ RxAt(rxRead, 1) = rxRead
      /\ rxRead # rxWrite => /\ (rxWrite - RxNext(rxRead)) % MaxRxQueue = RxUsed - 1
                            /\ \A i \in 1 .. RxUsed - 1 :
                                 RxAt(RxNext(rxRead), i) = RxAt(rxRead, i + 1)
      /\ RxNext(rxWrite) # rxRead
           => /\ RxUsed < MaxRxQueue - 1
              /\ (RxNext(rxWrite) - rxRead) % MaxRxQueue = RxUsed + 1
              /\ RxAt(rxRead, RxUsed + 1) = rxWrite
              /\ \A i \in 1 .. RxUsed : RxAt(rxRead, i) # rxWrite
  BY <1>t, RxEnds
<1>c. /\ RxContents \in Seq(Frames)
      /\ Len(RxContents) = RxUsed
      /\ \A i \in 1 .. RxUsed : RxContents[i] = rxData[RxAt(rxRead, i)]
  BY RxContentsSeq
<1>d. ASSUME RxInv'
      PROVE  /\ RxContents' \in Seq(Frames)
             /\ Len(RxContents') = RxUsed'
             /\ \A i \in 1 .. RxUsed' : RxContents'[i] = rxData'[RxAt(rxRead', i)]
  <2>1. RxUsed' \in Nat
    <3>1. rxRead' \in Slots(MaxRxQueue) /\ rxWrite' \in Slots(MaxRxQueue)
      BY <1>t DEF TypeOK
    <3>2. \A r, w \in Slots(MaxRxQueue) : (w - r) % MaxRxQueue \in Nat
      BY QueueAssumption DEF Slots
    <3> QED BY <3>1, <3>2 DEF RxUsed
  <2>2. RxContents' = [i \in 1 .. RxUsed' |-> rxData'[RxAt(rxRead', i)]]
    BY DEF RxContents, RxUsed, RxAt
  <2>3. RxContents' \in [1 .. RxUsed' -> Frames]
    BY <1>d, <2>2 DEF RxInv, RxAt
  <2> QED BY <2>1, <2>2, <2>3, FunctionIsSeq
<1>1. ASSUME UNCHANGED rxVars
      PROVE  RxInv' /\ UNCHANGED <<RxContents, lastInput>>
  BY <1>1, <1>t DEF RxInv, RxUsed, RxAt, RxContents, rxVars
<1>2. ASSUME NEW f \in Arrivals, TickReceive(f)
      PROVE  RxInv' /\ [Rx!Next]_<<RxContents, lastInput>>
  <2>1. CASE f \in Frames \ ShortFrames /\ RxNext(rxWrite) # rxRead
    <3>1. /\ rxData' = [rxData EXCEPT ![rxWrite] = f]
          /\ rxWrite' = RxNext(rxWrite)
          /\ UNCHANGED <<rxRead, lastInput>>
      BY <1>2, <2>1 DEF TickReceive
    <3>2. RxUsed' = RxUsed + 1
      BY <3>1, <2>1, <1>e DEF RxUsed
    <3>3. \A i \in 1 .. RxUsed :
            rxData'[RxAt(rxRead', i)] = rxData[RxAt(rxRead, i)]
      BY <3>1, <2>1, <1>e, <1>t DEF TypeOK, RxAt
    <3>4. rxData'[RxAt(rxRead', RxUsed')] = f
      BY <3>1, <3>2, <2>1, <1>e, <1>n, <1>t DEF TypeOK, RxAt
    <3> HIDE DEF RxAt, RxUsed
    <3>5. RxInv'
      BY <3>2, <3>3, <3>4, <2>1, <1>e, <1>t DEF RxInv
    <3>6. RxContents' = Append(RxContents, f)
      <4>1. \A i \in 1 .. RxUsed : RxContents'[i] = RxContents[i]
        BY <3>2, <3>3, <3>5, <1>c, <1>d, <1>e, SMTT(30)
      <4>2. RxContents'[RxUsed'] = f
        BY <3>2, <3>4, <3>5, <1>d, <1>e
      <4> QED BY <4>1, <4>2, <3>2, <3>5, <2>1, <1>c, <1>d, IsAppend
    <3> QED BY <3>1, <3>5, <3>6, <2>1, <1>c, <1>e DEF Rx!Next, Rx!Put
  <2>2. CASE ~(f \in Frames \ ShortFrames /\ RxNext(rxWrite) # rxRead)
    BY <1>1, <1>2, <2>2 DEF TickReceive, rxVars
  <2> QED BY <2>1, <2>2
<1>3. ASSUME ReadRx
      PROVE  RxInv' /\ Rx!Take
  <2>1. /\ rxRead # rxWrite
        /\ lastInput' = rxData[rxRead]
        /\ rxRead' = RxNext(rxRead)
        /\ UNCHANGED <<rxWrite, rxData>>
    BY <1>3 DEF ReadRx
  <2>2. RxUsed' = RxUsed - 1
    BY <2>1, <1>e DEF RxUsed
  <2>3. \A i \in 1 .. RxUsed' : RxAt(rxRead', i) = RxAt(rxRead, i + 1)
    <3>1. \A i \in 1 .. RxUsed - 1 : RxAt(RxNext(rxRead), i) = RxAt(rxRead, i + 1)
      BY <2>1, <1>e
    <3> QED BY <3>1, <2>1, <2>2
  <2>i. \A i \in 1 .. RxUsed' : i + 1 \in 1 .. RxUsed
    BY <2>2, <1>e
  <2> HIDE DEF RxAt, RxUsed
  <2>4. RxInv'
    BY <2>1, <2>3, <2>i, <1>t DEF RxInv
  <2>5. RxContents # << >> /\ RxContents' = Tail(RxContents)
    <3>1. \A i \in 1 .. RxUsed' : RxContents'[i] = RxContents[i + 1]
      BY <2>1, <2>3, <2>4, <2>i, <1>c, <1>d
    <3> QED BY <3>1, <2>2, <2>4, <1>c, <1>d, <1>e, IsTail
  <2>6. Head(RxContents) = rxData[rxRead]
    BY <2>1, <2>5, <1>c, <1>e
  <2> QED BY <2>1, <2>4, <2>5, <2>6 DEF Rx!Take
<1>4. CASE UNCHANGED vars
  BY <1>1, <1>4 DEF vars, rxVars
<1>5. ASSUME \/ ApiEnter \/ ApiLeave \/ TcpipEnter \/ TcpipLeave
             \/ TimeoutsEnter \/ TimeoutsLeave \/ ReadRxNothing
             \/ InputEnter \/ InputLeave
             \/ SendNothing \/ SendBegin \/ SendRadio \/ SendEnd
      PROVE  UNCHANGED rxVars
  BY <1>5 DEF ApiEnter, ApiLeave, TcpipEnter, TcpipLeave, TimeoutsEnter,
     TimeoutsLeave, ReadRxNothing, InputEnter, InputLeave,
     SendNothing, SendBegin, SendRadio, SendEnd
<1>6. ASSUME NEW t \in Threads, OutputSteps(t) \/ \E f \in Frames : OutputBegin(t, f)
      PROVE  UNCHANGED rxVars
  BY <1>6 DEF OutputSteps, OutputBegin, OutputCopied, OutputPublish
<1> QED
  BY <1>1, <1>2, <1>3, <1>4, <1>5, <1>6 DEF Next, TickSteps, Rx!Next

\* A frame in RXQueue is neither overwritten nor given to lwIP twice nor out
\* of order: the RX ring implements a bounded FIFO queue of one frame less
\* than it has slots, for all ring sizes and frames.
THEOREM RxRefines == Spec => RxIsFifo
<1>1. [Rx!Next]_<<RxContents, lastInput>> <=> [Rx!Next]_(Rx!vars)
  BY DEF Rx!vars
<1>2. RxInv /\ [Next]_vars => RxInv' /\ [Rx!Next]_(Rx!vars)
  BY RxStep, <1>1
<1> QED BY <1>2, RxInit, PTL DEF Spec, RxIsFifo, Rx!Safe
=============================================================================
