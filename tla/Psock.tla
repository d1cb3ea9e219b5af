------------------------------- MODULE Psock -------------------------------
(***************************************************************************)
(* The reading half of psock.c.  A sketch's protothread waits for          *)
(* psock_newdata() with PSOCK_WAIT_UNTIL and then reads, a line with       *)
(* psock_readto() or a full buffer with psock_readbuf(), over and over;    *)
(* uIP calls it with each segment and for other events.  In this copy      *)
(* neither of the two waits itself ("Comment this out to remove            *)
(* warnings"): without more data they take the segment again.              *)
(***************************************************************************)
EXTENDS Integers, SequencesExt

CONSTANTS
  EndMarker, \* the byte that ends a line
  Segments,  \* what arrives: sequences of bytes, none empty
  PsockSize, \* bufsize
  MaxSegments,
  MaxGiven   \* pieces a sketch reads: a line that goes on in the next segment is read without end

ASSUME PsockAssumption == PsockSize \in Nat \ {0} /\ Segments \subseteq Seq(STRING) \ {<< >>}

VARIABLES
  psock,   \* state, and the bytes from readptr on, readlen of them
  appdata, \* uip_appdata, if uip_newdata()
  thread,  \* the sketch's protothread: "away", "waiting" or "reading"
  byLine,  \* whether it reads lines
  arrived, \* history: the segments
  given    \* history: what each call has put into the buffer

psockVars == <<psock, appdata, thread, byLine, arrived, given>>

PsockInit ==
  /\ psock = [state |-> "NONE", rest |-> << >>]
  /\ appdata = << >> /\ thread = "away" /\ byLine \in BOOLEAN
  /\ arrived = << >> /\ given = << >>

\* uIP calls the application; an empty segment is another event.
Appcall(segment) ==
  /\ thread = "away" /\ Len(arrived) < MaxSegments
  /\ appdata' = segment /\ thread' = "waiting" /\ arrived' = Append(arrived, segment)
  /\ UNCHANGED <<psock, byLine, given>>

HasNewData(p) == p.rest # << >> \/ (p.state # "READ" /\ appdata # << >>)
psock_newdata ==
  /\ thread = "waiting"
  /\ thread' = IF HasNewData(psock) THEN "reading" ELSE "away"
  /\ psock' = IF psock.rest = << >> /\ psock.state = "READ"
              THEN [psock EXCEPT !.state = "BLOCKED_NEWDATA"] ELSE psock
  /\ UNCHANGED <<appdata, byLine, arrived, given>>

\* The rest, and the segment as often as it takes
Again(times) == psock.rest \o FlattenSeq([k \in 1 .. times |-> appdata])

\* A call that takes n of these bytes
Takes(bytes, n) ==
  /\ Len(given) < MaxGiven
  /\ given' = Append(given, SubSeq(bytes, 1, IF n < PsockSize THEN n ELSE PsockSize))
  /\ psock' = [state |-> IF n > Len(psock.rest) THEN "READ" ELSE psock.state,
               rest |-> IF n <= Len(psock.rest) THEN SubSeq(psock.rest, n + 1, Len(psock.rest))
                        ELSE LET over == (Len(bytes) - n) % Len(appdata)
                             IN  SubSeq(appdata, Len(appdata) - over + 1, Len(appdata))]
  /\ thread' = "waiting"
  /\ UNCHANGED <<appdata, byLine, arrived>>

EndsAt(bytes, n) == bytes[n] = EndMarker /\ \A k \in 1 .. n - 1 : bytes[k] # EndMarker

\* A mutant of LineAt: stops when the buffer is full.
LineAt_BufferOnly(bytes, n) == EndsAt(bytes, n) \/ n = PsockSize
\* buf_bufto(): up to the marker, also when the buffer is full before.
LineAt(bytes, n) == EndsAt(bytes, n)

\* Where there is no marker in the segment either, it never returns.
psock_readto ==
  /\ thread = "reading" /\ byLine
  /\ LET bytes == Again(1) IN \E n \in 1 .. Len(bytes) : LineAt(bytes, n) /\ Takes(bytes, n)

\* buf_bufdata(): until the buffer is full
BlockAt(n) == n = PsockSize

\* Without data it never returns.
psock_readbuf ==
  /\ thread = "reading" /\ ~byLine
  /\ LET bytes == Again(PsockSize) IN \E n \in 1 .. Len(bytes) : BlockAt(n) /\ Takes(bytes, n)

PsockNext == (\E segment \in Segments \cup {<< >>} : Appcall(segment))
               \/ psock_newdata \/ psock_readto \/ psock_readbuf

-----------------------------------------------------------------------------
Stream == FlattenSeq(arrived)
Whole == \A k \in 1 .. Len(arrived) : LET segment == arrived[k] IN
           IF byLine THEN segment = << >> \/ Last(segment) = EndMarker
           ELSE Len(segment) % PsockSize = 0

Cut(bytes) == SubSeq(bytes, 1, IF Len(bytes) < PsockSize THEN Len(bytes) ELSE PsockSize)
Lines(bytes) ==
  FoldLeft(LAMBDA l, byte : IF byte = EndMarker
                            THEN [done |-> Append(l.done, Cut(Append(l.open, byte))), open |-> << >>]
                            ELSE [l EXCEPT !.open = Append(@, byte)],
           [done |-> << >>, open |-> << >>], bytes).done
Blocks(bytes) ==
  [k \in 1 .. Len(bytes) \div PsockSize |-> SubSeq(bytes, (k - 1) * PsockSize + 1, k * PsockSize)]
Pieces(bytes) == IF byLine THEN Lines(bytes) ELSE Blocks(bytes)

\* A sketch that waits for new data before each call gets every line, cut to the buffer's size, or
\* every block of the stream, each once and in order, and has all of them when it waits for the
\* next segment - as long as none goes on in it (psock_readto, psock.c:276, psock_readbuf, :305).
LinesAreWhole ==
  Whole => IsPrefix(given, Pieces(Stream)) /\ (thread = "away" => given = Pieces(Stream))
=============================================================================
