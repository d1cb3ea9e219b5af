--------------------------- MODULE MCFrameQueues ---------------------------
(* Small instances of FrameQueues: the code's two slots per ring, TX       *)
(* counters that wrap at 4, and frames of every size class.                *)
EXTENDS FrameQueues

CONSTANTS f1, f2, short, long

MCFrames == {f1, f2, short, long}
MCShort  == {short}
MCLong   == {long}
=============================================================================
