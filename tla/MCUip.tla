------------------------------- MODULE MCUip --------------------------------
(***************************************************************************)
(* UipTcp as a server in three environments, one of which the initial      *)
(* state chooses: "Inward" and "Outward", where segments come in order and *)
(* more of them than the buffer holds go to the server, or come from it;   *)
(* and "Reordered", with two segments under way to it.                     *)
(***************************************************************************)
EXTENDS UipTcp

VARIABLE env

Other(in, out, cap) == INSTANCE UipTcp
  WITH NPeers <- 1, MaxIn <- in, MaxOut <- out, BufSize <- 2, Windows <- {2}, MaxRtx <- 1,
       MaxSynRtx <- 1, MaxOpens <- 1, ToUipCap <- cap, ToPeerCap <- 1, PortHigh <- FALSE,
       PortLow <- TRUE, Lossy <- TRUE, Listens <- TRUE, Connects <- FALSE, Expires <- FALSE,
       GivesUp <- FALSE, Resets <- FALSE, TurnTaking <- TRUE, Flushes <- FALSE

EnvInit == env \in {"Inward", "Outward", "Reordered"} /\ Init
EnvNext == \/ env = "Inward" /\ Next /\ UNCHANGED env
           \/ env = "Outward" /\ Other(1, 3, 1)!Next /\ UNCHANGED env
           \/ env = "Reordered" /\ Other(1, 2, 2)!Next /\ UNCHANGED env
EnvSpec == EnvInit /\ [][EnvNext]_<<env, vars>>
=============================================================================
