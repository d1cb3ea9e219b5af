-------------------------- MODULE ZephyrTcpProofs --------------------------
(***************************************************************************)
(* The Zephyr build's shared descriptor is kept track of, for any number   *)
(* of descriptors and connections: what is open can be reached, and the    *)
(* server's socket is never closed.                                        *)
(***************************************************************************)
EXTENDS ZephyrTcp, WellFoundedInduction, TLAPS

ConnRecords == [state : {"none", "pending", "handshake", "open", "fin", "reset", "gone"},
                unread : Nat, data : 0 .. MaxData, at : Fds \cup {None}]

\* Every variable has its type.
ZephyrTypeOK ==
  /\ fds \in [Fds -> Conns \cup {Listening, Closed}]
  /\ conns \in [Conns -> ConnRecords]
  /\ socket \in Fds \cup {-1, 0}
  /\ serverSocket \in Fds \cup {-1}
  /\ serverListening \in BOOLEAN /\ connectionActive \in BOOLEAN
  /\ established \in BOOLEAN
  /\ late \in 0 .. Cap /\ idle \in 0 .. Cap
  /\ connecting \in Fds \cup {None}
  /\ dropped \subseteq Conns

\* Why the server's socket stays open: _socket and the descriptor connect()
\* waits for are always open connections, and never the same.  Without
\* descriptor 0, that is: _socket is 0 before there is any connection.
Tracked ==
  FirstFd > 0 =>
    /\ socket \in Fds => fds[socket] > 0
    /\ connecting # None => fds[connecting] > 0 /\ connecting # socket

ZephyrInv == ZephyrTypeOK /\ Reachable /\ Tracked

\* What ServerStays says of a step
Stays == FirstFd > 0 => \A f \in Listeners : fds'[f] = Listening

-----------------------------------------------------------------------------
(* Descriptors and connections.                                            *)

LEMMA Least ==
  ASSUME NEW S, S \subseteq Nat, S # {}
  PROVE  Min(S) \in S /\ \A y \in S : Min(S) <= y
<1> DEFINE R == OpToRel(<, Nat)
<1>1. \A x, y \in Nat : <<y, x>> \in R <=> y < x
  BY Zenon DEF OpToRel
<1>2. PICK x \in S : \A y \in S : ~(<<y, x>> \in R)
  <2>1. IsWellFoundedOn(R, Nat)
    BY NatLessThanWellFounded, Zenon
  <2> HIDE DEF R
  <2> QED BY <2>1, WFMin, Zenon
<1>3. ASSUME NEW y \in S PROVE x <= y
  <2> HIDE DEF R
  <2>1. x \in Nat /\ y \in Nat
    OBVIOUS
  <2>2. ~(<<y, x>> \in R)
    BY <1>2
  <2>3. ~(y < x)
    BY <1>1, <2>1, <2>2, Zenon
  <2> QED BY <2>1, <2>3
<1> QED BY <1>3, Zenon DEF Min

LEMMA Constants ==
  /\ Fds \subseteq Nat /\ In \subseteq Conns /\ Conns \subseteq Nat \ {0}
  /\ Cap \in Nat \ {0}
  /\ Closed \notin Conns /\ Listening \notin Conns /\ None \notin Fds /\ -1 \notin Fds
  /\ FirstFd > 0 => 0 \notin Fds
BY ZephyrAssumption DEF Fds, In, Conns, Cap, Closed, Listening, None

LEMMA FreeFd ==
  ASSUME FreeFds # {}
  PROVE  Min(FreeFds) \in Fds /\ fds[Min(FreeFds)] = Closed
<1>1. FreeFds \subseteq Nat
  BY Constants, Zenon DEF FreeFds
<1>2. Min(FreeFds) \in FreeFds
  BY <1>1, Least, Zenon
<1> QED BY <1>2 DEF FreeFds

LEMMA Tick ==
  ASSUME NEW n \in 0 .. Cap
  PROVE  Min({n + 1, Cap}) \in 0 .. Cap
<1>1. {n + 1, Cap} \subseteq Nat /\ {n + 1, Cap} # {}
  BY Constants
<1>2. /\ Min({n + 1, Cap}) \in {n + 1, Cap}
      /\ \A y \in {n + 1, Cap} : Min({n + 1, Cap}) <= y
  BY <1>1, Least
<1> QED BY <1>2, Constants

\* A descriptor holds a connection exactly when what it is open for is positive.
LEMMA OpenCases ==
  ASSUME ZephyrTypeOK
  PROVE  /\ \A f \in Fds : /\ IsConn(f) <=> fds[f] > 0
                           /\ IsConn(f) <=> fds[f] \in Conns
         /\ \A f : f \notin Fds => ~IsConn(f)
         /\ \A f : OpenAs(f) \in Conns \cup {Listening, Closed}
<1>1. ASSUME NEW f \in Fds
      PROVE  OpenAs(f) = fds[f] /\ fds[f] \in Conns \cup {Listening, Closed}
  BY <1>1 DEF ZephyrTypeOK, OpenAs
<1>2. ASSUME NEW f, f \notin Fds PROVE OpenAs(f) = Closed
  BY <1>2 DEF OpenAs
<1>3. \A x \in Conns \cup {Listening, Closed} : x > 0 <=> x \in Conns
  BY Constants DEF Listening, Closed
<1>4. \A f \in Fds : IsConn(f) <=> fds[f] > 0
  BY <1>1 DEF IsConn
<1>5. \A f \in Fds : fds[f] > 0 <=> fds[f] \in Conns
  BY <1>1, <1>3
<1>6. \A f : f \notin Fds => ~IsConn(f)
  BY <1>2 DEF IsConn, Closed
<1> QED BY <1>1, <1>2, <1>4, <1>5, <1>6

-----------------------------------------------------------------------------
(* Types.                                                                  *)

LEMMA ZephyrTypeInit == ZephyrInit => ZephyrTypeOK
<1> SUFFICES ASSUME ZephyrInit PROVE ZephyrTypeOK
  OBVIOUS
<1>1. conns \in [Conns -> ConnRecords]
  BY ZephyrAssumption DEF ZephyrInit, ConnRecords
<1>2. serverListening \in BOOLEAN /\ connectionActive \in BOOLEAN /\ established \in BOOLEAN
  BY Zenon DEF ZephyrInit
<1>3. fds \in [Fds -> Conns \cup {Listening, Closed}]
  BY DEF ZephyrInit
<1>4. /\ late \in 0 .. Cap /\ idle \in 0 .. Cap
      /\ socket \in Fds \cup {-1, 0} /\ serverSocket \in Fds \cup {-1}
  BY Constants, SMTT(30) DEF ZephyrInit
<1>5. connecting \in Fds \cup {None} /\ dropped \subseteq Conns
  BY SMTT(30) DEF ZephyrInit
<1> QED BY <1>1, <1>2, <1>3, <1>4, <1>5 DEF ZephyrTypeOK

LEMMA CloseFdType ==
  ASSUME ZephyrTypeOK, NEW f, CloseFd(f)
  PROVE  /\ fds' \in [Fds -> Conns \cup {Listening, Closed}]
         /\ conns' \in [Conns -> ConnRecords]
         /\ \A g \in Fds : fds'[g] = IF g = f THEN Closed ELSE fds[g]
<1>1. \A c \in Conns : [conns[c] EXCEPT !.state = "gone", !.unread = 0, !.at = None] \in ConnRecords
  BY ZenonT(40) DEF ZephyrTypeOK, ConnRecords
<1>2. \A c \in Conns : conns[c] \in ConnRecords
  BY SMTT(30) DEF ZephyrTypeOK
<1>3. conns' \in [Conns -> ConnRecords]
  BY <1>1, <1>2, Zenon DEF CloseFd
<1> QED BY <1>3, Zenon DEF ZephyrTypeOK, CloseFd

LEMMA ZephyrTypeStep == ZephyrTypeOK /\ [ZephyrNext]_zVars => ZephyrTypeOK'
<1> SUFFICES ASSUME ZephyrTypeOK, [ZephyrNext]_zVars PROVE ZephyrTypeOK'
  OBVIOUS
<1> USE DEF ZephyrTypeOK
<1>1. ASSUME Peer PROVE ZephyrTypeOK'
  <2>1. conns' \in [Conns -> ConnRecords]
    <3>1. CASE PeerConnects
      BY <3>1, Constants DEF PeerConnects, ConnRecords
    <3>2. CASE PeerAnswers
      BY <3>2 DEF PeerAnswers, ConnRecords
    <3>3. CASE PeerSends
      BY <3>3, ZephyrAssumption DEF PeerSends, ConnRecords
    <3>4. CASE PeerEnds
      <4> PICK c \in Conns : \E r \in {"fin", "reset"} :
             conns' = [conns EXCEPT ![c].state = IF @ = "pending" THEN "gone" ELSE r,
                                    ![c].unread = IF r = "reset" THEN 0 ELSE @,
                                    ![c].at = None]
        BY <3>4, ZenonT(40) DEF PeerEnds
      <4> PICK r \in {"fin", "reset"} :
             conns' = [conns EXCEPT ![c].state = IF @ = "pending" THEN "gone" ELSE r,
                                    ![c].unread = IF r = "reset" THEN 0 ELSE @,
                                    ![c].at = None]
        BY Zenon
      <4>1. /\ (IF conns[c].state = "pending" THEN "gone" ELSE r)
                 \in {"none", "pending", "handshake", "open", "fin", "reset", "gone"}
            /\ conns[c] \in ConnRecords
            /\ (IF r = "reset" THEN 0 ELSE conns[c].unread) \in Nat
        BY DEF ConnRecords
      <4>2. [conns[c] EXCEPT !.state = IF @ = "pending" THEN "gone" ELSE r,
                             !.unread = IF r = "reset" THEN 0 ELSE @, !.at = None] \in ConnRecords
        BY <4>1, Zenon DEF ConnRecords
      <4>3. conns' = [conns EXCEPT ![c] = [conns[c] EXCEPT
                        !.state = IF @ = "pending" THEN "gone" ELSE r,
                        !.unread = IF r = "reset" THEN 0 ELSE @, !.at = None]]
        BY Zenon
      <4> QED BY <4>2, <4>3, ZenonT(40)
    <3> QED BY <1>1, <3>1, <3>2, <3>3, <3>4 DEF Peer
  <2> QED BY <1>1, <2>1, Constants DEF Peer
<1>2. ASSUME ZephyrClock PROVE ZephyrTypeOK'
  BY <1>2, Tick DEF ZephyrClock
<1>3. ASSUME Begin PROVE ZephyrTypeOK'
  <2>1. UNCHANGED <<conns, socket, connectionActive, late, established, connecting, idle, dropped>>
    BY <1>3 DEF Begin
  <2>2. CASE FreeFds = {}
    BY <1>3, <2>1, <2>2 DEF Begin
  <2>3. CASE FreeFds # {}
    <3>1. serverSocket' \in Fds
      BY <1>3, <2>3, FreeFd, Zenon DEF Begin
    <3>2. /\ serverListening' \in BOOLEAN
          /\ fds' = fds \/ fds' = [fds EXCEPT ![Min(FreeFds)] = Listening]
      BY <1>3, <2>3, Zenon DEF Begin
    <3> QED BY <2>1, <3>1, <3>2, Zenon
  <2> QED BY <2>2, <2>3
<1>4. ASSUME ServerTimesOut PROVE ZephyrTypeOK'
  <2>1. /\ fds' \in [Fds -> Conns \cup {Listening, Closed}]
        /\ conns' \in [Conns -> ConnRecords]
        /\ socket' \in Fds \cup {-1, 0}
    <3>1. CASE socket >= 0
      BY <1>4, <3>1, CloseFdType DEF ServerTimesOut
    <3>2. CASE ~(socket >= 0)
      BY <1>4, <3>2 DEF ServerTimesOut
    <3> QED BY <3>1, <3>2
  <2>2. late' \in 0 .. Cap
    BY <1>4, Constants DEF ServerTimesOut
  <2>3. connectionActive' \in BOOLEAN
    BY <1>4, Zenon DEF ServerTimesOut
  <2> QED BY <1>4, <2>1, <2>2, <2>3 DEF ServerTimesOut
<1>5. ASSUME ServerLooks PROVE ZephyrTypeOK'
  BY <1>5, Constants DEF ServerLooks
<1>6. ASSUME ServerAccepts PROVE ZephyrTypeOK'
  <2>1. Min(Pending) \in In
    <3>1. Pending # {} /\ Pending \subseteq Nat
      BY <1>6, Constants DEF ServerAccepts, Accepts, Pending
    <3> QED BY <3>1, Least DEF Pending
  <2>2. Min(FreeFds) \in Fds
    BY <1>6, FreeFd DEF ServerAccepts, Accepts
  <2> QED BY <1>6, <2>1, <2>2, Constants DEF ServerAccepts, ConnRecords
<1>7. ASSUME Connect PROVE ZephyrTypeOK'
  BY <1>7, FreeFd DEF Connect, ConnRecords
<1>8. ASSUME ConnectEnds PROVE ZephyrTypeOK'
  <2>1. CASE CloseFd(connecting) /\ UNCHANGED <<socket, connectionActive, idle, dropped>>
    BY <1>8, <2>1, CloseFdType DEF ConnectEnds
  <2>2. CASE /\ socket' = connecting /\ connectionActive' = TRUE /\ idle' = 0
             /\ dropped' = IF IsConn(socket) THEN dropped \cup {OpenAs(socket)} ELSE dropped
             /\ UNCHANGED <<fds, conns>>
    <3>1. dropped' \subseteq Conns
      BY <2>2, OpenCases DEF OpenAs
    <3> QED BY <1>8, <2>2, <3>1, Constants DEF ConnectEnds
  <2> QED BY <1>8, <2>1, <2>2, Zenon DEF ConnectEnds
<1>9. ASSUME Connected PROVE ZephyrTypeOK'
  BY <1>9, CloseFdType, Zenon DEF Connected, Disconnect
<1>10. ASSUME Read PROVE ZephyrTypeOK'
  <2>1. UNCHANGED <<fds, serverSocket, serverListening, late, established,
                    connecting, idle, dropped>>
    BY <1>10 DEF Read
  <2>2. CASE UNCHANGED conns
    BY <1>10, <2>1, <2>2, Zenon DEF Read
  <2>3. CASE /\ OpenAs(socket) > 0 /\ conns[OpenAs(socket)].unread > 0
             /\ conns' = [conns EXCEPT ![OpenAs(socket)].unread = @ - 1]
             /\ UNCHANGED <<connectionActive, socket>>
    <3>1. OpenAs(socket) \in Conns
      BY <2>3, OpenCases DEF IsConn, OpenAs
    <3>2. conns[OpenAs(socket)].unread - 1 \in Nat
      BY <2>3, <3>1 DEF ConnRecords
    <3> QED BY <2>1, <2>3, <3>1, <3>2 DEF ConnRecords
  <2> QED BY <1>10, <2>2, <2>3 DEF Read
<1>11. ASSUME Write PROVE ZephyrTypeOK'
  BY <1>11, Constants DEF Write
<1>12. ASSUME Stop PROVE ZephyrTypeOK'
  BY <1>12, CloseFdType, Zenon DEF Stop, Disconnect
<1>13. CASE UNCHANGED zVars
  BY <1>13 DEF zVars
<1> QED
  BY <1>1, <1>2, <1>3, <1>4, <1>5, <1>6, <1>7, <1>8, <1>9, <1>10, <1>11, <1>12, <1>13
  DEF ZephyrNext

\* Every variable of the Zephyr sockets keeps its type.
THEOREM ZephyrTypeCorrect == ZephyrSpec => []ZephyrTypeOK
BY ZephyrTypeInit, ZephyrTypeStep, PTL DEF ZephyrSpec

-----------------------------------------------------------------------------
(* What is open is kept track of.                                          *)

LEMMA ZephyrInvInit == ZephyrInit => ZephyrInv
<1> SUFFICES ASSUME ZephyrInit PROVE ZephyrInv
  OBVIOUS
<1>1. ZephyrTypeOK
  BY ZephyrTypeInit
<1>2. \A f \in Fds : ~IsConn(f)
  BY DEF ZephyrInit, IsConn, OpenAs, Closed
<1>3. Reachable
  BY <1>2 DEF Reachable
<1>4. Tracked
  BY Constants DEF ZephyrInit, Tracked
<1> QED BY <1>1, <1>3, <1>4 DEF ZephyrInv

\* A step that opens, closes and moves no descriptor.
LEMMA SameDescriptors ==
  ASSUME ZephyrInv, UNCHANGED <<fds, socket, connecting, dropped>>
  PROVE  (Reachable /\ Tracked)' /\ Stays
BY DEF ZephyrInv, Reachable, Tracked, Stays, Listeners, IsConn, OpenAs

\* Closing _socket.
LEMMA SocketCloses ==
  ASSUME ZephyrInv, CloseFd(socket), socket' = -1, connecting = None,
         UNCHANGED <<connecting, dropped>>
  PROVE  (Reachable /\ Tracked)' /\ Stays
<1>0. ZephyrTypeOK
  BY DEF ZephyrInv
<1>1. \A g \in Fds : fds'[g] = IF g = socket THEN Closed ELSE fds[g]
  BY <1>0, CloseFdType
<1>2. Reachable'
  BY <1>1, Constants DEF ZephyrInv, Reachable, IsConn, OpenAs, Closed
<1>3. Tracked'
  BY Constants DEF Tracked
<1>4. Stays
  BY <1>1 DEF ZephyrInv, Tracked, Stays, Listeners, Listening
<1> QED BY <1>2, <1>3, <1>4

LEMMA ZephyrInvStep == ZephyrInv /\ [ZephyrNext]_zVars => ZephyrInv' /\ Stays
<1> SUFFICES ASSUME ZephyrInv, [ZephyrNext]_zVars
             PROVE  (Reachable /\ Tracked)' /\ Stays
  BY ZephyrTypeStep DEF ZephyrInv
<1>t. ZephyrTypeOK
  BY DEF ZephyrInv
<1>1. ASSUME Peer \/ ZephyrClock \/ ServerLooks \/ Write
      PROVE  (Reachable /\ Tracked)' /\ Stays
  BY <1>1, SameDescriptors DEF Peer, ZephyrClock, ServerLooks, Write
\* The server's socket gets a descriptor that was closed, or none stays open.
<1>2. ASSUME Begin PROVE (Reachable /\ Tracked)' /\ Stays
  <2> DEFINE f == Min(FreeFds)
  <2>1. connecting = None /\ UNCHANGED <<socket, connecting, dropped>>
    BY <1>2 DEF Begin
  <2>2. CASE FreeFds # {} /\ fds' = [fds EXCEPT ![f] = Listening]
    <3>1. f \in Fds /\ fds[f] = Closed
      BY <2>2, FreeFd
    <3> HIDE DEF f
    <3>2. \A g \in Fds : fds'[g] = IF g = f THEN Listening ELSE fds[g]
      BY <2>2, <1>t DEF ZephyrTypeOK
    <3>3. Reachable'
      BY <2>1, <3>2 DEF ZephyrInv, Reachable, IsConn, OpenAs, Listening
    <3>4. Tracked'
      BY <2>1, <3>1, <3>2 DEF ZephyrInv, Tracked, Closed, None
    <3>5. Stays
      BY <3>2 DEF Stays, Listeners
    <3> QED BY <3>3, <3>4, <3>5
  <2>3. CASE UNCHANGED fds
    BY <2>1, <2>3, SameDescriptors
  <2> QED BY <1>2, <2>2, <2>3, Zenon DEF Begin
<1>3. ASSUME ServerTimesOut PROVE (Reachable /\ Tracked)' /\ Stays
  BY <1>3, SocketCloses, SameDescriptors DEF ServerTimesOut
\* The server takes _socket only when it holds no descriptor above 0.
<1>4. ASSUME ServerAccepts PROVE (Reachable /\ Tracked)' /\ Stays
  <2> DEFINE f == Min(FreeFds)
             c == Min(Pending)
  <2>1. f \in Fds /\ fds[f] = Closed
    BY <1>4, FreeFd DEF ServerAccepts, Accepts
  <2>2. c \in Conns /\ c > 0
    <3>1. Pending # {} /\ Pending \subseteq Nat
      BY <1>4, Constants DEF ServerAccepts, Accepts, Pending
    <3>2. Min(Pending) \in Pending
      BY <3>1, Least, Zenon
    <3>3. Min(Pending) \in In
      BY <3>2 DEF Pending
    <3>4. \A d \in In : d \in Conns /\ d > 0
      BY Constants
    <3> QED BY <3>3, <3>4
  <2>3. /\ connecting = None /\ socket <= 0
        /\ fds' = [fds EXCEPT ![f] = c] /\ socket' = f
        /\ UNCHANGED <<connecting, dropped, serverSocket, serverListening>>
    BY <1>4 DEF ServerAccepts, Accepts, MayAccept
  <2> HIDE DEF f, c
  <2>4. \A g \in Fds : fds'[g] = IF g = f THEN c ELSE fds[g]
    BY <2>3, <1>t DEF ZephyrTypeOK
  <2>5. Reachable'
    <3> SUFFICES ASSUME NEW g \in Fds, IsConn(g)', g # f, g # 0
                 PROVE  fds'[g] \in dropped'
      BY <2>3 DEF Reachable
    <3>1. IsConn(g) /\ g \notin {socket, connecting}
      BY <2>3, <2>4, <1>t, Constants DEF IsConn, OpenAs, ZephyrTypeOK
    <3> QED BY <2>3, <2>4, <3>1 DEF ZephyrInv, Reachable
  <2>6. Tracked'
    BY <2>2, <2>3, <2>4 DEF Tracked
  <2>7. Stays
    BY <2>1, <2>4 DEF Stays, Listeners, Listening, Closed
  <2> QED BY <2>5, <2>6, <2>7
\* connect() waits for a descriptor that was closed ...
<1>5. ASSUME Connect PROVE (Reachable /\ Tracked)' /\ Stays
  <2> DEFINE f == Min(FreeFds)
  <2>1. f \in Fds /\ fds[f] = Closed
    BY <1>5, FreeFd DEF Connect
  <2>2. PICK c \in Conns \ In : fds' = [fds EXCEPT ![f] = c]
    BY <1>5, Zenon DEF Connect
  <2>3. /\ connecting = None /\ connecting' = f
        /\ UNCHANGED <<socket, dropped, serverSocket, serverListening>>
    BY <1>5 DEF Connect
  <2>4. c > 0
    BY Constants
  <2> HIDE DEF f
  <2>5. \A g \in Fds : fds'[g] = IF g = f THEN c ELSE fds[g]
    BY <2>2, <1>t DEF ZephyrTypeOK
  <2>6. Reachable'
    BY <2>3, <2>5, Constants DEF ZephyrInv, Reachable, IsConn, OpenAs
  <2>7. Tracked'
    BY <2>1, <2>3, <2>4, <2>5 DEF ZephyrInv, Tracked, Closed
  <2>8. Stays
    BY <2>1, <2>5 DEF Stays, Listeners, Listening, Closed
  <2> QED BY <2>6, <2>7, <2>8
\* ... and makes it _socket or closes it.
<1>6. ASSUME ConnectEnds PROVE (Reachable /\ Tracked)' /\ Stays
  <2>1. /\ connecting \in Fds /\ connecting' = None
        /\ UNCHANGED <<serverSocket, serverListening>>
    BY <1>6, <1>t DEF ConnectEnds, ZephyrTypeOK
  <2>2. CASE /\ socket' = connecting
             /\ dropped' = IF IsConn(socket) THEN dropped \cup {OpenAs(socket)} ELSE dropped
             /\ UNCHANGED fds
    <3>1. Reachable'
      BY <2>1, <2>2 DEF ZephyrInv, Reachable, IsConn, OpenAs
    <3>2. Tracked'
      BY <2>1, <2>2, Constants DEF ZephyrInv, Tracked
    <3>3. Stays
      BY <2>2 DEF Stays, Listeners
    <3> QED BY <3>1, <3>2, <3>3
  <2>3. CASE CloseFd(connecting) /\ UNCHANGED <<socket, dropped>>
    <3>1. \A g \in Fds : fds'[g] = IF g = connecting THEN Closed ELSE fds[g]
      BY <2>3, <1>t, CloseFdType
    <3>2. Reachable'
      BY <2>1, <2>3, <3>1, Constants DEF ZephyrInv, Reachable, IsConn, OpenAs, Closed
    <3>3. Tracked'
      BY <2>1, <2>3, <3>1, Constants, Zenon DEF ZephyrInv, Tracked
    <3>4. Stays
      <4>1. FirstFd > 0 => fds[connecting] > 0
        BY <2>1, Constants DEF ZephyrInv, Tracked
      <4> QED BY <3>1, <4>1 DEF Stays, Listeners, Listening
    <3> QED BY <3>2, <3>3, <3>4
  <2> QED BY <1>6, <2>2, <2>3 DEF ConnectEnds
<1>7. ASSUME Connected PROVE (Reachable /\ Tracked)' /\ Stays
  BY <1>7, SocketCloses, SameDescriptors DEF Connected, Disconnect
<1>8. ASSUME Read PROVE (Reachable /\ Tracked)' /\ Stays
  <2>1. /\ connecting = None
        /\ UNCHANGED <<fds, connecting, dropped, serverSocket, serverListening>>
    BY <1>8 DEF Read
  <2>2. CASE UNCHANGED socket
    BY <2>1, <2>2, SameDescriptors
  <2>3. CASE OpenAs(socket) = Closed /\ socket' = -1
    <3>1. Reachable'
      BY <2>1, <2>3 DEF ZephyrInv, Reachable, IsConn, OpenAs, Closed
    <3>2. Tracked'
      BY <2>1, <2>3, Constants DEF Tracked
    <3>3. Stays
      BY <2>1 DEF Stays, Listeners
    <3> QED BY <3>1, <3>2, <3>3
  <2> QED BY <1>8, <2>2, <2>3 DEF Read
<1>9. ASSUME Stop PROVE (Reachable /\ Tracked)' /\ Stays
  BY <1>9, SocketCloses, SameDescriptors DEF Stop, Disconnect
<1>10. CASE UNCHANGED zVars
  BY <1>10, SameDescriptors DEF zVars
<1> QED
  BY <1>1, <1>2, <1>3, <1>4, <1>5, <1>6, <1>7, <1>8, <1>9, <1>10 DEF ZephyrNext

\* Every open connection can be reached by _socket or by the connect() in
\* progress, but for those connect() took _socket from and one on descriptor 0.
THEOREM NothingIsLost == ZephyrSpec => []Reachable
<1>1. ZephyrSpec => []ZephyrInv
  BY ZephyrInvInit, ZephyrInvStep, PTL DEF ZephyrSpec
<1>2. ZephyrInv => Reachable
  BY DEF ZephyrInv
<1> QED BY <1>1, <1>2, PTL

\* No call, time limit or end of a connection closes a socket that listens,
\* where descriptors start above 0.
THEOREM ServerIsKept == ZephyrSpec => ServerStays
<1>1. ZephyrSpec => []ZephyrInv
  BY ZephyrInvInit, ZephyrInvStep, PTL DEF ZephyrSpec
<1>2. ZephyrInv /\ [ZephyrNext]_zVars
        => [FirstFd > 0 => \A f \in Listeners : fds'[f] = Listening]_zVars
  BY ZephyrInvStep DEF Stays
<1> QED BY <1>1, <1>2, PTL DEF ZephyrSpec, ServerStays
=============================================================================
