----------------------------- MODULE ZephyrTcp ------------------------------
(***************************************************************************)
(* RF24Client and RF24Server of the Zephyr build: one static descriptor,   *)
(* _socket, which the server's clients and the sketch's own connections    *)
(* share.  Zephyr's sockets are external: descriptors are given lowest     *)
(* first, from FirstFd on, and the other end may send, close or reset at   *)
(* any time.                                                               *)
(***************************************************************************)
EXTENDS Integers, FiniteSetsExt

CONSTANTS
  FirstFd, NFds, \* the descriptors sockets can get
  MaxIn, MaxOut, \* connections from others, and of the sketch's own
  MaxData,       \* packets on a connection from the other end
  MaxListens,    \* sockets begin() has made listen, all of them open
  Timeout        \* serverConnectionTimeout

ASSUME ZephyrAssumption ==
  /\ FirstFd \in Nat /\ NFds \in Nat \ {0}
  /\ MaxIn \in Nat /\ MaxOut \in Nat /\ MaxData \in Nat /\ MaxListens \in Nat /\ Timeout \in Nat

VARIABLES
  fds,           \* what each descriptor is open for: a connection, Listening or Closed
  conns,         \* the connections, as the other end has left them, each with the socket it waits at
  socket,        \* _socket, zero at first like all static data
  serverSocket, serverListening, connectionActive,
  late,          \* millis() - timeoutTimer
  established,   \* connectionEstablished of the sketch's client object
  connecting,    \* the descriptor connect() waits for
  idle,          \* history: the time since data went over the current connection, or it began
  dropped        \* history: the connections connect() has taken _socket from

zVars == <<fds, conns, socket, serverSocket, serverListening, connectionActive, late, established,
           connecting, idle, dropped>>

Fds == FirstFd .. FirstFd + NFds - 1
In == 1 .. MaxIn
Conns == 1 .. MaxIn + MaxOut
Closed == -1
Listening == 0
None == -1
Cap == Timeout + 1

ZephyrInit ==
  /\ fds = [f \in Fds |-> Closed]
  /\ conns = [c \in Conns |-> [state |-> "none", unread |-> 0, data |-> 0, at |-> None]]
  /\ socket = 0 /\ serverSocket = -1 /\ serverListening = FALSE /\ connectionActive = FALSE
  /\ late = 0 /\ established = FALSE /\ connecting = None /\ idle = 0 /\ dropped = {}

-----------------------------------------------------------------------------
(* Zephyr.                                                                 *)

FreeFds == {f \in Fds : fds[f] = Closed}
OpenAs(f) == IF f \in Fds THEN fds[f] ELSE Closed
IsConn(f) == OpenAs(f) > 0
Conn(f) == conns[OpenAs(f)]

\* zsock_close(): a listening socket's backlog goes with it.
CloseFd(f) ==
  /\ fds' = [g \in Fds |-> IF g = f THEN Closed ELSE fds[g]]
  /\ conns' = [c \in Conns |->
       IF OpenAs(f) = c \/ (conns[c].state = "pending" /\ conns[c].at = f)
       THEN [conns[c] EXCEPT !.state = "gone", !.unread = 0, !.at = None] ELSE conns[c]]

\* Somebody connects, if there is room in the backlog of a socket that listens
PeerConnects == \E c \in In, f \in Fds :
  /\ conns[c].state = "none" /\ \A d \in In : d < c => conns[d].state # "none"
  /\ fds[f] = Listening /\ \A d \in In : conns[d].at # f
  /\ conns' = [conns EXCEPT ![c].state = "pending", ![c].at = f]

PeerAnswers == \E c \in Conns :
  /\ conns[c].state = "handshake"
  /\ \E s \in {"open", "reset"} : conns' = [conns EXCEPT ![c].state = s]

PeerSends == \E c \in Conns :
  /\ conns[c].state = "open" /\ conns[c].data < MaxData
  /\ conns' = [conns EXCEPT ![c].unread = @ + 1, ![c].data = @ + 1]

PeerEnds == \E c \in Conns :
  /\ conns[c].state \in {"pending", "open"}
  /\ \E s \in {"fin", "reset"} :
       /\ conns[c].state = "pending" => s = "reset"
       /\ conns' = [conns EXCEPT ![c].state = IF @ = "pending" THEN "gone" ELSE s,
                                 ![c].unread = IF s = "reset" THEN 0 ELSE @,
                                 ![c].at = None]

Peer ==
  /\ PeerConnects \/ PeerAnswers \/ PeerSends \/ PeerEnds
  /\ idle' = IF IsConn(socket) /\ conns'[OpenAs(socket)].data > Conn(socket).data THEN 0 ELSE idle
  /\ UNCHANGED <<fds, socket, serverSocket, serverListening, connectionActive, late, established, connecting, dropped>>

ZephyrClock ==
  /\ late < Cap \/ idle < Cap
  /\ late' = Min({late + 1, Cap}) /\ idle' = Min({idle + 1, Cap})
  /\ UNCHANGED <<fds, conns, socket, serverSocket, serverListening, connectionActive, established, connecting, dropped>>

-----------------------------------------------------------------------------
(* The server.                                                             *)

Listeners == {f \in Fds : fds[f] = Listening}

\* begin(), once or again: the new number takes the place of the old one, which nobody closes.
\* Without a free descriptor it is negative; if bind, listen or fcntl fails, it is that of the
\* socket that is closed again.
Begin ==
  /\ connecting = None
  /\ IF FreeFds = {} THEN serverSocket' = -1 /\ UNCHANGED <<fds, serverListening>>
     ELSE /\ serverSocket' = Min(FreeFds)
          /\ \/ /\ Cardinality(Listeners) < MaxListens
                /\ fds' = [fds EXCEPT ![Min(FreeFds)] = Listening] /\ serverListening' = TRUE
             \/ UNCHANGED <<fds, serverListening>>
  /\ UNCHANGED <<conns, socket, connectionActive, late, established, connecting, idle, dropped>>

\* _available(): packets to read
Readable == IsConn(socket) /\ Conn(socket).unread > 0

\* A mutant of ServerTimesOut: connectionActive stays.
ServerTimesOut_KeepsActive ==
  /\ connecting = None /\ late > Timeout
  /\ late' = 0
  /\ IF socket >= 0 THEN CloseFd(socket) /\ socket' = -1 ELSE UNCHANGED <<fds, conns, socket>>
  /\ UNCHANGED <<connectionActive, serverSocket, serverListening, established, connecting, idle, dropped>>
\* available(): the server's time limit, for whatever _socket is
ServerTimesOut ==
  /\ connecting = None /\ late > Timeout
  /\ connectionActive' = FALSE /\ late' = 0
  /\ IF socket >= 0 THEN CloseFd(socket) /\ socket' = -1 ELSE UNCHANGED <<fds, conns, socket>>
  /\ UNCHANGED <<serverSocket, serverListening, established, connecting, idle, dropped>>

\* A mutant of MayAccept: whatever _socket is.
MayAccept_Always == serverListening /\ ~connectionActive
MayAccept == serverListening /\ ~connectionActive /\ socket <= 0

Pending == {c \in In : conns[c].state = "pending" /\ conns[c].at = serverSocket}
Accepts == MayAccept /\ OpenAs(serverSocket) = Listening /\ Pending # {} /\ FreeFds # {}

\* available() when there is nobody to accept, or accept() fails
ServerLooks ==
  /\ connecting = None /\ late <= Timeout /\ ~Accepts
  /\ Readable /\ late' = 0
  /\ UNCHANGED <<fds, conns, socket, serverSocket, serverListening, connectionActive, established, connecting, idle, dropped>>

ServerAccepts ==
  /\ connecting = None /\ late <= Timeout /\ Accepts
  /\ LET f == Min(FreeFds)  c == Min(Pending) IN
     /\ fds' = [fds EXCEPT ![f] = c] /\ conns' = [conns EXCEPT ![c].state = "open", ![c].at = None]
     /\ socket' = f /\ connectionActive' = TRUE /\ late' = 0 /\ idle' = 0
  /\ UNCHANGED <<serverSocket, serverListening, established, connecting, dropped>>

-----------------------------------------------------------------------------
(* The client.                                                             *)

\* connect(): the socket connects in the background,
Connect ==
  /\ connecting = None /\ FreeFds # {}
  /\ \E c \in Conns \ In :
       /\ conns[c].state = "none"
       /\ fds' = [fds EXCEPT ![Min(FreeFds)] = c] /\ conns' = [conns EXCEPT ![c].state = "handshake"]
  /\ connecting' = Min(FreeFds)
  /\ UNCHANGED <<socket, serverSocket, serverListening, connectionActive, late, established, idle, dropped>>

\* and takes the place of the current one when it is open; refused, reset or five seconds late it
\* is closed, and whatever it is when poll() or getsockopt() fails.
ConnectEnds ==
  /\ connecting # None /\ connecting' = None
  /\ \/ /\ Conn(connecting).state \in {"open", "fin"}
        /\ socket' = connecting /\ connectionActive' = TRUE /\ idle' = 0
        /\ dropped' = IF IsConn(socket) THEN dropped \cup {OpenAs(socket)} ELSE dropped
        /\ UNCHANGED <<fds, conns>>
     \/ /\ CloseFd(connecting)
        /\ UNCHANGED <<socket, connectionActive, idle, dropped>>
  /\ UNCHANGED <<serverSocket, serverListening, late, established>>

\* A mutant of Disconnect: keeps the number.
Disconnect_KeepsNumber == CloseFd(socket) /\ UNCHANGED socket
\* zsock_close(_socket); _socket = -1
Disconnect == CloseFd(socket) /\ socket' = -1

\* connected(): a connection that has ended, or a descriptor that is none, is closed; on a listening
\* socket poll() reports nothing to write.
Ended == ~IsConn(socket) \/ Conn(socket).state = "reset"
Over == IsConn(socket) /\ Conn(socket).state = "fin" /\ Conn(socket).unread = 0
Closes == IF established THEN Ended \/ Over ELSE Ended /\ OpenAs(socket) # Listening
Connected ==
  /\ connecting = None /\ socket >= 0
  /\ \/ Closes = TRUE /\ established' = FALSE /\ Disconnect
     \/ Ended = FALSE /\ established = FALSE /\ established' = TRUE /\ UNCHANGED <<fds, conns, socket>>
  /\ UNCHANGED <<serverSocket, serverListening, connectionActive, late, connecting, idle, dropped>>

\* read(), and flush(): the end of the connection makes way for the server, but _socket stays; a
\* descriptor that is none is forgotten.
Read ==
  /\ connecting = None /\ socket >= 0
  /\ LET c == OpenAs(socket) IN
     \/ /\ c > 0 /\ conns[c].unread > 0
        /\ conns' = [conns EXCEPT ![c].unread = @ - 1] /\ UNCHANGED <<connectionActive, socket>>
     \/ /\ c > 0 /\ conns[c].unread = 0 /\ conns[c].state = "fin"
        /\ connectionActive' = FALSE /\ UNCHANGED <<conns, socket>>
     \/ c = Closed /\ socket' = -1 /\ UNCHANGED <<conns, connectionActive>>
  /\ UNCHANGED <<fds, serverSocket, serverListening, late, established, connecting, idle, dropped>>

\* _write(): what goes out is new data on the connection.
Write ==
  /\ connecting = None /\ IsConn(socket) /\ Conn(socket).state \in {"open", "fin"}
  /\ idle' = 0
  /\ UNCHANGED <<fds, conns, socket, serverSocket, serverListening, connectionActive, late, established, connecting, dropped>>

\* stop()
Stop ==
  /\ connecting = None
  /\ IF socket >= 0 THEN Disconnect ELSE UNCHANGED <<fds, conns, socket>>
  /\ connectionActive' = FALSE
  /\ UNCHANGED <<serverSocket, serverListening, late, established, connecting, idle, dropped>>

ZephyrNext ==
  \/ Peer \/ ZephyrClock
  \/ Begin \/ ServerTimesOut \/ ServerLooks \/ ServerAccepts
  \/ Connect \/ ConnectEnds \/ Connected \/ Read \/ Write \/ Stop

\* The sketch goes on calling server.available(), some of the calls within the time limit of the one
\* before, or the limit would strike at each of them, and read(), or what is unread would keep the
\* limit away for good; and connect() ends in five seconds.
ZephyrSpec ==
  /\ ZephyrInit /\ [][ZephyrNext]_zVars
  /\ WF_zVars(ServerTimesOut) /\ SF_zVars(ServerAccepts)
  /\ WF_zVars(ZephyrClock) /\ WF_zVars(ConnectEnds) /\ WF_zVars(Read)

-----------------------------------------------------------------------------
\* Every open connection is one the calls can still reach, or stop() and the time limit could never
\* close it - except those connect() has taken _socket from (RF24Client.cpp:826), and, where
\* descriptors start at 0, one that _socket > 0 in RF24Server.cpp:98 takes for none.
Reachable ==
  \A f \in Fds : IsConn(f) => f \in {socket, connecting} \/ fds[f] \in dropped \/ f = 0

\* A socket that listens stays open, whatever is stopped, read, timed out or begun again - where
\* descriptors start above 0, the value _socket has before there is any connection.
ServerStays == [][FirstFd > 0 => \A f \in Listeners : fds'[f] = Listening]_zVars

\* Who waits in the backlog is accepted at last, or gives up, even if a connection was left to
\* itself - unless begin() puts another number in serverSocket (RF24Server.cpp:203).
Served ==
  \A c \in In : conns[c].state = "pending" ~> conns[c].state # "pending" \/ conns[c].at # serverSocket

\* "If data is not succesfully sent or received in this timeframe, disconnect the client"
\* (RF24Server.h:49): the time limit only ends a server's connection without data for that long.
SparesBusy ==
  [][ServerTimesOut => (OpenAs(socket) \in In => idle > Timeout)]_zVars
=============================================================================
