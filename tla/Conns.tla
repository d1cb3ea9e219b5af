------------------------------- MODULE Conns --------------------------------
(***************************************************************************)
(* The tables of a uIP build with any number of connections: uip_conns and *)
(* uip_listenports of uip.c, all_data of RF24Client.cpp.  What goes        *)
(* through a connection is in UipTcp; here are the ways it comes into the  *)
(* tables, from outside or through connect(), and the ways it leaves them. *)
(***************************************************************************)
EXTENDS Naturals, Sequences, FiniteSetsExt

CONSTANTS
  NConns,            \* UIP_CONNS
  NListen,           \* UIP_LISTENPORTS
  ServerPorts,       \* the ports servers listen on
  InitPort, FirstPort, EndPort, \* lastport: 1024 at first; behind 31999 comes 4096
  Remotes,           \* the addresses and ports of the other ends
  TimeWait           \* UIP_TIME_WAIT_TIMEOUT

ASSUME ConnsAssumption ==
  /\ NConns \in Nat \ {0} /\ NListen \in Nat \ {0} /\ TimeWait \in Nat \ {0}
  /\ {InitPort, FirstPort, EndPort} \cup ServerPorts \subseteq Nat \ {0}
  /\ InitPort < FirstPort /\ EndPort - FirstPort > NConns

VARIABLES
  uip_listenports, uip_conns, lastport,
  all_data,    \* RF24Client's uip_userdata_t
  client,      \* the sketch's client object: an index of all_data or None
  connecting   \* the connection connect() waits for, or None

connVars == <<uip_listenports, uip_conns, lastport, all_data, client, connecting>>

None == 0
Slots == 1 .. NConns
NoConn == [st |-> "CLOSED", lport |-> 0, remote |-> None, timer |-> 0, appstate |-> None]
NoData == [state |-> "free", packets_in |-> FALSE, lport |-> 0]

\* uip_init()
ConnsInit ==
  /\ uip_listenports = [i \in 1 .. NListen |-> 0]
  /\ uip_conns = [i \in Slots |-> NoConn]
  /\ lastport = InitPort
  /\ all_data = [k \in Slots |-> NoData] /\ client = None /\ connecting = None

-----------------------------------------------------------------------------
(* serialip_appcall(), for connection i in the state st, by the event.     *)

Becomes(i, st, app) == [uip_conns EXCEPT ![i].st = st, ![i].appstate = app, ![i].timer = 0]

\* UIP_CONNECTED: _allocateData(), perhaps with nothing to allocate; data may come with it
Connected(i, data) ==
  LET free == {k \in Slots : all_data[k].state = "free"}
  IN  IF free = {} THEN uip_conns' = Becomes(i, "ESTABLISHED", None) /\ UNCHANGED all_data
      ELSE LET k == Min(free)
           IN  /\ uip_conns' = Becomes(i, "ESTABLISHED", k)
               /\ all_data' = [all_data EXCEPT ![k] = [state |-> "connected", packets_in |-> data,
                                                       lport |-> 0]]

\* UIP_NEWDATA; the connection goes on, or ends with the next acknowledgement
NewData(i, st) ==
  LET k == uip_conns[i].appstate
  IN  /\ uip_conns' = Becomes(i, st, k)
      /\ all_data' = IF k # None /\ all_data[k].state = "connected"
                     THEN [all_data EXCEPT ![k].packets_in = TRUE] ELSE all_data

\* UIP_CLOSE, UIP_ABORT, UIP_TIMEDOUT: unread data stay, without the connection
Ended(i, st) ==
  LET k == uip_conns[i].appstate
  IN  /\ uip_conns' = Becomes(i, st, None)
      /\ all_data' = IF k = None THEN all_data
                     ELSE IF all_data[k].packets_in
                     THEN [all_data EXCEPT ![k].state = "remote closed", ![k].lport = uip_conns[i].lport]
                     ELSE [all_data EXCEPT ![k] = NoData]

\* UIP_POLL: the sketch has stopped the client, or its time limit is up
Polled(i) ==
  LET k == uip_conns[i].appstate
  IN  /\ k # None
      /\ uip_conns' = Becomes(i, "FIN_WAIT", None)
      /\ all_data' = [all_data EXCEPT ![k] = NoData]

-----------------------------------------------------------------------------
(* uip.c.                                                                  *)

IsFor(i, from, to) ==
  /\ uip_conns[i].st # "CLOSED" /\ uip_conns[i].lport = to /\ uip_conns[i].remote = from

\* The connection a new one may take: one that is closed, else the one in TIME_WAIT for longest
Unused ==
  LET closed  == {i \in Slots : uip_conns[i].st = "CLOSED"}
      waiting == {i \in Slots : uip_conns[i].st = "TIME_WAIT"}
      longest == {i \in waiting : \A j \in waiting : uip_conns[j].timer <= uip_conns[i].timer}
  IN  IF closed # {} THEN Min(closed) ELSE IF waiting # {} THEN Min(longest) ELSE None

Opened(i, st, lport, remote) ==
  [uip_conns EXCEPT ![i].st = st, ![i].lport = lport, ![i].remote = remote, ![i].timer = 0]

\* found_listen
FoundListen(from, to) ==
  /\ Unused # None
  /\ uip_conns' = Opened(Unused, "SYN_RCVD", to, from)
  /\ UNCHANGED all_data

\* What a segment does to the connection it is for.  A window that is closed while data are
\* unread keeps out data and FIN.
Reached(i, kind) ==
  LET st == uip_conns[i].st
      unread == uip_conns[i].appstate # None /\ all_data[uip_conns[i].appstate].packets_in
  IN  \/ kind = "RST" /\ Ended(i, "CLOSED")
      \/ st = "SYN_RCVD" /\ kind \in {"ACK", "DATA"} /\ Connected(i, kind = "DATA")
      \/ st = "SYN_SENT" /\ kind = "SYN ACK" /\ Connected(i, FALSE)
      \/ st = "SYN_SENT" /\ kind = "ACK" /\ Ended(i, "CLOSED")
      \/ st = "ESTABLISHED" /\ ~unread /\ kind = "DATA" /\ NewData(i, "ESTABLISHED")
      \/ st = "ESTABLISHED" /\ ~unread /\ kind = "FIN" /\ Ended(i, "LAST_ACK")
      \/ st = "ESTABLISHED" /\ ~unread /\ kind = "DATA FIN" /\ NewData(i, "LAST_ACK")
      \/ st = "LAST_ACK" /\ kind = "ACK" /\ Ended(i, "CLOSED")
      \/ st = "FIN_WAIT" /\ kind \in {"FIN", "DATA FIN"} /\ Ended(i, "TIME_WAIT")

\* uip_input(): a segment for the first connection that matches, or a SYN for a listening port
Segment(from, to, kind) ==
  LET those == {i \in Slots : IsFor(i, from, to)}
  IN  /\ IF those # {} THEN Reached(Min(those), kind)
         ELSE /\ kind = "SYN" /\ \E n \in 1 .. NListen : uip_listenports[n] = to
              /\ FoundListen(from, to)
      /\ UNCHANGED <<uip_listenports, lastport, client, connecting>>

\* uip_periodic(): TIME_WAIT goes by (in FIN_WAIT_2 as well), retransmissions end, the application is polled
Periodic(i) ==
  LET st == uip_conns[i].st
  IN  /\ \/ /\ st = "TIME_WAIT" /\ uip_conns[i].timer + 1 < TimeWait
            /\ uip_conns' = [uip_conns EXCEPT ![i].timer = @ + 1] /\ UNCHANGED all_data
         \/ /\ st \in {"TIME_WAIT", "FIN_WAIT"} /\ uip_conns[i].timer + 1 = TimeWait
            /\ uip_conns' = Becomes(i, "CLOSED", uip_conns[i].appstate) /\ UNCHANGED all_data
         \/ st \notin {"CLOSED", "TIME_WAIT"} /\ Ended(i, "CLOSED")
         \/ st = "ESTABLISHED" /\ Polled(i)
      /\ UNCHANGED <<uip_listenports, lastport, client, connecting>>

\* connect() looks at its connection after every tick.
Unresolved == connecting # None => uip_conns[connecting].st = "SYN_SENT"
Tick ==
  /\ Unresolved
  /\ \/ \E i \in Slots : Periodic(i)
     \/ \E from \in Remotes, to \in ServerPorts \cup (InitPort .. EndPort - 1),
           kind \in {"SYN", "SYN ACK", "ACK", "DATA", "FIN", "DATA FIN", "RST"} :
          Segment(from, to, kind)

-----------------------------------------------------------------------------
(* The sketch's calls.                                                     *)

\* uip_listen(), uip_unlisten()
Listen(port) ==
  LET free == {n \in 1 .. NListen : uip_listenports[n] = 0}
  IN  /\ connecting = None /\ free # {}
      /\ uip_listenports' = [uip_listenports EXCEPT ![Min(free)] = port]
      /\ UNCHANGED <<uip_conns, lastport, all_data, client, connecting>>
Unlisten(port) ==
  LET those == {n \in 1 .. NListen : uip_listenports[n] = port}
  IN  /\ connecting = None /\ those # {}
      /\ uip_listenports' = [uip_listenports EXCEPT ![Min(those)] = 0]
      /\ UNCHANGED <<uip_conns, lastport, all_data, client, connecting>>

\* RF24Server::available(): data whose connection, or the one of the same index, is the port's
Offered(port) ==
  {k \in Slots : /\ all_data[k].packets_in
                 /\ IF all_data[k].state = "remote closed" THEN all_data[k].lport = port
                    ELSE uip_conns[k].lport = port}
Accept(port) ==
  /\ connecting = None /\ Offered(port) # {}
  /\ client' = Min(Offered(port))
  /\ UNCHANGED <<uip_listenports, uip_conns, lastport, all_data, connecting>>

\* read(), to the end
Read ==
  /\ connecting = None /\ client # None /\ all_data[client].packets_in
  /\ IF all_data[client].state = "remote closed"
       THEN all_data' = [all_data EXCEPT ![client] = NoData] /\ client' = None
       ELSE all_data' = [all_data EXCEPT ![client].packets_in = FALSE] /\ UNCHANGED client
  /\ UNCHANGED <<uip_listenports, uip_conns, lastport, connecting>>

\* stop()
Stopped ==
  IF client = None \/ all_data[client].state = "free" THEN all_data
  ELSE IF all_data[client].state = "remote closed" THEN [all_data EXCEPT ![client] = NoData]
  ELSE [all_data EXCEPT ![client].packets_in = FALSE, ![client].state = "close"]
Stop ==
  /\ connecting = None /\ client # None
  /\ all_data' = Stopped /\ client' = None
  /\ UNCHANGED <<uip_listenports, uip_conns, lastport, connecting>>

NextPort(port) == IF port + 1 >= EndPort THEN FirstPort ELSE port + 1
\* A mutant of LocalPort: does not ask whether the port is in use.
LocalPort_Next(port) == NextPort(port)
\* The next local port that no connection uses
LocalPort(port) ==
  LET InUse(p) == \E i \in Slots : uip_conns[i].st # "CLOSED" /\ uip_conns[i].lport = p
      after[n \in 1 .. NConns + 1] == IF n = 1 THEN NextPort(port) ELSE NextPort(after[n - 1])
      free == {n \in 1 .. NConns + 1 : ~InUse(after[n])}
  IN  after[Min(free)]

\* connect(): stop(), then uip_connect()
Connect(remote) ==
  /\ connecting = None
  /\ all_data' = Stopped /\ client' = None /\ lastport' = LocalPort(lastport)
  /\ connecting' = Unused
  /\ uip_conns' = IF Unused = None THEN uip_conns
                  ELSE Opened(Unused, "SYN_SENT", lastport', remote)
  /\ UNCHANGED uip_listenports

\* It is established, or closed; or UIP_CONNECTION_TIMEOUT is over.
ConnectReturn ==
  /\ connecting # None /\ connecting' = None
  /\ LET established == uip_conns[connecting].st = "ESTABLISHED"
     IN  /\ client' = IF established THEN uip_conns[connecting].appstate ELSE None
         /\ uip_conns' = IF established THEN uip_conns
                         ELSE [uip_conns EXCEPT ![connecting].st = "CLOSED"]
  /\ UNCHANGED <<uip_listenports, lastport, all_data>>

Sketch ==
  \/ \E port \in ServerPorts : Listen(port) \/ Unlisten(port) \/ Accept(port)
  \/ Read \/ Stop \/ ConnectReturn
  \/ \E remote \in Remotes : Connect(remote)

ConnsNext == Tick \/ Sketch
ConnsSpec == ConnsInit /\ [][ConnsNext]_connVars

-----------------------------------------------------------------------------
(* A segment is for one connection only, whichever way the connections of  *)
(* the table came into it, and whichever was forgotten for another.        *)
OneMatches ==
  \A i, j \in Slots :
    i # j /\ uip_conns[i].st # "CLOSED" /\ uip_conns[j].st # "CLOSED"
      => <<uip_conns[i].lport, uip_conns[i].remote>> # <<uip_conns[j].lport, uip_conns[j].remote>>

(* User data that say they are connected serve exactly one connection,     *)
(* which goes on; none are lost, and no connection takes over those of the *)
(* one that had its place in the table before.                             *)
Serves(i, k) == uip_conns[i].appstate = k
DataServeOne ==
  /\ \A i \in Slots : uip_conns[i].st \in {"CLOSED", "SYN_SENT", "SYN_RCVD", "TIME_WAIT"} => Serves(i, None)
  /\ \A k \in Slots :
       IF all_data[k].state \in {"connected", "close"}
         THEN \E i \in Slots : Serves(i, k) /\ \A j \in Slots : Serves(j, k) => j = i
         ELSE \A i \in Slots : ~Serves(i, k)

(* Not so when there are several connections: what RF24Server::available() *)
(* offers came in on the server's port.  The state holds the index of the  *)
(* user data, and is used as that of the connection (RF24Client.cpp:1468,  *)
(* RF24Server.cpp:76).                                                     *)
OffersOwn ==
  \A port \in ServerPorts : \A k \in Offered(port), i \in Slots :
    Serves(i, k) => uip_conns[i].lport = port

(* Not so even with one connection: a client object that had a connection  *)
(* does not get another one.  Data are freed while the object still points *)
(* to them, and serve whoever comes next.                                  *)
ClientKeeps ==
  [][client # None /\ client' = client /\ all_data[client].state = "free"
       => all_data'[client].state = "free"]_connVars
=============================================================================
