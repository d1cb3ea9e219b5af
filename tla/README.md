# RF24Ethernet in TLA+

RF24Ethernet carries TCP/IP over nRF24L01 radios.  IP packets travel as
`EXTERNAL_DATA_TYPE` payloads of RF24Network, addressed with RF24Mesh; on top
of that the library offers the Arduino `Client`/`Server`/`UDP` classes three
times over: on uIP (`USE_LWIP < 1`), on lwIP (`== 1`) and on Zephyr's sockets
(`== 2`).  This directory holds TLA+ models of it, the TLC runs that check
them, and proofs for TLAPS.

Run `tlc -config X.cfg M` for a run of the table below, `tlapm M.tla` for
a module with proofs.  `PROJECT.json` lists runs, theorems, the lines every
definition translates, and for every checked property a mutated definition
that breaks it (the operators named `<definition>_<bug>` in the modules).

## Inventory

| Component | State | Operations | Interacts with | Modelled in |
| --- | --- | --- | --- | --- |
| lwIP frame path (`RF24Ethernet.cpp`) | RXQueue, TXQueue, core lock | `tick`, `netif_output`, `writeRXQueue`, `readRXQueue`, `sendQueuedFrame` | lwIP calls `netif_output` from any thread that holds the lock; `tick` drains without it | `FrameQueues`, `BoundedFifo` |
| lwIP client and server (`RF24Client.cpp`, `RF24Server.cpp`) | `myPcb`, `activeState`, `gState[2]`, `incomingData[2]`/`dataSize[2]` | `connect stop write read flush`, `Ethernet.listen`, callbacks `accept on_connected srecv/recv sent error serverTimeouts closed_port` | the sketch's calls loop over `update()`, inside which lwIP runs the callbacks | `LwipTcp` |
| uIP stack (`utility/uip.c`) | `uip_conns[]`, `uip_listenports[]`, `lastport`; `uip_buf`, `uip_len`, `uip_flags` | `uip_input`, `uip_periodic`, `uip_connect`, `uip_listen`, checksums, 32-bit sums | calls `serialip_appcall`; reply left in `uip_buf` | `UipTcp`, `Conns`, `Sums`, `MeshNet` |
| uIP client and server | `all_data[]` (flags, `in_pos`, `out_pos`, `dataCnt`, `myData` shared by both directions) | `connect stop write read flush available`, `serialip_appcall`, `_allocateData` | polled by the stack, shares the window flag of the connection | `UipTcp`, `Conns` |
| UDP (`RF24Udp.cpp`) | in and out buffers and positions, remote address, sockets | `begin beginPacket write endPacket parsePacket read peek flush stop` | uIP's `uipudp_appcall` and its table, lwIP's `receiveUdp`, Zephyr's sockets | `UipUdp`, `LwipUdp`, `ZephyrUdp` |
| DNS client (`Dns.cpp`) | request id, server, its own `RF24UDP` | `getHostByName`, `inet_aton`, `BuildRequest`, `ProcessResponse` | a UDP socket in the table the sketch's sockets are in | `Dns` over `UipUdp` |
| Mesh routing and the uIP `tick` (`RF24Ethernet.cpp`, `uiptimer.c`) | `uip_buf`, `uip_len`, `periodic_timer` | `tick`, `sendFrameToRadio`, `network_send`, `sendFrame`, `rf24_vsend` | RF24Mesh's `getAddress`, which runs the radio | `MeshNet` |
| Zephyr client and server | `_socket`, `serverSocket`, `connectionActive`, `timeoutTimer` | `begin available connect connected read write stop` | Zephyr's sockets | `ZephyrTcp` |
| Configuration (`RF24EthernetClass`) | addresses of object, stack and mesh; channel | `setMac setChannel begin set_gateway`, getters | all three stacks, RF24Mesh | `Setup` |
| ARP cache (`uip_arp.c`, TAP builds) | table of (IP, MAC, time), 8-bit clock | `uip_arp_timer uip_arp_update uip_arp_ipin uip_arp_arpin uip_arp_out` | the TAP branch of `tick` | `Arp`, `AddressCache` |
| Forwarding and splitting (`uip-fw.c`, `uip-split.c`) | forwarding cache, registered links | `uip_fw_register uip_fw_default uip_fw_output uip_fw_forward uip_fw_periodic`, `uip_split_output` | links | `Forward` |
| SLIP (`slipdev.c`, the SLIP gateway sketch) | `slip_buf`, `len`, `lastc` | `slipdev_send slipdev_poll`, the gateway's `loop` | a serial line | `Slip` |
| Neighbour table, protosockets (`uip-neighbor.c`, `psock.c`) | entries with their age; the buffer and the read position | `uip_neighbor_add update lookup periodic`; `psock_readto readbuf` | - | `Neighbor`, `Psock` |

What is hard about it: callbacks that run inside almost every call of the
sketch and change which connection is current; one or two connection states
that connections use in turn while older ones are still closing; lock-free
queues between threads; one buffer (`uip_buf`) that the radio fills and the
stack sends from, and one (`myData`) that TCP in both directions, UDP and DNS
share; windows that are closed and reopened through flags; retransmission out
of a shared buffer; descriptors and table entries that outlive the object that
holds their number; timers and clocks that wrap.  `PROJECT.json` lists these,
each at its line, as "hazards".

## Modules

`Lwip` in a name is a build with `USE_LWIP == 1`, `Uip` with 0, `Zephyr` with
2.  Modules named `MC...` compose modules for TLC and give their constants.

### FrameQueues (modelled, proved)

The lwIP branch of `tick()` and `netif_output`.  `nRead`, `nWrite`, `txData`
are `TXQueue`; `rxRead`, `rxWrite`, `rxData` are `RXQueue`; `inCore` is the
set of threads inside lwIP (the core lock admits one); `loopPc` is the place
of the loop thread in `tick()`; `output` the `netif_output` calls in progress.
The copy into a slot is two steps (`OutputBegin` leaves the slot `Torn`,
`OutputCopied` completes it) and the increment of `nWrite` a third
(`OutputPublish`), so every interleaving with `sendQueuedFrame`
(`SendBegin`, `SendRadio`, `SendEnd`) is there.  The 32-bit counters are counters modulo
`MaxTxQueue * TxWraps`; that the queue length divides the range is
`QueueAssumption`, and the code's 2 divides 2^32.  Returns that change nothing
(`ERR_IF`, `ERR_MEM`) are no steps.  The branch of `readRXQueue` for a frame
longer than `MAX_FRAME_SIZE` is unreachable, `writeRXQueue` clamps the length.

`BoundedFifo` is what either ring promises: items go in while there is room
and come out in the same order, each once.  `FrameQueues` implements it twice
(`Tx`, `Rx`): the queue is read off the ring, less the frame the radio
already has.

### LwipTcp (modelled, proved)

The `USE_LWIP == 1` branches of `RF24Client` and `RF24Server`.  `s` is
everything callbacks act on: `myPcb`, `active` (`activeState`), `slot`
(`gState[i]` with its `incomingData[i]` as the sequence of units in it) and `pcb`, what lwIP knows of each
connection.  Callbacks are operators from a state to the set of results, as
`tcp_close` may fail; `user` is the call of the sketch in progress.  `millis()`
appears as the ages `quiet` (since `serverTimer`) and `since` (since
`connectTimestamp`), capped at one above `Timeout`.  lwIP is external: what
its `tcp_close`, `tcp_abort`, polls and errors do is modelled as the code
relies on it: a closed pcb stays until the other side has acknowledged
(`CLOSING`), keeps its callbacks, is still polled and can still be reset
(`Lingers`); a backlog of one keeps others out while one connection is
delayed; refused data come again, and when the FIN came with them (`LastData`) the connection
is in CLOSE_WAIT while lwIP keeps both.  `ListenCalled` adds `Ethernet.listen()`, which
puts a listening pcb into `myPcb`, whatever was there, and gives the accept callback the
address of `gState[0]` for its value.  `struck` is a history variable: a callback on a closed
connection has changed what is kept of another, open one (`myPcb`, its connected flag, its buffer).

### UipTcp, Conns (modelled, proved in part)

`uip_process()`, `serialip_appcall()` and the calls of `RF24Client` and
`RF24Server` in the uIP build, over one connection (`UIP_CONF_MAX_CONNECTIONS`
is 1).  `conn` is `uip_conns[0]` (`st` and `stopped` are `tcpstateflags`,
`snd`/`rcv`/`len`/`nrtx`/`mss` as in the code, `app` whether `appstate` is set,
`server` whether `lport` is the server's), `u` is `all_data[0]`, `user` the sketch with its
`RF24Client` and the call in progress.  One `tick()` handles one segment
(`TickInput`) or the connection's timer (`TickPeriodic`); it is atomic, and
calls that wait (`connect`, `_write`) have ticks between their steps.  Inside a
tick, operators take and return a record of what `uip_process` works on
(`Machine`), one operator per label or per state of its `switch`.

Peers and network are external.  A peer is a TCP that keeps to the protocol: it sends
within the window, repeats what is not acknowledged (from the first unit, any
length), takes only what comes next, may close or reset; `toUip`, `toPeer` are
sets of segments, so their order is lost, and `Lossy` lets them be lost and
repeated as well.

Abstractions: timers (retransmission, TIME_WAIT, `connectTimeout`, `restartInterval`,
the five seconds of `_write`) may run out whenever the code looks at them, with
`Expires` and `GivesUp` where that is optional; data are units; the initial sequence
number moves on between connections (the code adds one per timer call); MSS option, urgent data, checksums and RTT estimation are
left out; what `uip_process` leaves in `uip_buf` is sent by the tick that
called it.  `Windows` is what peers advertise.  `uip_userdata_closed_t` overlays `uip_userdata_t` as in the
code: saving the port sets `packets_out` and `windowOpened` to its bytes.
`MCUip` lets the initial state choose between three environments: more in than the buffer
holds, more out, and segments out of order.

`Conns` takes the view `UipTcp` does not: any number of connections and
listening ports, and only what decides which connection a segment is for
(`uip_input`'s two loops, `uip_connect` with its wrapping `lastport`) and which
`uip_userdata_t` serves which connection or client object.  What a connection
carries is abstracted to whether there are unread data.

### UipUdp, LwipUdp, ZephyrUdp; Dns (modelled, proved but for the answers of Dns)

One module per build of `RF24UDP`, as they share nothing but the class: in
`UipUdp` all objects write to and read from one array, `myData`, whose contents
are numbered so that it shows whose they are; in `LwipUdp` all objects are one
static pcb with one buffer each way; in `ZephyrUdp` an object has two descriptors
of a table Zephyr gives out again and again.  A call of the sketch is a step
together with the `tick()` it begins with.  `MCUdp` runs the three next to each
other.  `Dns` extends `UipUdp` with `DNSClient` and its two callers: a lookup
opens a socket next to the sketch's, its request and the answer go through
`myData`, and ids, retries, return codes (`uint16_t`, made an `int` of 16 or 32 bits)
and `ProcessResponse`'s way through a message are the code's.  A message is a row of
parts, not of bytes, and may end after any of `Cuts` of them; a lookup that is given one whose
question's name has no end is `"endless"` (`Hangs`).

### MeshNet (modelled, proved)

A master and a child, each with one of the three builds: `UipTick` is the uIP
branch of `tick()`, with its timer, what `uip_process` does for an echo request and
a connection's timer, and the routing of `network_send`; `OtherTick` and `OtherSend` are the other
two builds' `sendFrame`/`sendFrameToRadio` and `rf24_vsend` (their queues are
`FrameQueues`).  Requests are counted, other traffic is not: with any tick there may be a frame
that nobody takes (`Chatter`), for ever; `quiet` is a history variable that changes when a
waiting node's tick found no frame.  A lookup (`Found`) may fail, and while it waits the radio may put another
frame into the buffer that holds the one to send (`Arriving`).  Whether `char` has a
sign is chosen at first, as it decides what `sendFrameToRadio` compares.

### ZephyrTcp (modelled, proved)

`RF24Client` and `RF24Server` over `_socket`, the one static descriptor that the
server's connections and the sketch's own share, with Zephyr's descriptor table
(external: lowest free number first) and the time limit of the server.  `begin()` may be called
again, with or without success; the socket that listened before stays open with nobody to accept on it.

### Setup, Arp, AddressCache, Forward, Neighbor (proved); Slip, Psock, Sums (model-checked)

Parts that have nothing to do with each other; `MCParts` puts them into one
run, whose initial state chooses the part.  `Setup` is the configuration calls in any
order; `Arp` the ARP table with its 8-bit clock, which implements `AddressCache`,
a function from addresses to what was heard of them last, which may forget - for addresses of
which both 16-bit halves are not zero (those outside `Halves`, see below); `Forward` two
routers in a loop of two links, with their forwarding caches; `Slip` a serial line that loses
bytes, with the gateway sketch at its end; `Neighbor` the neighbour table; `Psock` the reading
half of a protosocket; `Sums` checksums and sequence numbers in octets of any base.

## Runs

A dozen, one per question; `udp_second` is expected to find its property violated.

| Run | Asks | Bounds |
| --- | --- | --- |
| `frames` | both rings are FIFOs; no slot is written while sent; queued frames get out, received ones in | 2 slots each as in the code, counters modulo 4, 2 ordinary frames, a short and a long one, tcpip thread on |
| `lwip` | until a callback on a closed connection changes what is kept of an open one: one current connection; the flag of the active state is up while it is open; buffers hold exactly the unread data.  Always: they never overflow | 2 connections in or out, 3 units each, buffers of 2, timeouts, lingering, no `Ethernet.listen()` |
| `lwip_lingers` | `myPcb` never outlives its connection | 3 inbound connections, lingering, timeouts out of reach |
| `lwip_live` | delayed connections and refused data do not wait for ever, but for a delayed one in CLOSE_WAIT | 2 inbound connections, 2 units each, buffers of 1, timeouts, `Ethernet.listen()`, no lingering |
| `uip` | peers get what was written, the sketch reads what was sent, nothing written is dropped, the window reopens | 1 peer, buffer of 2, loss and repetition; 3 units in and 2 out, 1 in and 3 out, or 1 in and 2 out with 2 segments to the stack at a time in any order |
| `uip_ends` | user data are never lost, however a connection ends | 1 peer, 1 unit each way, 2 connections, everything else allowed |
| `udp` | a sketch reads the packet it was given, what it wrote is sent, sockets are not lost, in each of the three builds | 2 objects, 2 remote ends, 2 packets each way; buffers of 2 with packets of 1 to 3, in the uIP build of none or 2 units with 1 unit in a frame as long as an ARP packet; 2 uIP sockets, 3 descriptors |
| `udp_second` | the same of the second packet in the uIP build | as `udp` |
| `dns` | the address found is right unless the message was cut, the socket comes back, every lookup ends that is given no question's name without an end | 2 lookups, 3 requests, 2 sockets next to a sketch that uses one; names that are numbers, nearly, or not; answers of every kind, one of them cut after 2, 3 or 7 parts |
| `mesh` | frames go where they belong, a request is answered once and by the right node, a segment leaves the stack if ticks without a frame come again and again | 2 nodes of any build, 1 request of 28, 36 or 284 octets in frames of 20, 28 or 284, any number of frames nobody takes, 1 segment, a clock modulo 2 with an interval of 1 |
| `parts` | see `MCParts`: tables, caches, checksums, lines | 2 connections, 2 cache entries for 3 addresses, one with a zero half, clocks modulo 4, octets of base 3, 2 packets, 3 segments |
| `zephyr` | no open connection is out of reach, sockets that listen stay open, who waits at the server's is served | 2 connections in, 1 out, 5 descriptors, `begin()` again after success (once) or failure |

Two slots per ring are the code's own constants; two rounds of the counters
show the wrap.  Connection states are two, so two connections in the same
state need three in a row without, and two with, `connect()`; data units and buffer of 2 and 3 let a
buffer fill, refuse and drain.  `Timeout = 1` lets a connection be heard
before its time is up, and `0` is enough where only the expiry matters.
In `udp` a packet that is too long, one that fits exactly and one read in parts
are all there, and two objects are enough for one to use what the other left.
The table of two sockets makes a lookup compete with the sketch for the last one.
Clocks modulo 4 with limits of 2 let an age be on either side of the wrap; two
entries and three addresses make a table evict; two links and two routers are
the smallest loop.  Carries need octets of two values at least; base 3 has words
whose complement is neither octet's.

Where a property needs an environment that is kinder than the one the code
meets, the run says so, and what happens otherwise is the list below:

* `lwip` and `lwip_lingers` leave out `Ethernet.listen()`; `lwip_lingers` has the timeouts out of reach
  (`setTimeout`), and `lwip_live` has lwIP forget a connection as soon as it is closed.  Three properties of `lwip` hold until
  a callback on a closed connection strikes an open one, and say nothing afterwards.
* `uip` assumes that peer and sketch take turns (`TurnTaking`: each has all the
  other wrote before it writes), as request and reply do and as
  `waitAvailable()` suggests, that peers offer a full window, that a write waits as
  long as it takes, and that nobody calls `flush()`.  `uip_ends` assumes none of this.
* `zephyr` has descriptors start above 0, as 0 is what `_socket` begins with.

### What the code does otherwise

`udp_second`: `RF24UDP::read()` in the uIP build adds to `in_pos`, which only `stop()`
sets back, so the second packet is read from where the first ended.
`ReadsFirst`, part of the run `udp`, is what does hold: a packet is read as it came, when nothing of an
earlier one had been read or left.

These definitions have no run of their own: each says what a document or a comment
promises, and TLC refutes it as soon as the kinder environment is dropped or the property is listed.

* `LwipTcp!BusyStaysOpen`: a connection that was delayed keeps `closed_port` as its
  poll callback, which measures from its promotion: it is closed after
  `serverConnectionTimeout` whatever it sends (line 414).
* `LwipTcp!TimerSparesOthers` (with `Lingers`, as lwIP has it): `serverTimeouts` sets `myPcb = nullptr` and
  `dataSize[activeState] = 0` for a pcb in LAST_ACK, while another connection is
  current.  `error_callback` (177) does the same to the connection that uses the
  state now, and `closed_port` (427) closes the current connection without clearing `myPcb`.
  `OneCurrent`, `ConnectedIsTrue` and `BufferHoldsStream` hold until one of these happens, and end with it.
* `LwipTcp!OneCurrent`, `ConnectedIsTrue` and `BufferHoldsStream` with `ListenCalled`: `Ethernet.listen()`
  (`RF24Ethernet.cpp:555`) listens without the backlog of one, so that of three connections two
  that wait share a connection state; and it puts its listening pcb over the current connection in
  `myPcb` (544).
* `LwipTcp!ConnectIsOwn`: `connect()` returns true for an inbound connection
  accepted while its own was refused.
* `UipTcp!NothingLost` without `TurnTaking`: `serialip_appcall` (1310) forgets written data when
  new data come in, whether they wait or are in flight.  With smaller `Windows` the
  peer gets only the beginning of a buffer; with `GivesUp` a write that gives up after five
  seconds (1132) clears `hold` under data in flight, and the next one is lost.
* `UipTcp!WindowReopens` with `Flushes`: after `flush()` nobody opens the window again.
* `Conns!OffersOwn`: with several connections the index of the user data is taken for that of the
  connection, and a server offers what did not come in on its port.  `Conns!ClientKeeps`, with one too: data are freed under a
  client object, which then has those of whoever comes next.
* `Arp!IsCache` for the addresses of `Halves`: `uip_arp_update` takes an entry with one zero 16-bit half of its address for a
  free one when it looks for the address (`uip_arp.c:166`), although its comment (160-165) has it updated; the
  address is entered twice, and `uip_arp_out` finds whichever comes first, which may be the older.
* `Dns!HostResult` (`RF24Udp.h:119`): `beginPacket(host)` also returns negative codes, as large positive ones.
* `ZephyrTcp!SparesBusy` (`RF24Server.h:49`): the time limit is not moved by what is
  written, and ends the sketch's own connections too.
* `Forward!DropsDuplicates` (`uip-fw.c:424`): the cache's key lacks the offset, so the second half of a split segment
  counts as known.

Four more are stated as the exception of a property:

* `Dns!LookupEnds`: an answer that ends before its question's name does never comes out of the loop at
  `Dns.cpp:318-331`, as `read()` leaves `len` as `while(len--)` made it, 255; a message cut later gives whatever address is in the
  buffer (`Cut` in `LookupIsHonest`).
* `MeshNet!ConnServed`: `tick()` looks at its timer only when no frame came (`RF24Ethernet.cpp:715`), so that a frame
  with every tick keeps a connection waiting for ever.  A segment also counts as sent when
  `network_send` drops it after a failed lookup (888), and waits for its retransmission.
* `LwipTcp!DelayedResolved`, `RefusedArrives`: a delayed connection whose last data came with the FIN and were refused is in
  CLOSE_WAIT, which `closed_port` neither promotes (394) nor closes (416): it keeps the backlog for good (`Stuck`).
* `ZephyrTcp!Served`: `begin()` again puts its new socket over `serverSocket` (`RF24Server.cpp:203`): the old one is not closed and those
  who connect to it are not accepted; after a `begin()` that fails there is no socket to accept on.

The models hold more of the kind, where no document says otherwise: `_write` (1196) closes
whatever connection is current when its own is gone; `accept` (476) puts unread
data of a closed connection out of reach; frames of exactly 28 bytes are dropped by lwIP's `tick`
and taken by uIP's; `uip_len` is not reset by `network_send`, so a node's own frame is looked
at once more; a frame heard during a lookup replaces the one to send; a truncated frame of 256
octets or more passes the length test (`uip.c:857`), and any truncated frame may be answered while
`uip_len` is that of another one; `peek()` after an empty datagram shows what was in the array
(`RF24Udp.cpp:543`); a packet in a frame as long as an ARP packet is sent again with what was
written since; `begin(0)` leaves the uIP entry looking unused (`UdpAssumption` excludes port 0); a
broadcast on its last hop is handed up with every copy, as it is not put into the cache (`uip-fw.c:456`); an ARP entry heard late
in the clock's range never expires; an entry `uip_neighbor_add` compares with the
link address is kept twice.  The properties state exactly these exceptions, and no others.

## Fairness

* `frames`: the sketch calls `tick()` over and over (strong fairness of its
  first step, which any client call may precede); the lock is handed over
  eventually and lwIP code ends; a `pbuf` can be had now and then.
* `lwip_live`: time passes, lwIP polls and retries refused data (with their FIN, if it came) from its timers,
  the sketch's calls return (their timeouts ensure it, and what a call writes is finite), and between them it
  reads again and again (strong fairness: a sketch that only writes is not
  assumed to stop writing).  Nothing is assumed of the peer.
* `dns`: the calls in `getHostByName` return and `millis()` goes on.  No answer is assumed.
* `mesh`: the clock goes on.  That `tick()` finds no frame again and again while a connection waits is
  the premise of `ConnServed` and not assumed of the network; that the timer, cleared and set among other traffic, then still comes to the
  connection is what is shown.
* `parts`: a link hands over what is on it, some of it at least (`Receive`).
* `zephyr`: the clock goes on, the sketch calls `available()` more often than the
  time limit (strong fairness of accepting), reads what there is, and `connect()` ends.

`UipTcp` has safety properties only, and no fairness.

## Proofs

Eight modules hold the proofs; each theorem is about every value of the constants that the
named assumptions of its model allow, and about every behaviour of the specification the runs
check on small instances.

| Module | Theorems | Inductive invariant |
| --- | --- | --- |
| `FrameQueuesProofs` | `TypeCorrect`, `RingSafe`, `TxRaceFree`, `TxRefines`, `RxRefines` | `RingInv`; `FifoInv`, `RxInv` for the refinements |
| `LwipTcpProofs` | `LwipTypeCorrect`, `OneCurrentHolds`, `ConnectedHolds`, `StreamHolds`, `HandleHolds` | `TypeInv`; `OneInv` for the next three; `HandleInv` |
| `UipTcpProofs` | `UipTypeCorrect`, `AttachedHolds` | `UipInv` |
| `UdpProofs` | `UdpReads`, `UdpSends`, `UdpKeeps` | `UipInv`, `LwipInv`, `ZephyrInv` |
| `DnsProofs` | `LookupGivesBack` | `DnsInv` |
| `MeshNetProofs` | `MeshTypeCorrect`, `FramesRouted`, `RequestsAnswered` | `MeshInv`, with `Timely` for the first |
| `ZephyrTcpProofs` | `ZephyrTypeCorrect`, `NothingIsLost`, `ServerIsKept` | `ZephyrInv` |
| `PartsProofs` | `GettersAgree`, `ArpTypeCorrect`, `ArpAgesOut`, `ArpRefines`, `ConnsHold`, `TablesAge`, `HeardOnceHolds` | `SetupInv`, `ArpInv`, `ConnInv`, `NeighborInv`, `FwInv` |

`FrameQueues`: `SlotsDisjoint` is not inductive.  `RingInv` adds that a writer holds the
lock, its slot is `nWrite % MaxTxQueue` and the ring is not full; the reader's slot is
`nRead % MaxTxQueue` and the ring is not empty.  Then the two counters differ by
less than the length and by more than nothing, so their slots differ
(`SlotsDiffer`), and each step moves one counter by one modulo a multiple of
the length.  For `TxRefines` and `RxRefines` a step of the ring is put, a take or
a stutter of `BoundedFifo`: the items between the counters are the queue, and moving a
counter appends its slot or drops the first.

`LwipTcp`: a callback is an operator from states to sets of states, so the proofs go from call to
call within a step.  `Wired` (in `TypeInv`) says what lwIP may still call back for; `Alone` that whatever is open and not
current is one delayed connection, with the other connection state and `closed_port` for its poll; `Told` that the connected
flag of the active state is the current connection's; `Kept` that the buffer of a connection's state is what it has received and the sketch has
not read, and holds nothing of one that uses the other.  These three are only inductive together: a
connection can be promoted only because it is alone and has its buffer to itself.  With lingering connections they are an
invariant only up to the first callback that strikes, so `OneInv` is the types and `~struck => One(s)`: a
step in which none strikes (`Spared`) keeps the three, as what the callback of a closed connection then changes
belongs to no open one (`SparedOne`).  `OneCurrentHolds`, `ConnectedHolds` and
`StreamHolds` assume `~ListenCalled` and nothing of lwIP's closed connections, `HandleHolds` assumes `~ClockRuns /\ ~ListenCalled`:
the environments of the runs, outside which they are false (above).  `LwipTypeCorrect` assumes neither.

`UipTcp`: `Attached` says that user data in use have an open connection or somebody who will
free them.  `UipInv` adds to the types who that is (`Held`: while the connection has them the peer's close is not
noted, and afterwards unread data or a client object are there), that only open connections have
user data and only those are stopped (`Open`: `Become` clears the stopped bit, and data are refused
only through `appstate`), and what a call that waits relies on (`Waits`: `connect()` has left the old client and is not
in LAST_ACK; `_write` has a peer).  Every step of `uip_process` is one of a few kinds (`Ready`,
`Stepped`, `Gone`): the application was told the connection is gone before its state changes, or the state is one that
keeps user data.

`UdpProofs`: one invariant per build.  For uIP it says, for every object apart, what of `myData` is
its datagram or its packet as long as nobody else has put anything there, and that table and
objects point at each other; the others' steps move only what they own.

`DnsProofs`: no call of the sketch or of a lookup takes the lookup's entry in the table away or
gives it one, but for its own `begin()` and `stop()`, and every way out goes through `stop()`.

`MeshNet`: that a request is answered once needs where its copies are (`Copies`: in the air, or answered and waiting, or
neither any more, but never two), that only of a request heard during a lookup does a uIP node see more than once
(`Sound`), and that every answer made is the right one (`Right`).

`ZephyrTcp`: `_socket` and the descriptor `connect()` waits for are open connections, and never the same
(`Tracked`), so that no socket that listens, the server's or one `begin()` left behind, is closed as one of them.

`PartsProofs`: `Setup` - after a `begin()` that went through, the members, the stack's interface and the mesh are as asked
(`AsAsked`).  `Arp` - no two entries for an address outside `Halves`, and times within the clock's range; the refinement, of
what is found for those, takes every call to an update, or to forgetting what was replaced or aged out.  `Conns` - a connection that is not established has no user data
(`BareHaveNone`), the one a `connect()` waits for is still its own (`Awaited`), and the search for a local port ends on one
nobody has, as there are more ports than connections (`PortIsFree`).  `Neighbor` - entries heard of in a period are no more than the calls that made
them.  `Forward` - what a router passed on and did not forget is in its cache.

Assumptions on constants are the named `ASSUME`s of the modules (`QueueAssumption`, `LwipAssumption`,
`UipAssumption`, `UdpAssumption`, `DnsAssumption`, `MeshAssumption`, `ZephyrAssumption`, and for the parts
`PartsAssumption`, `ArpAssumption`, `ConnsAssumption`, `NeighborAssumption`):
that sizes are numbers, limits fit their clocks, and names are told apart.

### What is model-checked only

* All liveness: it needs fairness and ENABLED, which the prover does not have.
* `UipTcp!PeerGetsWritten`, `SketchReadsSent`, `NothingLost`, `WindowReopens`: they hold between
  peers that take turns, and their invariant would be about every segment under way and how it
  relates to both ends' counts; `UipInv` is what of it concerns this library's own state.
* `Dns!LookupIsHonest` and `MCParts!DamageIsLocal`, `LinesAreWhole`, `SumIsRight`: they are about folds over rows of
  octets, characters or answers, and induction over data is out of the prover's reach.

## Plan

1. `UipTcp` with an invariant over the segments under way, from which `WindowReopens` and
   then the two streams would follow.
2. `UipTcp` liveness: a lost window announcement is repeated, closing ends, written data arrive.
3. Several connections with data: `Conns` over `UipTcp`'s connections.

## Not modelled

* The TAP build's `tick()`: it does not compile in this tree (`RF24_TAP` needs a link
  header, and the object has no `mesh` then), so `Arp` stands alone.
* Reassembly, IPv6 and UDP checksums of uIP: configured off.  Urgent data, the MSS option and
  the round-trip estimate: they change no property stated here.
* The sending half of `psock.c`: its wait conditions are commented out in this copy, with
  what would send, so `psock_send` of anything is a loop without an end.  `uiplib.c`, `lc.h`, `pt.h` otherwise: not used.
* `clientTimeouts` and `closeConn` (never registered) and `sendUdp` (never called).
* `RF24UDP::peek()` in the Zephyr build has no `return`; `ZephyrUdp` leaves it out.
* Data races: the lwIP receive callback in the middle of `read()`'s copy on
  platforms with a tcpip thread, and Zephyr's transmit thread at the radio next to the receiving one.
* Debug output, examples (but the SLIP gateway), documentation.  RF24, RF24Network,
  RF24Mesh, lwIP and Zephyr are not in the repository and appear as the code uses them.
