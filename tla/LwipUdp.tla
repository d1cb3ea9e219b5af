------------------------------ MODULE LwipUdp -------------------------------
(***************************************************************************)
(* UDP in the lwIP build: RF24UDP of RF24Udp.cpp where USE_LWIP is 1.      *)
(*                                                                         *)
(* The protocol control block and both buffers are static members: all     *)
(* objects of the sketch are one socket.  A datagram replaces what the     *)
(* input buffer held; a packet is put together behind whatever the output  *)
(* buffer still holds.                                                     *)
(***************************************************************************)
EXTENDS Integers, Sequences, FiniteSets, SequencesExt

CONSTANTS
  Objects,      \* the sketch's RF24UDP objects
  Peers,        \* remote ends, each an address and a port
  Ports,        \* the local ports the sketch listens on
  BufSize,      \* sizeof(udpDataIn) = sizeof(udpDataOut)
  Sizes,        \* of the datagrams that come, in units
  MaxIn,        \* datagrams that come in all
  MaxOut,       \* packets the sketch begins in all
  MaxAll        \* the two together

VARIABLES
  udpPcb,       \* the protocol control block
  inb,          \* udpDataIn up to dataInPos
  outb,         \* udpDataOut up to dataOutPos
  cur,          \* history: the last datagram taken in, and what was read of it
  out,          \* history: the packet each object is writing
  unsent,       \* history: something has been written since the last packet was sent
  ins, outs

vars == <<udpPcb, inb, outb, cur, out, unsent, ins, outs>>

Anyone == 0
Smaller(a, b) == IF a < b THEN a ELSE b
Units(k, n) == [i \in 1 .. n |-> <<"in", k, i>>]   \* of the k-th datagram
Unwritten == [to |-> Anyone, data |-> << >>, alone |-> FALSE]

Init ==
  /\ udpPcb = [exists |-> FALSE, port |-> 0, remote |-> Anyone, recv |-> FALSE]
  /\ inb = << >> /\ outb = << >>
  /\ cur = [from |-> Anyone, data |-> << >>, read |-> 0]
  /\ out = [o \in Objects |-> Unwritten]
  /\ unsent = FALSE
  /\ ins = 0 /\ outs = 0

-----------------------------------------------------------------------------
\* lwIP's udp_input() finds the block by port and, once it is connected, by remote end, and
\* calls receiveUdp() - when _send() has registered it.  receiveUdp() clamps the datagram.
Hears(d) == /\ udpPcb.exists /\ udpPcb.recv /\ udpPcb.port = d.port
            /\ (udpPcb.remote = Anyone \/ udpPcb.remote = d.from)

Datagrams ==
  IF ins = MaxIn \/ ins + outs >= MaxAll THEN {}
  ELSE {[from |-> p, port |-> udpPcb.port, data |-> Units(ins + 1, n)] :
          p \in Peers, n \in Sizes}

Receive(d) ==
  LET data == SubSeq(d.data, 1, Smaller(Len(d.data), BufSize)) IN
  /\ ins' = ins + 1
  /\ IF Hears(d)
     THEN inb' = data /\ cur' = [from |-> d.from, data |-> data, read |-> 0]
     ELSE UNCHANGED <<inb, cur>>

\* tick(): parsePacket() and available() run it; it may find a datagram in the RX queue
Tick == (\E d \in Datagrams : Receive(d)) /\ UNCHANGED <<udpPcb, outb, out, unsent, outs>>

\* udp_bind() binds the one block anew
Begin(o, port) ==
  /\ udpPcb' = [udpPcb EXCEPT !.exists = TRUE, !.port = port]
  /\ UNCHANGED <<inb, outb, cur, out, unsent, ins, outs>>

\* stop() only disconnects: the block stays bound, the buffers keep what they hold
Stop(o) ==
  /\ udpPcb.exists
  /\ udpPcb' = [udpPcb EXCEPT !.remote = Anyone]
  /\ UNCHANGED <<inb, outb, cur, out, unsent, ins, outs>>

\* udp_connect(); nothing is taken out of the output buffer
BeginPacket(o, p) ==
  /\ outs < MaxOut /\ ins + outs < MaxAll /\ outs' = outs + 1
  /\ IF udpPcb.exists
     THEN /\ udpPcb' = [udpPcb EXCEPT !.remote = p]
          /\ out' = [x \in Objects |->
                      IF x = o THEN [to |-> p, data |-> << >>, alone |-> ~unsent]
                      ELSE [out[x] EXCEPT !.to = p]]
     ELSE UNCHANGED <<udpPcb, out>>
  /\ UNCHANGED <<inb, outb, cur, unsent, ins>>

\* The sketch does not write more than udpDataOut holds.
Write(o, data) ==
  /\ Len(outb) + Len(data) <= BufSize
  /\ outb' = outb \o data
  /\ out' = [x \in Objects |-> IF x = o THEN [out[x] EXCEPT !.data = @ \o data]
                               ELSE [out[x] EXCEPT !.alone = FALSE]]
  /\ unsent' = TRUE
  /\ UNCHANGED <<udpPcb, inb, cur, ins, outs>>

\* A mutant of Send: dataOutPos is not set back.
Send_KeepsBuffer(o) ==
  /\ udpPcb' = [udpPcb EXCEPT !.recv = TRUE]
  /\ unsent' = FALSE /\ out' = [x \in Objects |-> Unwritten]
  /\ UNCHANGED <<inb, outb, cur, ins, outs>>

\* _send(): the callback is registered, a pbuf sent to the remote end of the block, and update()
\* may take a datagram in.  Without memory for a pbuf the packet stays in the buffer,
Send(o) ==
  /\ udpPcb' = [udpPcb EXCEPT !.recv = TRUE]
  /\ \/ UNCHANGED <<inb, outb, cur, out, unsent, ins>>
     \/ /\ outb' = << >> /\ unsent' = FALSE
        /\ out' = [x \in Objects |-> Unwritten]
        /\ (\E d \in Datagrams : Receive(d)) \/ UNCHANGED <<inb, cur, ins>>
  /\ UNCHANGED outs

\* and endPacket() returns 1 all the same.
EndPacket(o) == udpPcb.exists /\ outb # << >> /\ Send(o)

\* read() gives n units or, when there are fewer, none
Read(o, n) ==
  /\ Len(inb) >= n
  /\ inb' = SubSeq(inb, n + 1, Len(inb))
  /\ cur' = [cur EXCEPT !.read = @ + n]
  /\ UNCHANGED <<udpPcb, outb, out, unsent, ins, outs>>

\* remoteIP() and remotePort(), of all objects: who the block sends to
RemoteIP == udpPcb.remote

\* flush() reads until a byte is not positive, or none is left
Flush(o) == \E n \in 1 .. Len(inb) : Read(o, n)

Next ==
  \/ Tick
  \/ \E o \in Objects, port \in Ports : Begin(o, port)
  \/ \E o \in Objects : Stop(o)
  \/ \E o \in Objects, p \in Peers : BeginPacket(o, p)
  \/ \E o \in Objects : Write(o, << <<"out", outs, Len(outb) + 1>> >>)
  \/ \E o \in Objects : EndPacket(o)
  \/ \E o \in Objects, n \in 1 .. BufSize : Read(o, n)
  \/ \E o \in Objects : Flush(o)

Spec == Init /\ [][Next]_vars

-----------------------------------------------------------------------------
\* The state keeps its type; only a control block that exists has a callback.
TypeOK ==
  /\ udpPcb \in [exists : BOOLEAN, port : Ports \cup {0}, remote : Peers \cup {Anyone}, recv : BOOLEAN]
  /\ Len(inb) <= BufSize /\ Len(outb) <= BufSize
  /\ udpPcb.recv => udpPcb.exists

\* receiveUdp() and read() (RF24Udp.cpp:657, :509): what is left in the input buffer is the end
\* of one datagram, the last one taken in, whichever objects read the rest of it.
ReadsCurrent == inb = SubSeq(cur.data, cur.read + 1, Len(cur.data))

\* What _send() (RF24Udp.cpp:733) would send is what the object wrote since beginPacket(), to the
\* remote end it named - unless beginPacket() found an unsent packet in the buffer, another
\* object wrote to it, or stop() disconnected the block.
SendsWritten ==
  \A o \in Objects :
    out[o].alone => outb = out[o].data /\ RemoteIP \in {out[o].to, Anyone}
=============================================================================
