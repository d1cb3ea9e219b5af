------------------------------- MODULE Setup --------------------------------
(***************************************************************************)
(* How RF24EthernetClass is set up: setMac(), setChannel(), begin() and    *)
(* set_gateway() with any of the three stacks, and what localIP() and its  *)
(* like say then.  An IP address is a net and a host.                      *)
(***************************************************************************)
EXTENDS FiniteSets, Naturals

CONSTANTS
  Nets, HostNumbers, Masks, DnsServers,
  MaxAddrs,  \* NET_IF_MAX_IPV4_ADDR of Zephyr
  Channels   \* with 0, which stands for none

VARIABLES
  stack,           \* "uip", "lwip" or "zephyr": USE_LWIP 0, 1, 2
  ifAddrs,         \* the stack's addresses, each with its netmask: one for uIP and lwIP
  ifGateway,
  ifUp, iface,     \* Zephyr's interface is up; it exists
  ethLocalIP, dnsServerAddress, isInitialized, node,
  RF24_Channel, multicastRelay, radioChannel,
  asked,           \* history: what the last begin() and set_gateway() said
  whole            \* history: the last begin() went through

setupVars == <<stack, ifAddrs, ifGateway, ifUp, iface, ethLocalIP, dnsServerAddress, isInitialized,
               node, RF24_Channel, multicastRelay, radioChannel, asked, whole>>
addressVars == <<stack, ifAddrs, ifGateway, ifUp, iface, ethLocalIP, dnsServerAddress,
                 isInitialized, node, asked, whole>>
channelVars == <<RF24_Channel, multicastRelay, radioChannel>>

SketchIps == [net : Nets, host : HostNumbers]
NoIp == [net |-> 0, host |-> 0]
NoMask == "0.0.0.0"
DefaultMask == "255.255.255.0"
DefaultDns == "8.8.8.8"
DefaultChannel == 97

\* RF24EthernetClass(); Zephyr's driver has set its interface up, or tried to.
SetupInit ==
  /\ stack \in {"uip", "lwip", "zephyr"} /\ ifAddrs = {} /\ ifGateway = NoIp
  /\ ifUp \in IF stack = "zephyr" THEN BOOLEAN ELSE {FALSE}
  /\ iface \in IF stack = "zephyr" THEN BOOLEAN ELSE {FALSE}
  /\ ethLocalIP = NoIp /\ dnsServerAddress = "none" /\ isInitialized = FALSE /\ node = 0
  /\ RF24_Channel = 0 /\ multicastRelay \in BOOLEAN /\ radioChannel = 0
  /\ asked = [ip |-> NoIp, dns |-> "none", gateway |-> NoIp, mask |-> NoMask] /\ whole = FALSE

-----------------------------------------------------------------------------
\* net_if_ipv4_addr_add(), whose result nobody looks at
AddrAdd(addrs, ip) ==
  IF (\E a \in addrs : a.ip = ip) \/ Cardinality(addrs) = MaxAddrs THEN addrs
  ELSE addrs \cup {[ip |-> ip, mask |-> NoMask]}
\* net_if_ipv4_set_netmask_by_addr()
SetNetmask(addrs, ip, mask) == {IF a.ip = ip THEN [a EXCEPT !.mask = mask] ELSE a : a \in addrs}

\* A mutant of ZephyrAddrs: the netmask first.
ZephyrAddrs_MaskFirst(c) == AddrAdd(SetNetmask(ifAddrs, c.ip, c.mask), c.ip)
ZephyrAddrs(c) == SetNetmask(AddrAdd(ifAddrs, c.ip), c.ip, c.mask)

\* The node's ID on the mesh comes first, whatever becomes of the rest.
configure(c) ==
  /\ node' = c.ip.host
  /\ \/ /\ stack # "zephyr"
        /\ ifAddrs' = {[ip |-> c.ip, mask |-> c.mask]} /\ ifGateway' = c.gateway /\ ifUp' = TRUE
        /\ dnsServerAddress' = c.dns /\ asked' = c /\ whole' = TRUE
        /\ UNCHANGED <<ethLocalIP, isInitialized>>
     \/ /\ stack = "zephyr" /\ ~iface /\ whole' = FALSE
        /\ UNCHANGED <<ifAddrs, ifGateway, ifUp, ethLocalIP, dnsServerAddress, isInitialized, asked>>
     \/ /\ stack = "zephyr" /\ iface
        /\ ifAddrs' = ZephyrAddrs(c) /\ ifGateway' = c.gateway
        /\ \/ ~ifUp /\ whole' = FALSE
              /\ UNCHANGED <<ifUp, ethLocalIP, dnsServerAddress, isInitialized, asked>>
           \/ /\ ifUp' = TRUE /\ ethLocalIP' = c.ip /\ dnsServerAddress' = c.dns
              /\ isInitialized' = TRUE /\ asked' = c /\ whole' = TRUE
  /\ UNCHANGED <<stack, iface>>

\* What begin() is given, with one to four arguments
Overloads(ip, dns, gateway, mask) ==
  LET four  == [ip |-> ip, dns |-> dns, gateway |-> gateway, mask |-> mask]
      three == [four EXCEPT !.mask = DefaultMask]
      two   == [three EXCEPT !.gateway = [ip EXCEPT !.host = 1]]
      one   == [two EXCEPT !.dns = DefaultDns]
  IN  {one, two, three, four}

Begins ==
  UNION {Overloads(ip, dns, gateway, mask) :
           ip \in SketchIps, dns \in DnsServers, gateway \in SketchIps, mask \in Masks}

\* lwIP's netif_add() takes an interface once only.
begin ==
  /\ stack = "lwip" => ~whole
  /\ \E c \in Begins : configure(c)
  /\ UNCHANGED channelVars

set_gateway ==
  /\ stack = "zephyr" => iface
  /\ \E gwIP \in SketchIps : ifGateway' = gwIP /\ asked' = [asked EXCEPT !.gateway = gwIP]
  /\ UNCHANGED <<stack, ifAddrs, ifUp, iface, ethLocalIP, dnsServerAddress, isInitialized, node, whole>>
  /\ UNCHANGED channelVars

\* network.begin() sets the radio's channel.
setMac ==
  /\ RF24_Channel' = IF RF24_Channel = 0 THEN DefaultChannel ELSE RF24_Channel
  /\ radioChannel' = RF24_Channel'
  /\ UNCHANGED <<addressVars, multicastRelay>>

setChannel ==
  /\ \E channel \in Channels :
       RF24_Channel' = channel /\ radioChannel' = IF multicastRelay THEN channel ELSE radioChannel
  /\ UNCHANGED <<addressVars, multicastRelay>>

SetupNext == begin \/ set_gateway \/ setMac \/ setChannel
SetupSpec == SetupInit /\ [][SetupNext]_setupVars

-----------------------------------------------------------------------------
\* lwIP and uIP have one address.
Only == CHOOSE a \in ifAddrs : TRUE

localIP ==
  IF stack = "zephyr" THEN ethLocalIP ELSE IF ifUp THEN Only.ip ELSE NoIp
subnetMask ==
  IF stack # "zephyr" THEN IF ifUp THEN Only.mask ELSE NoMask
  ELSE IF \E a \in ifAddrs : a.ip = localIP THEN (CHOOSE a \in ifAddrs : a.ip = localIP).mask
  ELSE NoMask
gatewayIP ==
  IF (stack = "lwip" /\ ~ifUp) \/ (stack = "zephyr" /\ ~iface) THEN NoIp ELSE ifGateway

(* After a begin() that went through, however many went before and however *)
(* far they got, the getters say what the sketch asked for, the mesh knows *)
(* the node by its address, and the stack has the address and its netmask  *)
(* - with Zephyr, while its table of addresses has room.  A radio that has *)
(* started is on the channel that was set.                                 *)
SetupAgrees ==
  /\ whole =>
       /\ localIP = asked.ip /\ gatewayIP = asked.gateway /\ dnsServerAddress = asked.dns
       /\ node = asked.ip.host
       /\ \/ subnetMask = asked.mask
          \/ stack = "zephyr" /\ Cardinality(ifAddrs) = MaxAddrs /\ \A a \in ifAddrs : a.ip # asked.ip
  /\ multicastRelay => radioChannel = RF24_Channel
=============================================================================
