---------------------------- MODULE AddressCache ----------------------------
(***************************************************************************)
(* What a cache of link addresses promises: for an IP address it knows the *)
(* link address heard last, or none.  It may forget at any time.           *)
(***************************************************************************)
CONSTANTS Ips, Macs, NoMac

VARIABLES last,  \* the address heard of last, with its link address
          known  \* what a lookup gives

Init == last = [ip |-> NoMac, mac |-> NoMac] /\ known = [ip \in Ips |-> NoMac]

\* Hearing of one address may drop others from the cache.
Hear == \E ip \in Ips, mac \in Macs, gone \in SUBSET Ips :
          /\ last' = [ip |-> ip, mac |-> mac]
          /\ known' = [i \in Ips |-> IF i = ip THEN mac ELSE IF i \in gone THEN NoMac ELSE known[i]]

Forget == \E gone \in SUBSET Ips :
            /\ known' = [i \in Ips |-> IF i \in gone THEN NoMac ELSE known[i]]
            /\ UNCHANGED last

Spec == Init /\ [][Hear \/ Forget]_<<last, known>>
=============================================================================
