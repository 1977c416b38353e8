------------------------------ MODULE Address ------------------------------
(***************************************************************************)
(* Internet addresses of peers: struct Address of hefur/address.hh.        *)
(*                                                                         *)
(* An address is a record [family, ip, port].  The ip is an opaque value,  *)
(* except where socket addresses are converted: there it is a pair of a    *)
(* kind and a host.                                                        *)
(***************************************************************************)

AF_UNSPEC == "AF_UNSPEC"
AF_INET   == "AF_INET"
AF_INET6  == "AF_INET6"

Families == {AF_UNSPEC, AF_INET, AF_INET6}

(***************************************************************************)
(* Address::key(), the trie index of a peer: the 6 bytes of ip and port    *)
(* for IPv4, and the 18 bytes of the IPv6 member of the union for every    *)
(* other family, AF_UNSPEC included.  The family itself is not in the key, *)
(* the length tells the two apart.                                         *)
(***************************************************************************)
Key(a) == [len  |-> IF a.family = AF_INET THEN 6 ELSE 18,
           ip   |-> a.ip,
           port |-> a.port]

(* Address::operator==: an AF_UNSPEC address equals none, not even itself. *)
SameAddress(a, b) ==
  /\ a.family = b.family
  /\ a.family \in {AF_INET, AF_INET6}
  /\ a.ip = b.ip
  /\ a.port = b.port

-----------------------------------------------------------------------------
(* Address::operator= from a sockaddr: an IPv6 address with an IPv4        *)
(* address mapped into it becomes that IPv4 address; of other families the *)
(* old bytes stay.                                                         *)
FromSockaddr(old, ip) ==
  CASE ip[1] = "v4"     -> [old EXCEPT !.family = AF_INET, !.ip = ip]
    [] ip[1] = "mapped" -> [old EXCEPT !.family = AF_INET, !.ip = <<"v4", ip[2]>>]
    [] ip[1] = "v6"     -> [old EXCEPT !.family = AF_INET6, !.ip = ip]
    [] OTHER            -> [old EXCEPT !.family = AF_UNSPEC]

(* Slip: the port of an IPv6 address is not set.                           *)
setPort_OnlyV4(a, port) == IF a.family = AF_INET THEN [a EXCEPT !.port = port] ELSE a

(* Address::setPort, which leaves an AF_UNSPEC address as it is.           *)
setPort(a, port) == IF a.family \in {AF_INET, AF_INET6} THEN [a EXCEPT !.port = port] ELSE a

============================================================================
