----------------------------- MODULE MCFrontEnd -----------------------------
(* Instances of FrontEnd for TLC.                                          *)
EXTENDS FrontEnd

(* An IPv4 client and two that have IPv6, and a proxy.                     *)
MCHome == [c \in {"a", "b", "c"} |-> IF c = "a" THEN <<"v4", c>> ELSE <<"v6", c>>]
MCPort == [c \in {"a", "b", "c"} |-> CASE c = "a" -> 7 [] c = "b" -> 8 [] OTHER -> 9]
MCGate == <<"v4", "proxy">>

(* The proxy is unknown, known, or anybody is one; or peers may name their *)
(* address.                                                                *)
MCOptions == [ALLOW_PROXY : {FALSE}, REVERSE_PROXY_FROM : {Absent, MCGate, Anywhere}]
               \cup [ALLOW_PROXY : {TRUE}, REVERSE_PROXY_FROM : {Absent}]

KnownProxy == [ALLOW_PROXY : {FALSE}, REVERSE_PROXY_FROM : {MCGate}]

(* The bytes of a peer, without its port.                                  *)
MCGarbage == [family : {AF_UNSPEC}, ip : {<<"v6", "c">>}, port : {0}]

V1 == [type |-> "SHA1", id |-> "one"]
V2 == [type |-> "SHA256", id |-> "two"]
MCHashes == {V1, V2}

Asked(id, len) == [id |-> id, len |-> len]

(* One announce, and others that each differ from it in one thing: the     *)
(* form of the answer, ports that are the same in 16 bits, numbers of peers*)
(* on both sides of the limits, an ip that is an address or a name, a stop,*)
(* a hash that is too short or not tracked.                                *)
Plain == [info_hash |-> Asked("one", 20), port |-> MCPort, numwant |-> Absent,
          event |-> "none", ip |-> Absent, compact |-> TRUE]

PlainQueries == {Plain}

MCQueries ==
  {Plain, [Plain EXCEPT !.compact = FALSE], [Plain EXCEPT !.event = "stopped"],
   [Plain EXCEPT !.port = [c \in DOMAIN MCPort |-> MCPort[c] + 65536]]}
    \cup {[Plain EXCEPT !.numwant = <<n>>] : n \in {-1, 3}}
    \cup {[Plain EXCEPT !.ip = <<kind, "a">>] : kind \in {"v4", "name"}}
    \cup {[Plain EXCEPT !.info_hash = b] : b \in {Asked("one", 19), Asked("three", 20)}}

(* Hashes as the links have them, and a piece of one.                      *)
MCStrings == {Asked("one", 20), Asked("two", 32), Asked("one", 19)}
=============================================================================
