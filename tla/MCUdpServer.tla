---------------------------- MODULE MCUdpServer ----------------------------
(* Instances of UdpServer for TLC.                                         *)
EXTENDS UdpServer

(* Two hosts.                                                              *)
A == [family |-> "AF_INET", ip |-> <<10, 0, 0, 7>>, port |-> 1]
B == [family |-> "AF_INET", ip |-> <<10, 0, 0, 9>>, port |-> 1]

TwoClients == {A, B}

OneClient == {A}

(* Under the first secret both have the same id.                           *)
TwoSecrets == {<<3, 200, 5, 0, 17>>, <<250, 9, 1, 77, 130>>}

(* The id that is good while the first secret is among the three.          *)
MCIds == {ConnectionIds[CHOOSE s \in TwoSecrets : s[1] = 3][A]}

OneHash == {"h1"}

(* The torrent of the hash is tracked.                                     *)
MCTracked == {[id |-> "h1", len |-> 20]}
============================================================================
