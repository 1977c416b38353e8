----------------------------- MODULE MCTorrent -----------------------------
(* Small instances of Torrent for TLC.                                     *)
EXTENDS Torrent

(* Two peers behind one IPv4 address, an IPv6 peer, and the address of a   *)
(* request whose ip parameter was not understood, which holds what was in  *)
(* memory: here the bytes of the IPv6 peer, so that their keys collide.    *)
MCAddresses == {[family |-> AF_INET,   ip |-> 1, port |-> 1],
                [family |-> AF_INET,   ip |-> 1, port |-> 2],
                [family |-> AF_INET6,  ip |-> 3, port |-> 1],
                [family |-> AF_UNSPEC, ip |-> 3, port |-> 1]}

Request(Addrs, Ids, Evs, Wants, Skips) ==
  [addr : Addrs, peerid : Ids, left : {0, 1}, event : Evs, num_want : Wants,
   skip_ipv6 : Skips]

(* A peer has one id.  The state of a torrent depends on neither num_want_ *)
(* nor skip_ipv6_, and treats "started" like an announce without event.    *)
StateRequests ==
  {req \in Request(MCAddresses, {1, 2}, {"none", "completed", "stopped"}, {1}, {FALSE}) :
     req.peerid = req.addr.port}

(* Requests that differ in what they are answered, of known peers and of a *)
(* new one, under the id they have or under another.  3 is INT_MAX + 1,    *)
(* which std::clamp<int> takes for a negative number.                      *)
ReplyRequests ==
  Request(MCAddresses \cup {[family |-> AF_INET, ip |-> 2, port |-> 1]}, {1, 2}, {"none"},
          {0, 1, 2, 3}, BOOLEAN)

(* The Filter of module Lists is SelectSeq, here on short sequences.       *)
ASSUME FilterIsSelectSeq ==
  \A s \in BoundedSeq(1..3, 4), T \in SUBSET (1..3) :
    Filter(s, LAMBDA x : x \in T) = SelectSeq(s, LAMBDA x : x \in T)
============================================================================
