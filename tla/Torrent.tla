------------------------------ MODULE Torrent ------------------------------
(***************************************************************************)
(* One torrent of the tracker under its mutex lock_: announces that the    *)
(* servers forward, and the cleanup thread that sweeps timed-out peers.    *)
(*                                                                         *)
(* Announce runs as one step, it holds lock_ (and the writer side of       *)
(* TorrentDb::torrents_lock_) from its first line to its last.  A sweep    *)
(* holds lock_ too, so no announce starts before it ends; it removes one   *)
(* peer per step because the pages and the scrape read a torrent without   *)
(* lock_ and see the state between two removals (module TorrentDb).        *)
(***************************************************************************)
EXTENDS TorrentTypes

CONSTANTS
  Questions,   \* the requests whose responses are looked at in every state
  MaxTime      \* bound of the clock

ASSUME InputsAssumption ==
  /\ \A req \in Questions : IsRequest(req)
  /\ MaxTime \in Nat

VARIABLES
  torrent,     \* the value of the Torrent object
  now,         \* the coarse monotonic clock, in minutes
  sweep        \* the time Torrent::cleanup runs with, or Idle

vars == <<torrent, now, sweep>>

Idle == -1

-----------------------------------------------------------------------------
Init ==
  /\ torrent = NewTorrent
  /\ now = 0
  /\ sweep = Idle

(* TorrentDb::announce forwards a request.                                 *)
HandleAnnounce(req) ==
  /\ sweep = Idle
  /\ torrent' = Announce(torrent, req, now)
  /\ UNCHANGED <<now, sweep>>

(* Torrent::cleanup takes lock_ and reads the clock.                       *)
CleanupBegin ==
  /\ sweep = Idle
  /\ sweep' = now
  /\ UNCHANGED <<torrent, now>>

(* One round of its loop: the front peer has timed out.                    *)
CleanupRemove ==
  /\ sweep # Idle
  /\ FrontExpired(torrent, sweep)
  /\ torrent' = RemovePeer(torrent, Head(torrent.timeouts))
  /\ UNCHANGED <<now, sweep>>

(* The list is empty or its front is still alive: cleanup returns.         *)
CleanupEnd ==
  /\ sweep # Idle
  /\ ~ FrontExpired(torrent, sweep)
  /\ sweep' = Idle
  /\ UNCHANGED <<torrent, now>>

Cleanup == CleanupBegin \/ CleanupRemove \/ CleanupEnd

Tick ==
  /\ now < MaxTime
  /\ now' = now + 1
  /\ UNCHANGED <<torrent, sweep>>

Next == \/ \E req \in Requests : HandleAnnounce(req)
        \/ Cleanup
        \/ Tick

Spec == Init /\ [][Next]_vars

(* TorrentDb::cleanupLoop calls cleanup() again and again from a thread of *)
(* its own.  Nothing makes a client announce.                              *)
FairSpec == Spec /\ WF_vars(Cleanup)

-----------------------------------------------------------------------------
TypeOK ==
  /\ IsTorrent(torrent)
  /\ FromRequests(torrent)
  /\ now \in Nat
  /\ sweep \in Nat \cup {Idle}

(* The list timeouts_ and the trie peers_ hold the same peers, each of     *)
(* them once, and a peer is found under the key of the address it now has: *)
(* Torrent::createOrUpdatePeer overwrites addr_ of a peer that is in the   *)
(* trie, and Torrent::removePeer erases it by the key of that address.     *)
ListIndexAgree == Indexed(torrent)

(* The counters of the scrape and of every announce response are the       *)
(* numbers of leechers and seeders in the index, across updates that turn  *)
(* one into the other (or back), evictions and sweeps.  In particular they *)
(* never wrap: the code's assert(seeders_ >= 0) holds of any uint32_t.     *)
CountersAgree == Counted(torrent)

(* torrent.hh: "this is a timeout sorted list of peers".  Both the sweep,  *)
(* which stops at the first peer that is alive, and the eviction, which    *)
(* takes the front, rely on it.                                            *)
SortedByTimeout == Sorted(torrent)

(* Between two announces a torrent has at most MAX_PEERS peers, although   *)
(* the check in Torrent::announce removes a single one, and adds counters  *)
(* that could wrap.                                                        *)
BoundedPeers == Cardinality(DOMAIN torrent.peers) <= MAX_PEERS

(* The peers that Torrent::announce returns to a request, whatever state   *)
(* it finds: none twice, never the requester itself (also when its address *)
(* is AF_UNSPEC and operator== fails), no IPv6 peer to an IPv4 client, and *)
(* as many as wanted of those that qualify, the most recent ones first.    *)
Qualified(t, req) ==
  {k \in DOMAIN t.peers \ {Key(req.addr)} :
     /\ t.peers[k].peerid # req.peerid
     /\ t.peers[k].addr.family = AF_INET6
          => req.addr.family # AF_INET /\ ~ req.skip_ipv6}

ReplyIsMostRecent ==
  \A req \in Questions :
    req.event # "stopped" /\ sweep = Idle =>
      LET t     == CreateOrUpdatePeer(torrent, req, now)
          reply == AnnounceResponse(torrent, req, now).addrs
          given == {Key(reply[i]) : i \in DOMAIN reply}
      IN  /\ IsInjective(reply)
          /\ given \subseteq Qualified(t, req)
          /\ Len(reply) <= MAX_NUMWANT
          /\ \A k \in Qualified(t, req) \ given :
               /\ Len(reply) >= MIN_NUMWANT
               /\ Len(reply) >= ToInt(req.num_want) \/ Len(reply) = MAX_NUMWANT
               /\ \A x \in given : t.peers[k].timeout_ts <= t.peers[x].timeout_ts

(* When Torrent::cleanup returns, no peer that had timed out when it read  *)
(* the clock is left, although it stops at the first peer that is alive.   *)
SweepIsComplete ==
  [][sweep # Idle /\ sweep' = Idle
       => \A k \in DOMAIN torrent'.peers : torrent'.peers[k].timeout_ts > sweep]_vars

(* A torrent implements the table of peers of module Swarm: the list order *)
(* makes every eviction hit a peer that announced longest ago, and nobody  *)
(* else leaves before its time; completed_ counts each completion of a     *)
(* registered leecher once.                                                *)
Abstract == INSTANCE Swarm WITH swarm    <- torrent.peers,
                                done     <- torrent.completed,
                                time     <- now,
                                CountMax <- UINT_MAX

ImplementsSwarm == Abstract!Spec

(* A peer that stops announcing is removed once its timeout has passed,    *)
(* unless it announces again (which moves the timeout).                    *)
ExpiredIsReaped ==
  \A k \in Keys :
    (k \in DOMAIN torrent.peers /\ torrent.peers[k].timeout_ts <= now)
      ~> (k \notin DOMAIN torrent.peers \/ torrent.peers[k].timeout_ts > now)

============================================================================
