----------------------------- MODULE TorrentOps -----------------------------
(***************************************************************************)
(* The methods of class Torrent (hefur/torrent.cc) as operators on the     *)
(* value of one torrent, a record of                                       *)
(*                                                                         *)
(*   peers      the trie peers_: a function from address keys to peers     *)
(*   timeouts   the list timeouts_: a sequence of address keys             *)
(*   leechers, seeders, completed   the 32-bit counters                    *)
(*                                                                         *)
(* A Peer object is named by the key it was inserted under.  The trie and  *)
(* the list are kept apart as they are in the code, where each method has  *)
(* to update both, and the counters as well.  What a peer has downloaded   *)
(* and uploaded is only ever displayed and is left out.                    *)
(***************************************************************************)
EXTENDS Address, Lists, Integers, Sequences, FiniteSets, SequencesExt

CONSTANTS
  MAX_PEERS,          \* --max-peers
  MIN_NUMWANT,        \* --min-numwant
  MAX_NUMWANT,        \* --max-numwant
  ANNOUNCE_INTERVAL,  \* --announce-interval, in minutes
  GRACE,              \* the literal 5 of Torrent::updateTimeout, in minutes
  INT_MAX             \* largest int; the counters are unsigned of that width

ASSUME OptionsAssumption ==
  /\ MAX_PEERS \in Nat
  /\ MIN_NUMWANT \in Nat
  /\ MAX_NUMWANT \in Nat
  /\ ANNOUNCE_INTERVAL \in Nat
  /\ GRACE \in Nat
  /\ INT_MAX \in Nat
  /\ MIN_NUMWANT <= MAX_NUMWANT   \* otherwise std::clamp is undefined
  /\ MAX_NUMWANT <= INT_MAX
  /\ MAX_PEERS < 2 * INT_MAX + 1  \* one peer more is still a uint32_t

(***************************************************************************)
(* uint32_t arithmetic.                                                    *)
(***************************************************************************)
UINT_MAX == 2 * INT_MAX + 1

(* Slip: a counter of unlimited width.                                     *)
Inc_Wide(n) == n + 1

Inc(n) == IF n = UINT_MAX THEN 0 ELSE n + 1
Dec(n) == IF n = 0 THEN UINT_MAX ELSE n - 1
Add(m, n) == IF m + n > UINT_MAX THEN m + n - UINT_MAX - 1 ELSE m + n

(* The conversion of a uint32_t to int.                                    *)
ToInt(n) == IF n > INT_MAX THEN n - UINT_MAX - 1 ELSE n

-----------------------------------------------------------------------------
Events == {"none", "started", "completed", "stopped"}

Timeout == ANNOUNCE_INTERVAL + GRACE

(* Torrent::Torrent                                                        *)
NewTorrent == [peers     |-> [k \in {} |-> 0],
               timeouts  |-> << >>,
               leechers  |-> 0,
               seeders   |-> 0,
               completed |-> 0]

(* The branches on left_ that every method has.                            *)
Count(t, left) == IF left = 0 THEN [t EXCEPT !.seeders = Inc(@)]
                              ELSE [t EXCEPT !.leechers = Inc(@)]
Uncount(t, left) == IF left = 0 THEN [t EXCEPT !.seeders = Dec(@)]
                                ELSE [t EXCEPT !.leechers = Dec(@)]

(* Torrent::removePeer                                                     *)
RemovePeer(t, k) ==
  [Uncount(t, t.peers[k].left) EXCEPT
     !.timeouts = RemoveFirst(@, k),
     !.peers    = [x \in DOMAIN @ \ {k} |-> @[x]]]

(* Slips: a peer is not taken out of the list before it is pushed again;   *)
(* a peer stays where it is in the list.                                   *)
UpdateTimeout_NoErase(t, k, remove, now) ==
  [t EXCEPT !.peers[k].timeout_ts = now + Timeout,
            !.timeouts = Append(@, k)]

UpdateTimeout_InPlace(t, k, remove, now) ==
  [t EXCEPT !.peers[k].timeout_ts = now + Timeout,
            !.timeouts = IF remove THEN @ ELSE Append(@, k)]

(* Torrent::updateTimeout                                                  *)
UpdateTimeout(t, k, remove, now) ==
  [t EXCEPT !.peers[k].timeout_ts = now + Timeout,
            !.timeouts = Append(IF remove THEN RemoveFirst(@, k) ELSE @, k)]

(* Slip: a peer that is updated is counted again.                          *)
CreateOrUpdatePeer_CountTwice(t, req, now) ==
  LET k      == Key(req.addr)
      update == k \in DOMAIN t.peers
      peer   == [addr       |-> req.addr,
                 left       |-> req.left,
                 peerid     |-> req.peerid,
                 timeout_ts |-> 0]
      new    == [Count(t, req.left) EXCEPT
                   !.peers = [x \in DOMAIN t.peers \cup {k} |->
                                IF x = k THEN peer ELSE t.peers[x]]]
  IN  UpdateTimeout(new, k, update, now)

(* Torrent::createOrUpdatePeer                                             *)
CreateOrUpdatePeer(t, req, now) ==
  LET k      == Key(req.addr)
      update == k \in DOMAIN t.peers
      old    == IF update THEN Uncount(t, t.peers[k].left) ELSE t
      peer   == [addr       |-> req.addr,
                 left       |-> req.left,
                 peerid     |-> req.peerid,
                 timeout_ts |-> IF update THEN t.peers[k].timeout_ts ELSE 0]
      new    == [Count(old, req.left) EXCEPT
                   !.peers = [x \in DOMAIN t.peers \cup {k} |->
                                IF x = k THEN peer ELSE t.peers[x]]]
  IN  UpdateTimeout(new, k, update, now)

-----------------------------------------------------------------------------
(* Slip: a seeder that reports completion again is counted again.          *)
Completes_Again(t, req) ==
  /\ Key(req.addr) \in DOMAIN t.peers
  /\ req.left = 0
  /\ req.event = "completed"

(* A registered leecher reports that it has everything.                    *)
Completes(t, req) ==
  /\ Key(req.addr) \in DOMAIN t.peers
  /\ t.peers[Key(req.addr)].left > 0
  /\ req.left = 0
  /\ req.event = "completed"

(* Slip: an off-by-one in the limit.                                       *)
EvictOldest_OneMore(t) ==
  IF Add(t.leechers, t.seeders) > MAX_PEERS + 1
    THEN RemovePeer(t, Head(t.timeouts))
    ELSE t

(* The size check at the end of Torrent::announce.                         *)
EvictOldest(t) ==
  IF Add(t.leechers, t.seeders) > MAX_PEERS
    THEN RemovePeer(t, Head(t.timeouts))
    ELSE t

(* Torrent::announce, the new value of the torrent.                        *)
Announce(t, req, now) ==
  LET k       == Key(req.addr)
      counted == IF Completes(t, req) THEN [t EXCEPT !.completed = Inc(@)] ELSE t
  IN  IF req.event = "stopped"
        THEN IF k \in DOMAIN t.peers THEN RemovePeer(counted, k) ELSE counted
        ELSE EvictOldest(CreateOrUpdatePeer(counted, req, now))

(* std::clamp<int>(num_want_, MIN_NUMWANT, MAX_NUMWANT)                    *)
ClampNumWant(n) == IF ToInt(n) < MIN_NUMWANT THEN MIN_NUMWANT
                   ELSE IF ToInt(n) > MAX_NUMWANT THEN MAX_NUMWANT
                   ELSE ToInt(n)

(* The peers that the loop over timeouts_ does not skip.                   *)
Eligible(req, p) ==
  /\ ~ /\ req.addr.family = AF_INET \/ req.skip_ipv6
       /\ p.addr.family = AF_INET6
  /\ p.peerid # req.peerid
  /\ ~ SameAddress(req.addr, p.addr)

(* Slip: the list is walked from the front.                                *)
PeerList_OldestFirst(t, req) ==
  LET found  == Filter(t.timeouts, LAMBDA k : Eligible(req, t.peers[k]))
      wanted == ClampNumWant(req.num_want)
      n      == IF Len(found) < wanted THEN Len(found) ELSE wanted
  IN  [i \in 1..n |-> t.peers[found[i]].addr]

(* The addresses returned: from the back of timeouts_, num_want_ at most.  *)
PeerList(t, req) ==
  LET fresh  == Filter(Reverse(t.timeouts), LAMBDA k : Eligible(req, t.peers[k]))
      wanted == ClampNumWant(req.num_want)
      n      == IF Len(fresh) < wanted THEN Len(fresh) ELSE wanted
  IN  [i \in 1..n |-> t.peers[fresh[i]].addr]

(* Torrent::announce, the response: the counters are those from before the *)
(* request, the addresses are collected before the size check.             *)
AnnounceResponse(t, req, now) ==
  [nleechers  |-> t.leechers,
   nseeders   |-> t.seeders,
   ncompleted |-> t.completed,
   addrs      |-> IF req.event = "stopped" THEN << >>
                  ELSE PeerList(CreateOrUpdatePeer(t, req, now), req)]

(* Slip: a peer whose time is up this very moment stays.                   *)
FrontExpired_Strict(t, now) ==
  /\ t.timeouts # << >>
  /\ t.peers[Head(t.timeouts)].timeout_ts < now

(* The test in the loop of Torrent::cleanup: the peer at the front of      *)
(* timeouts_ has timed out.                                                *)
FrontExpired(t, now) ==
  /\ t.timeouts # << >>
  /\ t.peers[Head(t.timeouts)].timeout_ts <= now

-----------------------------------------------------------------------------
(* What the front ends put into an AnnounceRequest.                        *)
IsRequest(req) ==
  /\ req.addr.family \in Families
  /\ req.left \in Nat
  /\ req.event \in Events
  /\ req.num_want \in 0..UINT_MAX
  /\ req.skip_ipv6 \in BOOLEAN

(* What a torrent holds.                                                   *)
IsPeer(p) == p \in [addr : {p.addr}, left : Nat, peerid : {p.peerid}, timeout_ts : Nat]

IsTorrent(t) ==
  /\ t \in [peers     : {t.peers},
            timeouts  : Seq(DOMAIN t.peers),
            leechers  : 0..UINT_MAX,
            seeders   : 0..UINT_MAX,
            completed : 0..UINT_MAX]
  /\ t.peers = [k \in DOMAIN t.peers |-> t.peers[k]]
  /\ \A k \in DOMAIN t.peers : IsPeer(t.peers[k])

(* What makes the parts of a torrent fit together.                         *)

(* The list and the index hold the same peers, each under its own key.     *)
Indexed(t) ==
  /\ IsInjective(t.timeouts)
  /\ ToSet(t.timeouts) = DOMAIN t.peers
  /\ \A k \in DOMAIN t.peers : Key(t.peers[k].addr) = k

(* The counters are the numbers of peers of the two kinds.                 *)
Leechers(t) == {k \in DOMAIN t.peers : t.peers[k].left # 0}
Seeders(t)  == {k \in DOMAIN t.peers : t.peers[k].left = 0}

Counted(t) ==
  /\ t.leechers = Cardinality(Leechers(t))
  /\ t.seeders = Cardinality(Seeders(t))

(* The list is sorted by timeout.                                          *)
Sorted(t) ==
  \A i, j \in DOMAIN t.timeouts :
    i <= j => t.peers[t.timeouts[i]].timeout_ts <= t.peers[t.timeouts[j]].timeout_ts

============================================================================
