--------------------------- MODULE TorrentProofs ---------------------------
(***************************************************************************)
(* Proofs about module Torrent, for every set of requests and every value  *)
(* of the options.                                                         *)
(***************************************************************************)
EXTENDS Torrent, TorrentOpsProofs

-----------------------------------------------------------------------------
(* The invariant of the machine.  None of the properties is inductive by   *)
(* itself: the counters stay right only if the list and the index name the *)
(* same peers, the eviction terminates only if the counters are right, and *)
(* the list stays sorted only if no timeout lies beyond now + Timeout.     *)
IndInv ==
  /\ Healthy(torrent, now)
  /\ FromRequests(torrent)
  /\ now \in Nat
  /\ sweep \in Nat \cup {Idle}
  /\ sweep <= now

(* The invariant holds of an empty torrent.                                *)
LEMMA InitInv == Init => IndInv
<1> SUFFICES ASSUME Init PROVE IndInv
  OBVIOUS
<1>1. DOMAIN torrent.peers = {}
  BY DEF Init, NewTorrent
<1>2. QED
  BY <1>1, NewTorrentHealthy DEF Init, IndInv, Idle, FromRequests

(* Every step of the announces, of the cleanup thread and of the clock     *)
(* keeps the invariant.                                                    *)
LEMMA NextInv == IndInv /\ [Next]_vars => IndInv'
<1> SUFFICES ASSUME IndInv, [Next]_vars PROVE IndInv'
  OBVIOUS
<1> USE DEF IndInv
<1>1. ASSUME NEW req \in Requests, HandleAnnounce(req) PROVE IndInv'
  <2>1. torrent' = Announce(torrent, req, now) /\ now' = now /\ sweep' = sweep
    BY <1>1 DEF HandleAnnounce
  <2>2. IsRequest(req)
    BY RequestsAssumption
  <2>3. Healthy(torrent', now)
    BY <2>1, <2>2, AnnounceHealthy
  <2>4. ASSUME NEW x \in DOMAIN torrent'.peers
        PROVE  \E q \in Requests : /\ torrent'.peers[x].addr = q.addr
                                   /\ torrent'.peers[x].peerid = q.peerid
    <3>1. \/ torrent'.peers[x].addr = req.addr /\ torrent'.peers[x].peerid = req.peerid
          \/ x \in DOMAIN torrent.peers /\ torrent'.peers[x] = torrent.peers[x]
      BY <2>1, <2>2, AnnounceRegisters
    <3>2. QED
      BY <3>1 DEF FromRequests
  <2>5. FromRequests(torrent')
    BY <2>4 DEF FromRequests
  <2>6. QED
    BY <2>1, <2>3, <2>5
<1>2. CASE CleanupBegin
  BY <1>2 DEF CleanupBegin
<1>3. CASE CleanupRemove
  <2> DEFINE h == Head(torrent.timeouts)
  <2>1. h \in DOMAIN torrent.peers
    BY <1>3, FrontIsOldest DEF CleanupRemove, FrontExpired, Healthy
  <2>2. torrent' = Less(torrent, h)
    BY <1>3, <2>1 DEF CleanupRemove, Less
  <2>3. Healthy(torrent', now)
    BY <2>2, LessHealthy
  <2>4. FromRequests(torrent')
    <3>1. torrent' = RemovePeer(torrent, h) /\ IsTorrent(torrent)
      BY <1>3 DEF CleanupRemove, Healthy, Sound
    <3>2. torrent'.peers = [x \in DOMAIN torrent.peers \ {h} |-> torrent.peers[x]]
      BY <2>1, <3>1, RemovePeerFields
    <3>3. QED
      BY <3>2 DEF FromRequests
  <2>5. QED
    BY <1>3, <2>3, <2>4 DEF CleanupRemove
<1>4. CASE CleanupEnd
  BY <1>4 DEF CleanupEnd, Idle
<1>5. CASE Tick
  <2>1. now' = now + 1 /\ torrent' = torrent /\ sweep' = sweep
    BY <1>5 DEF Tick
  <2>2. Fresh(torrent, now + 1)
    <3>1. \A x \in DOMAIN torrent.peers : torrent.peers[x].timeout_ts \in Nat
      BY DEF Healthy, Sound, IsTorrent, IsPeer
    <3>2. QED
      BY <3>1, OptionTypes DEF Healthy, Fresh
  <2>3. QED
    BY <2>1, <2>2 DEF Healthy, Idle
<1>6. CASE UNCHANGED vars
  BY <1>6 DEF vars
<1>7. QED
  BY <1>1, <1>2, <1>3, <1>4, <1>5, <1>6 DEF Next, Cleanup

(* The list, the index, the counters and the clock agree in every state.   *)
LEMMA Invariance == Spec => []IndInv
<1>1. QED
  BY InitInv, NextInv, PTL DEF Spec

(* Every field keeps its type: the index holds peers under address keys,   *)
(* and the counters stay within their 32 bits.                             *)
THEOREM TypeCorrect == Spec => []TypeOK
<1>1. IndInv => TypeOK
  BY DEF IndInv, TypeOK, Healthy, Sound
<1>2. QED
  BY <1>1, Invariance, PTL

(* The list timeouts_ and the trie peers_ hold the same peers.             *)
THEOREM ListIndexCorrect == Spec => []ListIndexAgree
<1>1. IndInv => ListIndexAgree
  BY DEF IndInv, ListIndexAgree, Healthy, Sound
<1>2. QED
  BY <1>1, Invariance, PTL

(* leechers_ and seeders_ count the peers of the index, and never wrap.    *)
THEOREM CountersCorrect == Spec => []CountersAgree
<1>1. IndInv => CountersAgree
  BY DEF IndInv, CountersAgree, Healthy, Sound
<1>2. QED
  BY <1>1, Invariance, PTL

(* The list is sorted by timeout, the front times out first.               *)
THEOREM SortedCorrect == Spec => []SortedByTimeout
<1>1. IndInv => SortedByTimeout
  BY DEF IndInv, SortedByTimeout, Healthy, Sound
<1>2. QED
  BY <1>1, Invariance, PTL

(* One eviction per announce keeps a torrent within --max-peers.           *)
THEOREM BoundCorrect == Spec => []BoundedPeers
<1>1. IndInv => BoundedPeers
  BY DEF IndInv, BoundedPeers, Healthy
<1>2. QED
  BY <1>1, Invariance, PTL

(* Torrent::cleanup leaves no peer that had timed out when it started.     *)
THEOREM SweepCorrect == Spec => SweepIsComplete
<1>1. IndInv /\ [Next]_vars
        => [sweep # Idle /\ sweep' = Idle
              => \A k \in DOMAIN torrent'.peers : torrent'.peers[k].timeout_ts > sweep]_vars
  <2> SUFFICES ASSUME IndInv, Next, sweep # Idle, sweep' = Idle,
                      NEW k \in DOMAIN torrent'.peers
               PROVE  torrent'.peers[k].timeout_ts > sweep
    BY DEF vars
  <2>1. CleanupEnd
    BY DEF Next, Cleanup, HandleAnnounce, CleanupBegin, CleanupRemove, Tick
  <2>2. torrent' = torrent /\ sweep \in Nat /\ ~ FrontExpired(torrent, sweep)
    BY <2>1 DEF CleanupEnd, IndInv
  <2>3. Sound(torrent) /\ torrent.peers[k].timeout_ts \in Nat
    BY <2>2 DEF IndInv, Healthy, Sound, IsTorrent, IsPeer
  <2>4. torrent.timeouts # << >>
    <3>1. ToSet(<< >>) = {}
      BY DEF ToSet
    <3>2. QED
      BY <2>2, <2>3, <3>1 DEF Sound, Indexed
  <2>5. /\ Head(torrent.timeouts) \in DOMAIN torrent.peers
        /\ torrent.peers[Head(torrent.timeouts)].timeout_ts <= torrent.peers[k].timeout_ts
    BY <2>2, <2>3, <2>4, FrontIsOldest
  <2>6. torrent.peers[Head(torrent.timeouts)].timeout_ts \in Nat
    BY <2>3, <2>5 DEF Sound, IsTorrent, IsPeer
  <2>7. QED
    BY <2>2, <2>3, <2>4, <2>5, <2>6 DEF FrontExpired
<1>2. QED
  BY <1>1, Invariance, PTL DEF Spec, SweepIsComplete

(* The peers that the loop of Torrent::announce keeps are those that may   *)
(* be named: the requester has just been registered under its own id, and  *)
(* operator== finds nobody that its key does not.                          *)
LEMMA EligibleQualifies ==
  ASSUME NEW t, Indexed(t), NEW req, IsRequest(req), NEW k \in DOMAIN t.peers,
         Key(req.addr) \in DOMAIN t.peers, t.peers[Key(req.addr)].peerid = req.peerid
  PROVE  k \in Qualified(t, req) <=> Eligible(req, t.peers[k])
<1> DEFINE p == t.peers[k]
<1>1. Key(p.addr) = k
  BY DEF Indexed
<1>2. SameAddress(req.addr, p.addr) => k = Key(req.addr)
  BY <1>1 DEF SameAddress, Key
<1>3. k = Key(req.addr) => ~ Eligible(req, p)
  BY DEF Eligible
<1>4. AF_INET # AF_INET6
  BY DEF AF_INET, AF_INET6
<1>5. QED
  BY <1>2, <1>3, <1>4 DEF Qualified, Eligible, IsRequest

(* Torrent::announce names the most recent of the peers that qualify, each *)
(* once and as many as are wanted, never the requester itself, whatever    *)
(* num_want_ is taken for by std::clamp<int>.                              *)
THEOREM ReplyCorrect == Spec => []ReplyIsMostRecent
<1>1. IndInv => ReplyIsMostRecent
  <2> SUFFICES ASSUME IndInv, NEW req \in Questions, req.event # "stopped"
               PROVE  LET t     == CreateOrUpdatePeer(torrent, req, now)
                          reply == AnnounceResponse(torrent, req, now).addrs
                          given == {Key(reply[i]) : i \in DOMAIN reply}
                      IN  /\ IsInjective(reply)
                          /\ given \subseteq Qualified(t, req)
                          /\ Len(reply) <= MAX_NUMWANT
                          /\ \A k \in Qualified(t, req) \ given :
                               /\ Len(reply) >= MIN_NUMWANT
                               /\ \/ Len(reply) >= ToInt(req.num_want)
                                  \/ Len(reply) = MAX_NUMWANT
                               /\ \A x \in given : t.peers[k].timeout_ts <= t.peers[x].timeout_ts
    BY DEF ReplyIsMostRecent
  <2> DEFINE t     == CreateOrUpdatePeer(torrent, req, now)
             k0    == Key(req.addr)
             u     == Less(torrent, k0)
             reply == AnnounceResponse(torrent, req, now).addrs
             given == {Key(reply[i]) : i \in DOMAIN reply}
             w     == ClampNumWant(req.num_want)
  <2>1. IsRequest(req) /\ Healthy(torrent, now) /\ IsTorrent(torrent) /\ now \in Nat
    BY InputsAssumption DEF IndInv, Healthy, Sound
  <2>2. Sound(t)
    BY <2>1, CreateOrUpdatePeerSound
  <2>3. Inserted(t, u, k0, req, now)
    BY <2>1, UpdateIsReinsert
  <2>4. reply = PeerList(t, req)
    BY DEF AnnounceResponse
  <2> HIDE DEF t, k0, u, reply
  <2>5. k0 \in DOMAIN t.peers /\ t.peers[k0].peerid = req.peerid
    BY <2>3 DEF Inserted, PeerOf
  <2>6. PICK n, f : Names(f, n, t, req) /\ reply = [i \in 1..n |-> t.peers[f[i]].addr]
    BY <2>1, <2>2, <2>4, PeerListNames
  <2>7. Indexed(t) /\ \A k \in DOMAIN t.peers : Key(t.peers[k].addr) = k
    BY <2>2 DEF Sound, Indexed
  <2>8. \A k \in DOMAIN t.peers : k \in Qualified(t, req) <=> Eligible(req, t.peers[k])
    BY <2>1, <2>5, <2>7, EligibleQualifies DEF k0
  <2>9. Qualified(t, req) \subseteq DOMAIN t.peers
    BY DEF Qualified
  <2>10. /\ n \in Nat /\ DOMAIN reply = 1..n /\ Len(reply) = n /\ n <= w
         /\ \A i \in 1..n : f[i] \in DOMAIN t.peers /\ reply[i] = t.peers[f[i]].addr
    BY <2>6 DEF Names
  <2>11. \A i \in 1..n : Key(reply[i]) = f[i]
    BY <2>7, <2>10
  <2>12. IsInjective(reply)
    BY <2>6, <2>10, <2>11 DEF IsInjective, Names
  <2>13. given \subseteq Qualified(t, req)
    BY <2>6, <2>8, <2>10, <2>11 DEF Names
  <2>14. /\ w \in Nat /\ MIN_NUMWANT <= w /\ w <= MAX_NUMWANT
         /\ w >= ToInt(req.num_want) \/ w = MAX_NUMWANT
    BY <2>1, ClampBounds
  <2>15. Len(reply) <= MAX_NUMWANT
    BY <2>10, <2>14, OptionsAssumption
  <2>16. ASSUME NEW k \in Qualified(t, req) \ given
         PROVE  /\ Len(reply) >= MIN_NUMWANT
                /\ Len(reply) >= ToInt(req.num_want) \/ Len(reply) = MAX_NUMWANT
                /\ \A x \in given : t.peers[k].timeout_ts <= t.peers[x].timeout_ts
    <3>1. k \in DOMAIN t.peers /\ Eligible(req, t.peers[k])
      BY <2>8, <2>9
    <3>2. \A i \in 1..n : f[i] # k
      BY <2>10, <2>11
    <3>3. n = w /\ \A i \in 1..n : t.peers[k].timeout_ts <= t.peers[f[i]].timeout_ts
      BY <2>6, <3>1, <3>2 DEF Names
    <3>4. QED
      BY <2>10, <2>11, <2>14, <3>3, OptionsAssumption
  <2>17. QED
    BY <2>12, <2>13, <2>15, <2>16 DEF t, reply
<1>2. QED
  BY <1>1, Invariance, PTL

-----------------------------------------------------------------------------
(* The refinement.                                                         *)

(* The abstract table names a peer as the torrent does.                    *)
LEMMA SameKey == \A a : Abstract!Key(a) = Key(a)
BY DEF Abstract!Key, Key, Abstract!AF_INET, AF_INET

(* The abstract table counts a set as the torrent does.                    *)
LEMMA SameCardinality == \A S : Abstract!Cardinality(S) = Cardinality(S)
BY DEF Abstract!Cardinality, Cardinality, Abstract!IsFiniteSet, IsFiniteSet

(* An empty torrent is an empty table.                                     *)
LEMMA InitRefines == Init => Abstract!Init
BY DEF Init, Abstract!Init, NewTorrent

(* What the torrent calls the table of peers, the abstract table does.     *)
LEMMA SameTable ==
  /\ \A f, k : Abstract!Without(f, k) = Dropped(f, k)
  /\ \A f, req : Abstract!With(f, req) = Entered(f, req, now)
BY SameKey DEF Abstract!Without, Dropped, Abstract!With, Entered, PeerOf

(* Torrent::announce is an arrival at the table or a departure from it.    *)
LEMMA AnnounceRefines ==
  ASSUME IndInv, NEW req \in Requests, HandleAnnounce(req)
  PROVE  Abstract!Next
<1>1. torrent' = Announce(torrent, req, now) /\ now' = now
  BY DEF HandleAnnounce
<1>2. TableStep(torrent, torrent', req, now)
  BY <1>1, RequestsAssumption, AnnounceIsTableStep DEF IndInv
<1>3. CASE req.event = "stopped"
  <2>1. Abstract!Depart(req)
    BY <1>1, <1>2, <1>3, SameKey, SameTable DEF TableStep, Abstract!Depart
  <2> QED
    BY <2>1 DEF Abstract!Next
<1>4. CASE req.event # "stopped"
  <2>1. Abstract!Tally(req)
    BY <1>2, <1>4, SameKey DEF TableStep, Abstract!Tally, Abstract!IsLeecher, Completes, Inc
  <2>2. Abstract!Arrive(req)
    BY <1>1, <1>2, <1>4, <2>1, SameTable, SameCardinality
    DEF TableStep, Abstract!Arrive, Abstract!Oldest
  <2> QED
    BY <2>2 DEF Abstract!Next
<1> QED
  BY <1>3, <1>4

(* Every step of the torrent is a step of the abstract table, or none.     *)
LEMMA StepRefines == IndInv /\ [Next]_vars => [Abstract!Next]_(Abstract!vars)
<1> SUFFICES ASSUME IndInv, [Next]_vars PROVE [Abstract!Next]_(Abstract!vars)
  OBVIOUS
<1>1. ASSUME NEW req \in Requests, HandleAnnounce(req) PROVE Abstract!Next
  BY <1>1, AnnounceRefines
<1>2. CASE CleanupBegin \/ CleanupEnd
  BY <1>2 DEF CleanupBegin, CleanupEnd, Abstract!vars
<1>3. CASE CleanupRemove
  <2> DEFINE h == Head(torrent.timeouts)
  <2>1. /\ h \in DOMAIN torrent.peers
        /\ torrent.peers[h].timeout_ts <= sweep
        /\ sweep \in Nat
        /\ IsTorrent(torrent)
    BY <1>3, FrontIsOldest DEF CleanupRemove, FrontExpired, IndInv, Healthy, Sound
  <2>2. torrent' = Less(torrent, h)
    BY <1>3, <2>1 DEF CleanupRemove, Less
  <2>3. torrent.peers[h].timeout_ts \in Nat
    BY <2>1 DEF IsTorrent, IsPeer
  <2>4. torrent.peers[h].timeout_ts <= now
    BY <2>1, <2>3 DEF IndInv
  <2>5. torrent'.peers = Abstract!Without(torrent.peers, h)
        /\ torrent'.completed = torrent.completed
    BY <2>1, <2>2, LessDrops, SameTable
  <2>6. Abstract!Expire
    BY <1>3, <2>1, <2>4, <2>5 DEF Abstract!Expire, CleanupRemove
  <2>7. QED
    BY <2>6 DEF Abstract!Next
<1>4. CASE Tick
  BY <1>4 DEF Tick, Abstract!Tick, Abstract!Next
<1>5. CASE UNCHANGED vars
  BY <1>5 DEF vars, Abstract!vars
<1>6. QED
  BY <1>1, <1>2, <1>3, <1>4, <1>5 DEF Next, Cleanup

(* A torrent implements the table of peers of module Swarm: whoever leaves *)
(* has stopped, has timed out or was the oldest of a full table, and       *)
(* completed_ counts each completion of a registered leecher once.         *)
THEOREM Refinement == Spec => ImplementsSwarm
<1>1. QED
  BY InitRefines, StepRefines, Invariance, PTL DEF Spec, ImplementsSwarm, Abstract!Spec

============================================================================
