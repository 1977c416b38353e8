-------------------------- MODULE TorrentOpsProofs --------------------------
(***************************************************************************)
(* What each method of class Torrent preserves and returns, for every      *)
(* request and every value of the options: the lemmas that the proofs      *)
(* about one torrent (TorrentProofs), about the database (TorrentDbProofs) *)
(* and about the handlers in front of it (FrontEndProofs) share.           *)
(***************************************************************************)
EXTENDS TorrentOps, TLAPS, FiniteSetTheorems

-----------------------------------------------------------------------------
(* The list: erasing an element, and appending one.                        *)

(* The second part of a concatenation.                                     *)
LEMMA ConcatRight ==
  ASSUME NEW S, NEW a \in Seq(S), NEW b \in Seq(S),
         NEW i \in 1 .. Len(a) + Len(b), ~ (i <= Len(a))
  PROVE  (a \o b)[i] = b[i - Len(a)]
  OBVIOUS

(* IntrusiveDList::erase: in a list without duplicates the element leaves  *)
(* and all others keep their order.                                        *)
LEMMA EraseFromList ==
  ASSUME NEW S, NEW s \in Seq(S), IsInjective(s), NEW p \in DOMAIN s
  PROVE  /\ RemoveFirst(s, s[p]) \in Seq(S)
         /\ Len(RemoveFirst(s, s[p])) = Len(s) - 1
         /\ \A i \in 1 .. Len(s) - 1 :
              RemoveFirst(s, s[p])[i] = IF i < p THEN s[i] ELSE s[i + 1]
<1> DEFINE I == {i \in 1..Len(s) : s[i] = s[p]}
<1>1. p \in 1..Len(s) /\ Len(s) \in Nat
  OBVIOUS
<1>2. I = {p}
  BY <1>1 DEF IsInjective
<1>3. Min(I) = p
  BY <1>1, <1>2 DEF Min
<1>4. RemoveFirst(s, s[p]) = SubSeq(s, 1, p - 1) \o SubSeq(s, p + 1, Len(s))
  BY <1>1, <1>2, <1>3 DEF RemoveFirst, RemoveAt, SelectInSeq
<1> DEFINE a == SubSeq(s, 1, p - 1)
           b == SubSeq(s, p + 1, Len(s))
<1>5. a \in Seq(S) /\ Len(a) = p - 1 /\ \A i \in 1 .. p - 1 : a[i] = s[i]
  BY <1>1
<1>6. b \in Seq(S) /\ Len(b) = Len(s) - p
      /\ \A i \in 1 .. Len(s) - p : b[i] = s[p + i]
  BY <1>1
<1> HIDE DEF I, a, b
<1>7. a \o b \in Seq(S) /\ Len(a \o b) = Len(s) - 1
  BY <1>1, <1>5, <1>6
<1>8. ASSUME NEW i \in 1 .. Len(s) - 1
      PROVE  (a \o b)[i] = IF i < p THEN s[i] ELSE s[i + 1]
  <2>1. CASE i < p
    BY <1>1, <1>5, <1>6, <2>1
  <2>2. CASE ~ (i < p)
    <3>1. i - Len(a) \in 1 .. Len(s) - p /\ p + (i - Len(a)) = i + 1
      BY <1>1, <1>5, <2>2
    <3>2. i \in 1 .. Len(a) + Len(b) /\ ~ (i <= Len(a)) /\ a \in Seq(S) /\ b \in Seq(S)
      BY <1>1, <1>5, <1>6, <2>2
    <3>3. (a \o b)[i] = b[i - Len(a)]
      BY <3>2, ConcatRight
    <3>4. QED
      BY <1>1, <1>6, <2>2, <3>1, <3>3
  <2>3. QED
    BY <2>1, <2>2
<1>9. QED
  BY <1>4, <1>7, <1>8 DEF a, b

(* Two elements of r stand in the order they have in s.                    *)
InOrderOf(r, s) ==
  \A i, j \in DOMAIN r :
    i <= j => \E a, b \in DOMAIN s : a <= b /\ r[i] = s[a] /\ r[j] = s[b]

(* What the operations rely on: nothing else leaves, no duplicate appears, *)
(* and two elements that remain stand in the order they stood in before.   *)
LEMMA EraseKeepsOrder ==
  ASSUME NEW S, NEW s \in Seq(S), IsInjective(s), NEW e \in ToSet(s),
         NEW r, r = RemoveFirst(s, e)
  PROVE  /\ r \in Seq(S)
         /\ IsInjective(r)
         /\ ToSet(r) = ToSet(s) \ {e}
         /\ InOrderOf(r, s)
<1>1. PICK p \in DOMAIN s : e = s[p]
  BY DEF ToSet
<1>2. p \in 1..Len(s) /\ Len(s) \in Nat /\ DOMAIN s = 1..Len(s)
  OBVIOUS
<1>3. /\ r \in Seq(S)
      /\ Len(r) = Len(s) - 1
      /\ \A i \in 1 .. Len(s) - 1 : r[i] = IF i < p THEN s[i] ELSE s[i + 1]
  BY <1>1, EraseFromList
<1>4. DOMAIN r = 1 .. Len(s) - 1
  BY <1>3
<1> DEFINE at(i) == IF i < p THEN i ELSE i + 1
<1>5. \A i \in DOMAIN r : at(i) \in DOMAIN s /\ at(i) # p /\ r[i] = s[at(i)]
  BY <1>2, <1>3, <1>4
<1>6. \A i, j \in DOMAIN r : at(i) = at(j) => i = j
  BY <1>2, <1>4
<1>7. IsInjective(r)
  BY <1>5, <1>6 DEF IsInjective
<1>8. ToSet(r) = ToSet(s) \ {e}
  <2>1. ASSUME NEW x \in ToSet(r) PROVE x \in ToSet(s) \ {e}
    <3>1. PICK i \in DOMAIN r : x = r[i]
      BY DEF ToSet
    <3>2. QED
      BY <3>1, <1>1, <1>5 DEF ToSet, IsInjective
  <2>2. ASSUME NEW x \in ToSet(s) \ {e} PROVE x \in ToSet(r)
    <3>1. PICK a \in DOMAIN s : x = s[a]
      BY DEF ToSet
    <3>2. a # p
      BY <3>1, <1>1
    <3> DEFINE i == IF a < p THEN a ELSE a - 1
    <3>3. i \in DOMAIN r /\ at(i) = a
      BY <3>2, <1>2, <1>4
    <3>4. QED
      BY <3>1, <3>3, <1>5 DEF ToSet
  <2>3. QED
    BY <2>1, <2>2
<1>9. ASSUME NEW i \in DOMAIN r, NEW j \in DOMAIN r, i <= j
      PROVE  \E a, b \in DOMAIN s : a <= b /\ r[i] = s[a] /\ r[j] = s[b]
  <2>1. at(i) <= at(j)
    BY <1>2, <1>4, <1>9
  <2>2. QED
    BY <2>1, <1>5
<1>10. QED
  BY <1>3, <1>7, <1>8, <1>9 DEF InOrderOf

PushedBack(r, s, e) ==
  /\ DOMAIN r = 1 .. Len(s) + 1
  /\ \A i \in 1..Len(s) : r[i] = s[i]
  /\ r[Len(s) + 1] = e

(* A list whose elements are all in a set.                                 *)
LEMMA SeqInto ==
  ASSUME NEW S, NEW s \in Seq(S), NEW T, ToSet(s) \subseteq T
  PROVE  s \in Seq(T)
<1>1. \A i \in 1..Len(s) : s[i] \in T
  BY DEF ToSet
<1>2. QED
  BY <1>1

(* IntrusiveDList::pushBack of an element that the list does not hold.     *)
LEMMA PushBack ==
  ASSUME NEW S, NEW s \in Seq(S), IsInjective(s), NEW e \in S, e \notin ToSet(s)
  PROVE  /\ Append(s, e) \in Seq(S)
         /\ PushedBack(Append(s, e), s, e)
         /\ IsInjective(Append(s, e))
         /\ ToSet(Append(s, e)) = ToSet(s) \cup {e}
<1> DEFINE r == Append(s, e)
<1>1. /\ Len(s) \in Nat /\ DOMAIN s = 1..Len(s)
      /\ r \in Seq(S) /\ DOMAIN r = 1 .. Len(s) + 1
      /\ \A i \in 1..Len(s) : r[i] = s[i]
      /\ r[Len(s) + 1] = e
  OBVIOUS
<1> HIDE DEF r
<1>2. IsInjective(r)
  BY <1>1 DEF IsInjective, ToSet
<1>3. ToSet(r) = ToSet(s) \cup {e}
  BY <1>1 DEF ToSet
<1>4. QED
  BY <1>1, <1>2, <1>3 DEF PushedBack, r

-----------------------------------------------------------------------------
(* The methods, one at a time.  A torrent is sound when the list, the      *)
(* index and the counters describe the same peers; each method takes a     *)
(* sound torrent to a sound torrent.                                       *)

Sound(t) ==
  /\ IsTorrent(t)
  /\ IsFiniteSet(DOMAIN t.peers)
  /\ Indexed(t)
  /\ Counted(t)
  /\ Sorted(t)

(* The limits are numbers, and one peer more than MAX_PEERS can be         *)
(* counted.                                                                *)
LEMMA OptionTypes ==
  /\ UINT_MAX \in Nat /\ MAX_PEERS \in Nat /\ MAX_PEERS + 1 <= UINT_MAX
  /\ Timeout \in Nat
BY OptionsAssumption DEF UINT_MAX, Timeout

(* Every peer is counted in exactly one of the two counters.               *)
LEMMA CountersSum ==
  ASSUME NEW t, Sound(t)
  PROVE  /\ t.leechers \in Nat /\ t.seeders \in Nat
         /\ Cardinality(DOMAIN t.peers) \in Nat
         /\ t.leechers + t.seeders = Cardinality(DOMAIN t.peers)
         /\ IsFiniteSet(Leechers(t)) /\ IsFiniteSet(Seeders(t))
<1>1. IsFiniteSet(Leechers(t)) /\ IsFiniteSet(Seeders(t))
  BY FS_Subset DEF Sound, Leechers, Seeders
<1>2. Leechers(t) \cup Seeders(t) = DOMAIN t.peers /\ Leechers(t) \cap Seeders(t) = {}
  BY DEF Leechers, Seeders
<1>3. Cardinality(DOMAIN t.peers)
        = Cardinality(Leechers(t)) + Cardinality(Seeders(t)) - Cardinality({})
  BY <1>1, <1>2, FS_Union
<1>4. Cardinality(Leechers(t)) \in Nat /\ Cardinality(Seeders(t)) \in Nat
      /\ Cardinality({}) = 0
  BY <1>1, FS_CardinalityType, FS_EmptySet
<1>5. QED
  BY <1>1, <1>3, <1>4 DEF Sound, Counted

(* Torrent::removePeer, field by field.                                    *)
LEMMA RemovePeerFields ==
  ASSUME NEW t, IsTorrent(t), NEW k \in DOMAIN t.peers,
         NEW r, r = RemovePeer(t, k)
  PROVE  /\ r.peers = [x \in DOMAIN t.peers \ {k} |-> t.peers[x]]
         /\ r.timeouts = RemoveFirst(t.timeouts, k)
         /\ r.leechers = IF t.peers[k].left = 0 THEN t.leechers ELSE Dec(t.leechers)
         /\ r.seeders = IF t.peers[k].left = 0 THEN Dec(t.seeders) ELSE t.seeders
         /\ r.completed = t.completed
         /\ r \in [peers : {r.peers}, timeouts : {r.timeouts}, leechers : {r.leechers},
                   seeders : {r.seeders}, completed : {r.completed}]
BY DEF RemovePeer, Uncount, IsTorrent

(* Torrent::removePeer keeps list, index and counters in agreement.        *)
LEMMA RemovePeerSound ==
  ASSUME NEW t, Sound(t), NEW k \in DOMAIN t.peers, NEW r, r = RemovePeer(t, k)
  PROVE  Sound(r)
<1>1. IsTorrent(t)
  BY DEF Sound
<1>2. /\ r.peers = [x \in DOMAIN t.peers \ {k} |-> t.peers[x]]
      /\ r.timeouts = RemoveFirst(t.timeouts, k)
      /\ r.leechers = IF t.peers[k].left = 0 THEN t.leechers ELSE Dec(t.leechers)
      /\ r.seeders = IF t.peers[k].left = 0 THEN Dec(t.seeders) ELSE t.seeders
      /\ r.completed = t.completed
      /\ r \in [peers : {r.peers}, timeouts : {r.timeouts}, leechers : {r.leechers},
                seeders : {r.seeders}, completed : {r.completed}]
  BY <1>1, RemovePeerFields
<1>3. /\ t.timeouts \in Seq(DOMAIN t.peers) /\ IsInjective(t.timeouts) /\ k \in ToSet(t.timeouts)
      /\ ToSet(t.timeouts) = DOMAIN t.peers
  BY <1>1 DEF IsTorrent, Sound, Indexed
<1>4. /\ r.timeouts \in Seq(DOMAIN t.peers)
      /\ IsInjective(r.timeouts)
      /\ ToSet(r.timeouts) = ToSet(t.timeouts) \ {k}
      /\ InOrderOf(r.timeouts, t.timeouts)
  <2>1. r.timeouts = RemoveFirst(t.timeouts, k)
    BY <1>2
  <2>2. QED
    BY <2>1, <1>3, EraseKeepsOrder
<1>5. IsFiniteSet(DOMAIN r.peers)
  BY <1>2, FS_RemoveElement DEF Sound
<1>6. Indexed(r)
  BY <1>2, <1>3, <1>4 DEF Indexed, Sound
<1>7. Sorted(r)
  <2> SUFFICES ASSUME NEW i \in DOMAIN r.timeouts, NEW j \in DOMAIN r.timeouts, i <= j
               PROVE  r.peers[r.timeouts[i]].timeout_ts <= r.peers[r.timeouts[j]].timeout_ts
    BY DEF Sorted
  <2>1. PICK a, b \in DOMAIN t.timeouts :
          a <= b /\ r.timeouts[i] = t.timeouts[a] /\ r.timeouts[j] = t.timeouts[b]
    BY <1>4 DEF InOrderOf
  <2>2. t.peers[t.timeouts[a]].timeout_ts <= t.peers[t.timeouts[b]].timeout_ts
    BY <2>1 DEF Sound, Sorted
  <2>3. r.timeouts[i] \in DOMAIN r.peers /\ r.timeouts[j] \in DOMAIN r.peers
    BY <1>6 DEF Indexed, ToSet
  <2>4. QED
    BY <1>2, <2>1, <2>2, <2>3
<1>8. Counted(r) /\ r.leechers \in 0..UINT_MAX /\ r.seeders \in 0..UINT_MAX
  <2>1. /\ IsFiniteSet(Leechers(t)) /\ IsFiniteSet(Seeders(t))
        /\ t.leechers = Cardinality(Leechers(t)) /\ t.seeders = Cardinality(Seeders(t))
        /\ t.leechers \in 0..UINT_MAX /\ t.seeders \in 0..UINT_MAX /\ UINT_MAX \in Nat
    BY CountersSum, OptionTypes DEF Sound, Counted, IsTorrent
  <2>2. CASE t.peers[k].left = 0
    <3>1. Leechers(r) = Leechers(t) /\ Seeders(r) = Seeders(t) \ {k} /\ k \in Seeders(t)
      BY <1>2, <2>2 DEF Leechers, Seeders
    <3>2. Cardinality(Seeders(r)) = Cardinality(Seeders(t)) - 1
          /\ Cardinality(Seeders(r)) \in Nat
      BY <2>1, <3>1, FS_RemoveElement, FS_CardinalityType
    <3>3. QED
      BY <1>2, <2>1, <2>2, <3>1, <3>2 DEF Counted, Dec
  <2>3. CASE t.peers[k].left # 0
    <3>1. Seeders(r) = Seeders(t) /\ Leechers(r) = Leechers(t) \ {k} /\ k \in Leechers(t)
      BY <1>2, <2>3 DEF Leechers, Seeders
    <3>2. Cardinality(Leechers(r)) = Cardinality(Leechers(t)) - 1
          /\ Cardinality(Leechers(r)) \in Nat
      BY <2>1, <3>1, FS_RemoveElement, FS_CardinalityType
    <3>3. QED
      BY <1>2, <2>1, <2>3, <3>1, <3>2 DEF Counted, Dec
  <2>4. QED
    BY <2>2, <2>3
<1>9. IsTorrent(r)
  <2>1. t.completed \in 0..UINT_MAX /\ \A x \in DOMAIN t.peers : IsPeer(t.peers[x])
    BY <1>1 DEF IsTorrent
  <2>2. /\ r.peers = [x \in DOMAIN r.peers |-> r.peers[x]]
        /\ \A x \in DOMAIN r.peers : IsPeer(r.peers[x])
    BY <1>2, <2>1
  <2>3. ToSet(r.timeouts) \subseteq DOMAIN r.peers
    BY <1>2, <1>3, <1>4
  <2>4. r.timeouts \in Seq(DOMAIN r.peers)
    BY <1>4, <2>3, SeqInto
  <2>5. QED
    BY <1>2, <1>8, <2>1, <2>2, <2>4 DEF IsTorrent
<1>10. QED
  BY <1>5, <1>6, <1>7, <1>8, <1>9 DEF Sound

(* A peer as Torrent::createOrUpdatePeer leaves it.                        *)
PeerOf(req, n) == [addr       |-> req.addr,
                   left       |-> req.left,
                   peerid     |-> req.peerid,
                   timeout_ts |-> n + Timeout]

(* The torrent without its peer k, if it has one.                          *)
Less(t, k) == IF k \in DOMAIN t.peers THEN RemovePeer(t, k) ELSE t

(* r is u with the announced peer added under the key k.                   *)
Inserted(r, u, k, req, n) ==
  /\ r.peers = [x \in DOMAIN u.peers \cup {k} |->
                  IF x = k THEN PeerOf(req, n) ELSE u.peers[x]]
  /\ r.timeouts = Append(u.timeouts, k)
  /\ r.leechers = IF req.left = 0 THEN u.leechers ELSE Inc(u.leechers)
  /\ r.seeders = IF req.left = 0 THEN Inc(u.seeders) ELSE u.seeders
  /\ r \in [peers : {r.peers}, timeouts : {r.timeouts}, leechers : {r.leechers},
            seeders : {r.seeders}, completed : {r.completed}]

(* Updating a peer in place, with its counter taken back, its list node    *)
(* moved to the end and its fields overwritten, amounts to removing it and *)
(* inserting it anew.                                                      *)
LEMMA UpdateIsReinsert ==
  ASSUME NEW t, IsTorrent(t), NEW req, NEW n, NEW k, k = Key(req.addr),
         NEW u, u = Less(t, k), NEW r, r = CreateOrUpdatePeer(t, req, n)
  PROVE  /\ DOMAIN u.peers = DOMAIN t.peers \ {k}
         /\ \A x \in DOMAIN u.peers : u.peers[x] = t.peers[x]
         /\ Inserted(r, u, k, req, n)
         /\ r.completed = t.completed
<1> DEFINE update == k \in DOMAIN t.peers
           old    == IF update THEN Uncount(t, t.peers[k].left) ELSE t
           peer   == [addr       |-> req.addr,
                      left       |-> req.left,
                      peerid     |-> req.peerid,
                      timeout_ts |-> IF update THEN t.peers[k].timeout_ts ELSE 0]
           peers  == [x \in DOMAIN t.peers \cup {k} |->
                        IF x = k THEN peer ELSE t.peers[x]]
           new    == [Count(old, req.left) EXCEPT !.peers = peers]
<1>1. r = UpdateTimeout(new, k, update, n)
  BY DEF CreateOrUpdatePeer
<1>2. /\ old.peers = t.peers /\ old.timeouts = t.timeouts /\ old.completed = t.completed
      /\ old.leechers = u.leechers /\ old.seeders = u.seeders
      /\ old \in [peers : {old.peers}, timeouts : {old.timeouts}, leechers : {old.leechers},
                  seeders : {old.seeders}, completed : {old.completed}]
  BY DEF IsTorrent, Uncount, Less, RemovePeer
<1> HIDE DEF old
<1>3. /\ new.peers = peers /\ new.timeouts = t.timeouts /\ new.completed = t.completed
      /\ new.leechers = IF req.left = 0 THEN u.leechers ELSE Inc(u.leechers)
      /\ new.seeders = IF req.left = 0 THEN Inc(u.seeders) ELSE u.seeders
      /\ new \in [peers : {new.peers}, timeouts : {new.timeouts}, leechers : {new.leechers},
                  seeders : {new.seeders}, completed : {new.completed}]
  BY <1>2 DEF Count
<1>4. /\ DOMAIN u.peers = DOMAIN t.peers \ {k}
      /\ \A x \in DOMAIN u.peers : u.peers[x] = t.peers[x]
      /\ u.timeouts = IF update THEN RemoveFirst(t.timeouts, k) ELSE t.timeouts
  <2>1. CASE update
    <3>1. u = RemovePeer(t, k) /\ k \in DOMAIN t.peers
      BY <2>1 DEF Less
    <3>2. /\ u.peers = [x \in DOMAIN t.peers \ {k} |-> t.peers[x]]
          /\ u.timeouts = RemoveFirst(t.timeouts, k)
      BY <3>1, RemovePeerFields
    <3>3. QED
      BY <2>1, <3>2
  <2>2. CASE ~ update
    BY <2>2 DEF Less
  <2>3. QED
    BY <2>1, <2>2
<1> HIDE DEF new, peer
<1>5. /\ r.peers = [new.peers EXCEPT ![k].timeout_ts = n + Timeout]
      /\ r.timeouts = Append(IF update THEN RemoveFirst(t.timeouts, k) ELSE t.timeouts, k)
      /\ r.leechers = new.leechers /\ r.seeders = new.seeders
      /\ r.completed = new.completed
      /\ r \in [peers : {r.peers}, timeouts : {r.timeouts}, leechers : {r.leechers},
                seeders : {r.seeders}, completed : {r.completed}]
  BY <1>1, <1>3 DEF UpdateTimeout
<1>6. r.peers = [x \in DOMAIN u.peers \cup {k} |->
                   IF x = k THEN PeerOf(req, n) ELSE u.peers[x]]
  <2>1. r.peers = [x \in DOMAIN t.peers \cup {k} |->
                     IF x = k THEN [peer EXCEPT !.timeout_ts = n + Timeout] ELSE t.peers[x]]
    BY <1>3, <1>5
  <2>2. [peer EXCEPT !.timeout_ts = n + Timeout] = PeerOf(req, n)
    BY DEF PeerOf, peer
  <2>3. QED
    BY <1>4, <2>1, <2>2
<1>7. QED
  BY <1>3, <1>4, <1>5, <1>6 DEF Inserted

(* A peer that is new, and times out last, can be inserted: everything     *)
(* still agrees, and the list is sorted.                                   *)
LEMMA InsertSound ==
  ASSUME NEW u, Sound(u), Cardinality(DOMAIN u.peers) <= MAX_PEERS,
         NEW req, IsRequest(req), NEW n \in Nat, NEW k, k = Key(req.addr),
         k \notin DOMAIN u.peers,
         \A x \in DOMAIN u.peers : u.peers[x].timeout_ts <= n + Timeout,
         NEW r, Inserted(r, u, k, req, n), r.completed \in 0..UINT_MAX
  PROVE  /\ Sound(r)
         /\ Cardinality(DOMAIN r.peers) = Cardinality(DOMAIN u.peers) + 1
<1>1. /\ Len(u.timeouts) \in Nat /\ DOMAIN u.timeouts = 1..Len(u.timeouts)
      /\ u.timeouts \in Seq(DOMAIN u.peers \cup {k}) /\ IsInjective(u.timeouts)
      /\ ToSet(u.timeouts) = DOMAIN u.peers
      /\ req.left \in Nat
  <2>1. u.timeouts \in Seq(DOMAIN u.peers) /\ ToSet(u.timeouts) = DOMAIN u.peers
    BY DEF Sound, IsTorrent, Indexed
  <2>2. u.timeouts \in Seq(DOMAIN u.peers \cup {k})
    BY <2>1, SeqInto
  <2>3. QED
    BY <2>1, <2>2 DEF IsRequest, Sound, Indexed
<1>2. /\ r.timeouts \in Seq(DOMAIN u.peers \cup {k})
      /\ PushedBack(r.timeouts, u.timeouts, k)
      /\ IsInjective(r.timeouts)
      /\ ToSet(r.timeouts) = ToSet(u.timeouts) \cup {k}
  <2>1. r.timeouts = Append(u.timeouts, k)
    BY DEF Inserted
  <2>2. /\ u.timeouts \in Seq(DOMAIN u.peers \cup {k}) /\ IsInjective(u.timeouts)
        /\ k \in DOMAIN u.peers \cup {k} /\ k \notin ToSet(u.timeouts)
    BY <1>1
  <2>3. QED
    BY <2>1, <2>2, PushBack
<1>3. /\ DOMAIN r.peers = DOMAIN u.peers \cup {k}
      /\ r.peers[k] = PeerOf(req, n)
      /\ \A x \in DOMAIN u.peers : r.peers[x] = u.peers[x]
  BY DEF Inserted
<1>4. IsFiniteSet(DOMAIN r.peers)
      /\ Cardinality(DOMAIN r.peers) = Cardinality(DOMAIN u.peers) + 1
  <2>1. /\ IsFiniteSet(DOMAIN u.peers) /\ DOMAIN r.peers = DOMAIN u.peers \cup {k}
        /\ k \notin DOMAIN u.peers
    BY <1>3 DEF Sound
  <2>2. QED
    BY ONLY <2>1, FS_AddElement
<1>5. Indexed(r)
  BY <1>1, <1>2, <1>3 DEF Indexed, Sound, PeerOf
<1>6. Sorted(r)
  <2> SUFFICES ASSUME NEW i \in 1 .. Len(u.timeouts) + 1, NEW j \in 1 .. Len(u.timeouts) + 1,
                      i <= j
               PROVE  r.peers[r.timeouts[i]].timeout_ts <= r.peers[r.timeouts[j]].timeout_ts
    BY <1>2 DEF Sorted, PushedBack
  <2>1. \A a \in 1..Len(u.timeouts) : u.timeouts[a] \in DOMAIN u.peers
    BY <1>1 DEF ToSet
  <2>2. CASE j \in 1..Len(u.timeouts)
    <3>1. i \in 1..Len(u.timeouts)
      BY <2>2, <1>1
    <3>2. u.peers[u.timeouts[i]].timeout_ts <= u.peers[u.timeouts[j]].timeout_ts
      BY <2>2, <3>1, <1>1 DEF Sound, Sorted
    <3>3. QED
      BY <2>1, <2>2, <3>1, <3>2, <1>2, <1>3 DEF PushedBack
  <2>3. CASE j = Len(u.timeouts) + 1
    <3>1. r.peers[r.timeouts[j]].timeout_ts = n + Timeout /\ n + Timeout \in Nat
      BY <2>3, <1>2, <1>3, OptionTypes DEF PeerOf, PushedBack
    <3>2. CASE i = j
      BY <3>1, <3>2
    <3>3. CASE i # j
      <4>1. i \in 1..Len(u.timeouts)
        BY <2>3, <3>3, <1>1
      <4>2. r.peers[r.timeouts[i]] = u.peers[u.timeouts[i]]
        BY <4>1, <2>1, <1>2, <1>3 DEF PushedBack
      <4>3. QED
        BY <4>1, <4>2, <2>1, <3>1
    <3>4. QED
      BY <3>2, <3>3
  <2>4. QED
    BY <2>2, <2>3, <1>1
<1>7. Counted(r) /\ r.leechers \in 0..UINT_MAX /\ r.seeders \in 0..UINT_MAX
  <2>1. /\ IsFiniteSet(Leechers(u)) /\ IsFiniteSet(Seeders(u))
        /\ u.leechers = Cardinality(Leechers(u)) /\ u.seeders = Cardinality(Seeders(u))
        /\ u.leechers \in Nat /\ u.seeders \in Nat /\ UINT_MAX \in Nat
        /\ u.leechers + 1 <= UINT_MAX /\ u.seeders + 1 <= UINT_MAX
    BY CountersSum, OptionTypes DEF Sound, Counted
  <2>2. k \notin Leechers(u) /\ k \notin Seeders(u)
    BY DEF Leechers, Seeders
  <2>3. CASE req.left = 0
    <3>1. Leechers(r) = Leechers(u) /\ Seeders(r) = Seeders(u) \cup {k}
      BY <1>3, <2>3 DEF Leechers, Seeders, PeerOf
    <3>2. Cardinality(Seeders(r)) = Cardinality(Seeders(u)) + 1
      BY <2>1, <2>2, <3>1, FS_AddElement
    <3>3. QED
      BY <2>1, <2>3, <3>1, <3>2 DEF Counted, Inc, Inserted
  <2>4. CASE req.left # 0
    <3>1. Seeders(r) = Seeders(u) /\ Leechers(r) = Leechers(u) \cup {k}
      BY <1>3, <2>4 DEF Leechers, Seeders, PeerOf
    <3>2. Cardinality(Leechers(r)) = Cardinality(Leechers(u)) + 1
      BY <2>1, <2>2, <3>1, FS_AddElement
    <3>3. QED
      BY <2>1, <2>4, <3>1, <3>2 DEF Counted, Inc, Inserted
  <2>5. QED
    BY <2>3, <2>4
<1>8. IsTorrent(r)
  <2>1. IsPeer(PeerOf(req, n))
    BY <1>1, OptionTypes DEF PeerOf, IsPeer
  <2>2. \A x \in DOMAIN u.peers : IsPeer(u.peers[x])
    BY DEF Sound, IsTorrent
  <2>3. /\ r.peers = [x \in DOMAIN r.peers |-> r.peers[x]]
        /\ \A x \in DOMAIN r.peers : IsPeer(r.peers[x])
    BY <1>3, <2>1, <2>2 DEF Inserted
  <2>4. r.timeouts \in Seq(DOMAIN r.peers)
    BY <1>2, <1>3
  <2>5. QED
    BY <1>7, <2>3, <2>4 DEF IsTorrent, Inserted
<1>9. QED
  BY <1>4, <1>5, <1>6, <1>7, <1>8 DEF Sound

(* A sound torrent between two operations, at time n.                      *)
Fresh(t, n) == \A x \in DOMAIN t.peers : t.peers[x].timeout_ts <= n + Timeout

Healthy(t, n) ==
  /\ Sound(t)
  /\ Cardinality(DOMAIN t.peers) <= MAX_PEERS
  /\ Fresh(t, n)

(* Removing a peer, or nobody, harms no part of the invariant.             *)
LEMMA LessHealthy ==
  ASSUME NEW t, NEW n \in Nat, Healthy(t, n), NEW k
  PROVE  Healthy(Less(t, k), n)
<1>1. CASE k \in DOMAIN t.peers
  <2> DEFINE r == RemovePeer(t, k)
  <2>1. Less(t, k) = r
    BY <1>1 DEF Less
  <2>2. Sound(r)
    BY <1>1, RemovePeerSound DEF Healthy
  <2>3. r.peers = [x \in DOMAIN t.peers \ {k} |-> t.peers[x]]
    BY <1>1, RemovePeerFields DEF Healthy, Sound
  <2> HIDE DEF r
  <2>4. IsFiniteSet(DOMAIN t.peers) /\ Cardinality(DOMAIN t.peers) \in Nat
    BY FS_CardinalityType DEF Healthy, Sound
  <2>5. DOMAIN r.peers = DOMAIN t.peers \ {k}
    BY <2>3
  <2>6. Cardinality(DOMAIN r.peers) = Cardinality(DOMAIN t.peers) - 1
    BY <1>1, <2>4, <2>5, FS_RemoveElement
  <2>7. Cardinality(DOMAIN r.peers) <= MAX_PEERS
    BY <2>4, <2>6, OptionTypes DEF Healthy
  <2>8. Fresh(r, n)
    BY <2>3 DEF Healthy, Fresh
  <2>9. QED
    BY <2>1, <2>2, <2>7, <2>8 DEF Healthy
<1>2. CASE k \notin DOMAIN t.peers
  BY <1>2 DEF Less
<1>3. QED
  BY <1>1, <1>2

(* Torrent::createOrUpdatePeer may leave one peer too many, no more.       *)
LEMMA CreateOrUpdatePeerSound ==
  ASSUME NEW t, NEW n \in Nat, Healthy(t, n), NEW req, IsRequest(req),
         NEW r, r = CreateOrUpdatePeer(t, req, n)
  PROVE  /\ Sound(r)
         /\ Cardinality(DOMAIN r.peers) <= MAX_PEERS + 1
         /\ Fresh(r, n)
         /\ r.completed = t.completed
<1> DEFINE k == Key(req.addr)
           u == Less(t, k)
<1>1. IsTorrent(t) /\ t.completed \in 0..UINT_MAX
  BY DEF Healthy, Sound, IsTorrent
<1>2. /\ DOMAIN u.peers = DOMAIN t.peers \ {k}
      /\ Inserted(r, u, k, req, n)
      /\ r.completed = t.completed
  BY <1>1, UpdateIsReinsert
<1>3. Healthy(u, n)
  BY LessHealthy
<1> HIDE DEF k, u
<1>4. /\ Sound(r)
      /\ Cardinality(DOMAIN r.peers) = Cardinality(DOMAIN u.peers) + 1
  <2>1. /\ Sound(u) /\ Cardinality(DOMAIN u.peers) <= MAX_PEERS
        /\ \A x \in DOMAIN u.peers : u.peers[x].timeout_ts <= n + Timeout
        /\ k \notin DOMAIN u.peers /\ k = Key(req.addr) /\ r.completed \in 0..UINT_MAX
    BY <1>1, <1>2, <1>3 DEF Healthy, Fresh, k
  <2>2. QED
    BY <1>2, <2>1, InsertSound
<1>5. Cardinality(DOMAIN r.peers) <= MAX_PEERS + 1
  <2>1. Cardinality(DOMAIN u.peers) <= MAX_PEERS /\ Cardinality(DOMAIN u.peers) \in Nat
    BY <1>3, CountersSum DEF Healthy
  <2>2. QED
    BY <1>4, <2>1, OptionTypes
<1>6. Fresh(r, n)
  <2>1. /\ r.peers = [x \in DOMAIN u.peers \cup {k} |->
                        IF x = k THEN PeerOf(req, n) ELSE u.peers[x]]
        /\ PeerOf(req, n).timeout_ts = n + Timeout
    BY <1>2 DEF Inserted, PeerOf
  <2>2. n + Timeout \in Nat /\ Fresh(u, n)
    BY <1>3, OptionTypes DEF Healthy
  <2>3. QED
    BY <2>1, <2>2 DEF Fresh
<1>7. QED
  BY <1>2, <1>4, <1>5, <1>6

(* The front of the list is a peer, and none times out before it.          *)
LEMMA FrontIsOldest ==
  ASSUME NEW t, Sound(t), t.timeouts # << >>
  PROVE  /\ Head(t.timeouts) \in DOMAIN t.peers
         /\ \A x \in DOMAIN t.peers :
              t.peers[Head(t.timeouts)].timeout_ts <= t.peers[x].timeout_ts
<1>1. /\ t.timeouts \in Seq(DOMAIN t.peers) /\ ToSet(t.timeouts) = DOMAIN t.peers
      /\ Sorted(t)
  BY DEF Sound, IsTorrent, Indexed
<1>2. 1 \in DOMAIN t.timeouts /\ Head(t.timeouts) = t.timeouts[1]
      /\ DOMAIN t.timeouts = 1..Len(t.timeouts) /\ Len(t.timeouts) \in Nat
  BY <1>1
<1>3. ASSUME NEW x \in DOMAIN t.peers
      PROVE  t.peers[Head(t.timeouts)].timeout_ts <= t.peers[x].timeout_ts
  <2>1. PICK j \in DOMAIN t.timeouts : x = t.timeouts[j]
    BY <1>1 DEF ToSet
  <2>2. 1 <= j
    BY <1>2
  <2>3. QED
    BY <1>1, <1>2, <2>1, <2>2 DEF Sorted
<1>4. QED
  BY <1>1, <1>2, <1>3 DEF ToSet

(* The size check of Torrent::announce compares the true number of peers,  *)
(* and one eviction is enough.                                             *)
LEMMA EvictOldestHealthy ==
  ASSUME NEW t, NEW n \in Nat, Sound(t), Fresh(t, n),
         Cardinality(DOMAIN t.peers) <= MAX_PEERS + 1
  PROVE  /\ Add(t.leechers, t.seeders) = Cardinality(DOMAIN t.peers)
         /\ Cardinality(DOMAIN t.peers) > MAX_PEERS => t.timeouts # << >>
         /\ Healthy(EvictOldest(t), n)
<1>1. /\ t.leechers \in Nat /\ t.seeders \in Nat
      /\ Cardinality(DOMAIN t.peers) \in Nat
      /\ t.leechers + t.seeders = Cardinality(DOMAIN t.peers)
  BY CountersSum
<1>2. Add(t.leechers, t.seeders) = Cardinality(DOMAIN t.peers)
  BY <1>1, OptionTypes DEF Add
<1>3. CASE Cardinality(DOMAIN t.peers) <= MAX_PEERS
  <2>1. EvictOldest(t) = t
    BY <1>1, <1>2, <1>3, OptionTypes DEF EvictOldest
  <2>2. QED
    BY <1>1, <1>2, <1>3, <2>1, OptionTypes DEF Healthy
<1>4. CASE Cardinality(DOMAIN t.peers) > MAX_PEERS
  <2> DEFINE h == Head(t.timeouts)
             r == RemovePeer(t, h)
  <2>1. t.timeouts # << >>
    <3>1. DOMAIN t.peers # {}
      BY <1>4, FS_EmptySet, OptionTypes
    <3>2. ToSet(<< >>) = {}
      BY DEF ToSet
    <3>3. QED
      BY <3>1, <3>2 DEF Sound, Indexed
  <2>2. h \in DOMAIN t.peers
    BY <2>1, FrontIsOldest
  <2>3. EvictOldest(t) = r
    BY <1>2, <1>4 DEF EvictOldest
  <2> HIDE DEF h
  <2>4. Sound(r)
    BY <2>2, RemovePeerSound
  <2>5. r.peers = [x \in DOMAIN t.peers \ {h} |-> t.peers[x]]
    BY <2>2, RemovePeerFields DEF Sound
  <2> HIDE DEF r
  <2>6. DOMAIN r.peers = DOMAIN t.peers \ {h} /\ IsFiniteSet(DOMAIN t.peers)
    BY <2>5 DEF Sound
  <2>7. Cardinality(DOMAIN r.peers) = Cardinality(DOMAIN t.peers) - 1
    BY <2>2, <2>6, FS_RemoveElement
  <2>8. Cardinality(DOMAIN r.peers) <= MAX_PEERS
    BY <1>1, <2>7, OptionTypes
  <2>9. Fresh(r, n)
    BY <2>5 DEF Fresh
  <2>10. QED
    BY <1>2, <2>1, <2>3, <2>4, <2>8, <2>9 DEF Healthy
<1>5. QED
  BY <1>1, <1>3, <1>4, OptionTypes

(* Torrent::announce first counts a completion, which touches nothing else.*)
Tallied(t, req) == IF Completes(t, req) THEN [t EXCEPT !.completed = Inc(@)] ELSE t

(* Counting a completion leaves the peers and the other counters alone.    *)
LEMMA TalliedHealthy ==
  ASSUME NEW t, NEW n, Healthy(t, n), NEW req
  PROVE  /\ Healthy(Tallied(t, req), n)
         /\ Tallied(t, req).peers = t.peers
         /\ Tallied(t, req).timeouts = t.timeouts
         /\ Tallied(t, req).completed
              = IF Completes(t, req) THEN Inc(t.completed) ELSE t.completed
<1> DEFINE r == Tallied(t, req)
<1>1. IsTorrent(t)
  BY DEF Healthy, Sound
<1>2. /\ r.peers = t.peers /\ r.timeouts = t.timeouts
      /\ r.leechers = t.leechers /\ r.seeders = t.seeders
      /\ r.completed = IF Completes(t, req) THEN Inc(t.completed) ELSE t.completed
      /\ r \in [peers : {r.peers}, timeouts : {r.timeouts}, leechers : {r.leechers},
                seeders : {r.seeders}, completed : {r.completed}]
  BY <1>1 DEF Tallied, IsTorrent
<1> HIDE DEF r
<1>3. r.completed \in 0..UINT_MAX
  BY <1>1, <1>2, OptionTypes DEF Inc, IsTorrent
<1>4. IsTorrent(r)
  BY <1>1, <1>2, <1>3 DEF IsTorrent
<1>5. Indexed(r) /\ Counted(r) /\ Sorted(r)
  BY <1>2 DEF Healthy, Sound, Indexed, Counted, Sorted, Leechers, Seeders
<1>6. Healthy(r, n)
  BY <1>2, <1>4, <1>5 DEF Healthy, Sound, Fresh
<1>7. QED
  BY <1>2, <1>6 DEF r

(* Torrent::announce by cases, with the lemmas' names for its parts.       *)
LEMMA AnnounceCases ==
  ASSUME NEW t, NEW n, NEW req
  PROVE  Announce(t, req, n)
           = IF req.event = "stopped"
               THEN Less(Tallied(t, req), Key(req.addr))
               ELSE EvictOldest(CreateOrUpdatePeer(Tallied(t, req), req, n))
<1>1. Tallied(t, req).peers = t.peers
      \/ req.event = "completed"
  BY DEF Tallied, Completes
<1>2. req.event = "stopped" => Tallied(t, req) = t
  BY DEF Tallied, Completes
<1>3. QED
  BY <1>1, <1>2 DEF Announce, Less, Tallied

(* Torrent::announce as a whole preserves the invariant of a torrent.      *)
LEMMA AnnounceHealthy ==
  ASSUME NEW t, NEW n \in Nat, Healthy(t, n), NEW req, IsRequest(req)
  PROVE  Healthy(Announce(t, req, n), n)
<1> DEFINE c == Tallied(t, req)
<1>1. Healthy(c, n)
  BY TalliedHealthy
<1> HIDE DEF c
<1>2. CASE req.event = "stopped"
  BY <1>1, <1>2, AnnounceCases, LessHealthy DEF c
<1>3. CASE req.event # "stopped"
  <2> DEFINE r == CreateOrUpdatePeer(c, req, n)
  <2>1. Sound(r) /\ Cardinality(DOMAIN r.peers) <= MAX_PEERS + 1 /\ Fresh(r, n)
    BY <1>1, CreateOrUpdatePeerSound
  <2>2. Announce(t, req, n) = EvictOldest(r)
    BY <1>3, AnnounceCases DEF c
  <2> HIDE DEF r
  <2>3. Healthy(EvictOldest(r), n)
    BY <2>1, EvictOldestHealthy
  <2>4. QED
    BY <2>2, <2>3
<1>4. QED
  BY <1>2, <1>3

(* An empty torrent satisfies the invariant.                               *)
LEMMA NewTorrentHealthy ==
  ASSUME NEW n \in Nat
  PROVE  Healthy(NewTorrent, n)
<1> DEFINE t == NewTorrent
<1>1. /\ t.peers = [k \in {} |-> 0] /\ t.timeouts = << >>
      /\ t.leechers = 0 /\ t.seeders = 0 /\ t.completed = 0
      /\ t \in [peers : {t.peers}, timeouts : {t.timeouts},
                leechers : {0}, seeders : {0}, completed : {0}]
  BY DEF NewTorrent
<1> HIDE DEF t
<1>2. DOMAIN t.peers = {} /\ DOMAIN t.timeouts = {} /\ t.timeouts \in Seq(DOMAIN t.peers)
  BY <1>1
<1>3. IsTorrent(t)
  <2>1. t.peers = [k \in DOMAIN t.peers |-> t.peers[k]]
    BY <1>1, <1>2
  <2>2. 0 \in 0..UINT_MAX
    BY OptionTypes
  <2>3. QED
    BY <1>1, <1>2, <2>1, <2>2 DEF IsTorrent
<1>4. Indexed(t) /\ Sorted(t)
  BY <1>2 DEF Indexed, Sorted, IsInjective, ToSet
<1>5. Counted(t)
  BY <1>1, <1>2, FS_EmptySet DEF Counted, Leechers, Seeders
<1>6. IsFiniteSet(DOMAIN t.peers) /\ Cardinality(DOMAIN t.peers) = 0
  BY <1>2, FS_EmptySet
<1>7. Healthy(t, n)
  BY <1>2, <1>3, <1>4, <1>5, <1>6, OptionTypes DEF Healthy, Sound, Fresh
<1>8. QED
  BY <1>7 DEF t

(* The clock may go on.                                                    *)
LEMMA LaterHealthy ==
  ASSUME NEW t, NEW n \in Nat, Healthy(t, n)
  PROVE  Healthy(t, n + 1)
<1>1. \A x \in DOMAIN t.peers : t.peers[x].timeout_ts \in Nat
  BY DEF Healthy, Sound, IsTorrent, IsPeer
<1>2. QED
  BY <1>1, OptionTypes DEF Healthy, Fresh

(* Torrent::removePeer counts down, and leaves completed_ alone.           *)
LEMMA RemovePeerCountsDown ==
  ASSUME NEW t, Sound(t), NEW k \in DOMAIN t.peers, NEW r, r = RemovePeer(t, k)
  PROVE  /\ r.leechers <= t.leechers
         /\ r.seeders <= t.seeders
         /\ r.completed = t.completed
<1>0. IsTorrent(t)
  BY DEF Sound
<1>1. /\ r.peers = [x \in DOMAIN t.peers \ {k} |-> t.peers[x]]
      /\ r.timeouts = RemoveFirst(t.timeouts, k)
      /\ r.leechers = IF t.peers[k].left = 0 THEN t.leechers ELSE Dec(t.leechers)
      /\ r.seeders = IF t.peers[k].left = 0 THEN Dec(t.seeders) ELSE t.seeders
      /\ r.completed = t.completed
      /\ r \in [peers : {r.peers}, timeouts : {r.timeouts}, leechers : {r.leechers},
                seeders : {r.seeders}, completed : {r.completed}]
  BY <1>0, RemovePeerFields
<1>2. /\ t.leechers \in Nat /\ t.seeders \in Nat
      /\ IsFiniteSet(Leechers(t)) /\ IsFiniteSet(Seeders(t))
      /\ t.leechers = Cardinality(Leechers(t)) /\ t.seeders = Cardinality(Seeders(t))
  BY CountersSum DEF Sound, Counted
<1>3. CASE t.peers[k].left = 0
  <2>1. Seeders(t) # {}
    BY <1>3 DEF Seeders
  <2>2. t.seeders # 0
    BY <1>2, <2>1, FS_EmptySet
  <2>3. QED
    BY <1>1, <1>2, <1>3, <2>2 DEF Dec
<1>4. CASE t.peers[k].left # 0
  <2>1. Leechers(t) # {}
    BY <1>4 DEF Leechers
  <2>2. t.leechers # 0
    BY <1>2, <2>1, FS_EmptySet
  <2>3. QED
    BY <1>1, <1>2, <1>4, <2>2 DEF Dec
<1>5. QED
  BY <1>3, <1>4

(* Who may leave by Torrent::announce: the peer that stops, or one of a    *)
(* full torrent when somebody new comes.                                   *)
LEMMA AnnounceKeeps ==
  ASSUME NEW t, NEW n \in Nat, Healthy(t, n), NEW req, IsRequest(req),
         NEW x \in DOMAIN t.peers, x \notin DOMAIN Announce(t, req, n).peers
  PROVE  \/ req.event = "stopped" /\ Key(req.addr) = x
         \/ /\ req.event # "stopped"
            /\ Cardinality(DOMAIN t.peers) = MAX_PEERS
            /\ Key(req.addr) \notin DOMAIN t.peers
<1> DEFINE k == Key(req.addr)
           c == Tallied(t, req)
           u == Less(c, k)
<1>1. Healthy(c, n) /\ IsTorrent(c) /\ c.peers = t.peers
  BY TalliedHealthy DEF Healthy, Sound
<1>2. DOMAIN u.peers = DOMAIN t.peers \ {k}
  BY <1>1, UpdateIsReinsert
<1> HIDE DEF c
<1>3. CASE req.event = "stopped"
  <2>1. Announce(t, req, n) = u
    BY <1>3, AnnounceCases DEF c
  <2>2. QED
    BY <1>2, <1>3, <2>1
<1>4. CASE req.event # "stopped"
  <2> DEFINE r == CreateOrUpdatePeer(c, req, n)
  <2>1. Announce(t, req, n) = EvictOldest(r)
    BY <1>4, AnnounceCases DEF c
  <2>2. Inserted(r, u, k, req, n)
    BY <1>1, UpdateIsReinsert
  <2>3. Sound(r) /\ Cardinality(DOMAIN r.peers) <= MAX_PEERS + 1 /\ Fresh(r, n)
    BY <1>1, CreateOrUpdatePeerSound
  <2>4. DOMAIN r.peers = DOMAIN t.peers \cup {k}
    BY <1>2, <2>2 DEF Inserted
  <2> HIDE DEF r, k, u
  <2>5. Add(r.leechers, r.seeders) = Cardinality(DOMAIN r.peers)
    BY <2>3, EvictOldestHealthy
  <2>6. Cardinality(DOMAIN r.peers) > MAX_PEERS
    <3>1. ASSUME ~ (Cardinality(DOMAIN r.peers) > MAX_PEERS) PROVE FALSE
      <4>1. EvictOldest(r) = r
        BY <2>5, <3>1 DEF EvictOldest
      <4>2. QED
        BY <2>1, <2>4, <4>1
    <3>2. QED
      BY <3>1
  <2>7. IsFiniteSet(DOMAIN t.peers) /\ Cardinality(DOMAIN t.peers) <= MAX_PEERS
        /\ Cardinality(DOMAIN t.peers) \in Nat
    BY FS_CardinalityType DEF Healthy, Sound
  <2>8. k \notin DOMAIN t.peers
    <3>1. ASSUME k \in DOMAIN t.peers PROVE FALSE
      <4>1. DOMAIN r.peers = DOMAIN t.peers
        BY <2>4, <3>1
      <4>2. QED
        BY <2>6, <2>7, <4>1, OptionTypes
    <3>2. QED
      BY <3>1
  <2>9. Cardinality(DOMAIN r.peers) = Cardinality(DOMAIN t.peers) + 1
    <3>1. IsFiniteSet(DOMAIN t.peers) /\ k \notin DOMAIN t.peers
      BY <2>7, <2>8
    <3>2. Cardinality(DOMAIN t.peers \cup {k}) = Cardinality(DOMAIN t.peers) + 1
      BY <3>1, FS_AddElement
    <3>3. QED
      BY <2>4, <3>2
  <2>10. QED
    BY <1>4, <2>6, <2>7, <2>8, <2>9, OptionTypes DEF k
<1>5. QED
  BY <1>3, <1>4

(* The table of peers without one of them, and with an announcing one.     *)
Dropped(f, k) == [x \in DOMAIN f \ {k} |-> f[x]]

Entered(f, req, n) ==
  [x \in DOMAIN f \cup {Key(req.addr)} |-> IF x = Key(req.addr) THEN PeerOf(req, n) ELSE f[x]]

(* What Torrent::announce does to the table: a stop drops the peer; any    *)
(* other event enters it, and one that announced longest ago makes room.   *)
TableStep(t, u, req, n) ==
  \/ /\ req.event = "stopped"
     /\ u.peers = Dropped(t.peers, Key(req.addr))
     /\ u.completed = t.completed
  \/ /\ req.event # "stopped"
     /\ u.completed = IF Completes(t, req) THEN Inc(t.completed) ELSE t.completed
     /\ LET w == Entered(t.peers, req, n) IN
          \/ Cardinality(DOMAIN w) <= MAX_PEERS /\ u.peers = w
          \/ /\ Cardinality(DOMAIN w) > MAX_PEERS
             /\ \E h \in DOMAIN w : /\ \A x \in DOMAIN w : w[h].timeout_ts <= w[x].timeout_ts
                                    /\ u.peers = Dropped(w, h)

(* Torrent::removePeer, if the peer is there.                              *)
LEMMA LessDrops ==
  ASSUME NEW t, IsTorrent(t), NEW k
  PROVE  /\ Less(t, k).peers = Dropped(t.peers, k)
         /\ Less(t, k).completed = t.completed
<1>1. CASE k \in DOMAIN t.peers
  <2>1. Less(t, k) = RemovePeer(t, k)
    BY <1>1 DEF Less
  <2>2. /\ RemovePeer(t, k).peers = [x \in DOMAIN t.peers \ {k} |-> t.peers[x]]
        /\ RemovePeer(t, k).completed = t.completed
    BY <1>1, RemovePeerFields
  <2> QED
    BY <2>1, <2>2 DEF Dropped
<1>2. CASE k \notin DOMAIN t.peers
  <2>1. DOMAIN t.peers \ {k} = DOMAIN t.peers /\ Less(t, k) = t
    BY <1>2 DEF Less
  <2>2. t.peers = [x \in DOMAIN t.peers |-> t.peers[x]]
    BY DEF IsTorrent
  <2> QED
    BY <2>1, <2>2 DEF Dropped
<1> QED
  BY <1>1, <1>2

(* Torrent::createOrUpdatePeer enters or refreshes the announcing peer.    *)
LEMMA CreateEnters ==
  ASSUME NEW t, IsTorrent(t), NEW req, NEW n
  PROVE  CreateOrUpdatePeer(t, req, n).peers = Entered(t.peers, req, n)
<1> DEFINE k == Key(req.addr)
           u == Less(t, k)
           r == CreateOrUpdatePeer(t, req, n)
<1>1. /\ DOMAIN u.peers = DOMAIN t.peers \ {k}
      /\ \A x \in DOMAIN u.peers : u.peers[x] = t.peers[x]
      /\ Inserted(r, u, k, req, n)
  BY UpdateIsReinsert
<1>2. r.peers = [x \in DOMAIN u.peers \cup {k} |->
                   IF x = k THEN PeerOf(req, n) ELSE u.peers[x]]
  BY <1>1 DEF Inserted
<1> HIDE DEF u, r
<1>3. r.peers = [x \in DOMAIN t.peers \cup {k} |->
                   IF x = k THEN PeerOf(req, n) ELSE t.peers[x]]
  BY <1>1, <1>2
<1> QED
  BY <1>3 DEF r, Entered

(* Torrent::announce as a whole.                                           *)
LEMMA AnnounceIsTableStep ==
  ASSUME NEW t, NEW n \in Nat, Healthy(t, n), NEW req, IsRequest(req),
         NEW s, s = Announce(t, req, n)
  PROVE  TableStep(t, s, req, n)
<1> DEFINE k == Key(req.addr)
           c == Tallied(t, req)
<1>1. /\ Healthy(c, n) /\ IsTorrent(c) /\ c.peers = t.peers
      /\ c.completed = IF Completes(t, req) THEN Inc(t.completed) ELSE t.completed
  BY TalliedHealthy DEF Healthy, Sound
<1> HIDE DEF c
<1>2. CASE req.event = "stopped"
  <2>1. s = Less(c, k)
    BY <1>2, AnnounceCases DEF c
  <2>2. c.completed = t.completed
    BY <1>1, <1>2 DEF Completes
  <2>3. s.peers = Dropped(t.peers, k) /\ s.completed = t.completed
    BY <1>1, <2>1, <2>2, LessDrops
  <2> QED
    BY <1>2, <2>3 DEF TableStep
<1>3. CASE req.event # "stopped"
  <2> DEFINE r == CreateOrUpdatePeer(c, req, n)
  <2>1. s = EvictOldest(r)
    BY <1>3, AnnounceCases DEF c
  <2>2. r.peers = Entered(t.peers, req, n)
    BY <1>1, CreateEnters
  <2>3. /\ Sound(r) /\ Cardinality(DOMAIN r.peers) <= MAX_PEERS + 1 /\ Fresh(r, n)
        /\ r.completed = c.completed
    BY <1>1, CreateOrUpdatePeerSound
  <2> HIDE DEF r
  <2>4. /\ Add(r.leechers, r.seeders) = Cardinality(DOMAIN r.peers)
        /\ Cardinality(DOMAIN r.peers) > MAX_PEERS => r.timeouts # << >>
    BY <2>3, EvictOldestHealthy
  <2>5. Cardinality(DOMAIN r.peers) \in Nat
    BY <2>3, CountersSum
  <2>6. CASE Cardinality(DOMAIN r.peers) > MAX_PEERS
    <3> DEFINE h == Head(r.timeouts)
    <3>1. /\ h \in DOMAIN r.peers
          /\ \A x \in DOMAIN r.peers : r.peers[h].timeout_ts <= r.peers[x].timeout_ts
      BY <2>3, <2>4, <2>6, FrontIsOldest
    <3>2. s = Less(r, h)
      BY <2>1, <2>4, <2>6, <3>1 DEF EvictOldest, Less
    <3> HIDE DEF h
    <3>3. s.peers = Dropped(r.peers, h) /\ s.completed = c.completed
      BY <2>3, <3>2, LessDrops DEF Sound
    <3> QED
      BY <1>1, <1>3, <2>2, <2>6, <3>1, <3>3 DEF TableStep
  <2>7. CASE ~ (Cardinality(DOMAIN r.peers) > MAX_PEERS)
    <3>1. s = r
      BY <2>1, <2>4, <2>7 DEF EvictOldest
    <3>2. Cardinality(DOMAIN r.peers) <= MAX_PEERS
      BY <2>5, <2>7, OptionTypes
    <3> QED
      BY <1>1, <1>3, <2>2, <2>3, <3>1, <3>2 DEF TableStep
  <2> QED
    BY <2>6, <2>7
<1> QED
  BY <1>2, <1>3

(* Torrent::announce registers nobody but the client that announces.       *)
LEMMA AnnounceRegisters ==
  ASSUME NEW t, NEW n \in Nat, Healthy(t, n), NEW req, IsRequest(req),
         NEW r, r = Announce(t, req, n), NEW x \in DOMAIN r.peers
  PROVE  \/ r.peers[x].addr = req.addr /\ r.peers[x].peerid = req.peerid
         \/ x \in DOMAIN t.peers /\ r.peers[x] = t.peers[x]
<1>1. TableStep(t, r, req, n)
  BY AnnounceIsTableStep
<1>2. CASE r.peers = Dropped(t.peers, Key(req.addr))
  BY <1>2 DEF Dropped
<1> DEFINE w == Entered(t.peers, req, n)
<1>3. \A y \in DOMAIN w : \/ w[y].addr = req.addr /\ w[y].peerid = req.peerid
                          \/ y \in DOMAIN t.peers /\ w[y] = t.peers[y]
  BY DEF Entered, PeerOf
<1>4. CASE r.peers = w
  BY <1>3, <1>4
<1>5. ASSUME NEW h, r.peers = Dropped(w, h)
      PROVE  \/ r.peers[x].addr = req.addr /\ r.peers[x].peerid = req.peerid
             \/ x \in DOMAIN t.peers /\ r.peers[x] = t.peers[x]
  <2>1. x \in DOMAIN w /\ r.peers[x] = w[x]
    BY <1>5 DEF Dropped
  <2> QED
    BY <1>3, <2>1
<1> QED
  BY <1>1, <1>2, <1>4, <1>5 DEF TableStep

-----------------------------------------------------------------------------
(* The peers of a response.                                                *)

(* The n-th position is the one whose rank is n.                           *)
LEMMA NthRank ==
  ASSUME NEW P \in SUBSET Int, IsFiniteSet(P)
  PROVE  /\ Cardinality(P) \in Nat
         /\ \A i \in P : Rank(P, i) \in 1..Cardinality(P) /\ Nth(P, Rank(P, i)) = i
         /\ \A n \in 1..Cardinality(P) : Nth(P, n) \in P /\ Rank(P, Nth(P, n)) = n
         /\ \A i, j \in P : i < j => Rank(P, i) < Rank(P, j)
<1> DEFINE N == Cardinality(P)
           Upto(i) == {j \in P : j <= i}
           rank == [i \in P |-> Rank(P, i)]
<1>1. \A i \in P : i \in Int
  OBVIOUS
<1>2. N \in Nat
  BY FS_CardinalityType
<1>3. \A i \in P : Upto(i) \in SUBSET P /\ i \in Upto(i)
  BY <1>1
<1>4. ASSUME NEW i \in P, NEW j \in P, i < j
      PROVE  Upto(i) \in SUBSET Upto(j) /\ j \notin Upto(i)
  <2>1. i \in Int /\ j \in Int
    BY <1>1
  <2>2. j \notin Upto(i)
    BY <1>4, <2>1
  <2>3. ASSUME NEW x \in Upto(i) PROVE x \in Upto(j)
    <3>1. x \in P /\ x \in Int /\ x <= i
      BY <1>1
    <3>2. x <= j
      BY ONLY <1>4, <2>1, <3>1
    <3>3. QED
      BY <3>1, <3>2
  <2>4. QED
    BY <2>2, <2>3
<1>5. \A i \in P : Rank(P, i) = Cardinality(Upto(i)) /\ rank[i] = Rank(P, i)
  BY DEF Rank
<1> HIDE DEF Upto, N, rank
<1>6. ASSUME NEW i \in P
      PROVE  IsFiniteSet(Upto(i)) /\ Cardinality(Upto(i)) \in 1..N
  <2>1. IsFiniteSet(Upto(i)) /\ Cardinality(Upto(i)) <= N
    BY <1>2, <1>3, FS_Subset DEF N
  <2>2. Cardinality(Upto(i)) \in Nat /\ Cardinality(Upto(i)) # 0
    BY <1>3, <2>1, FS_CardinalityType, FS_EmptySet
  <2>3. QED
    BY <1>2, <2>1, <2>2
<1>7. ASSUME NEW i \in P, NEW j \in P, i < j
      PROVE  Cardinality(Upto(i)) < Cardinality(Upto(j))
  <2>1. Cardinality(Upto(i)) \in Nat /\ Cardinality(Upto(j)) \in Nat /\ IsFiniteSet(Upto(j))
    BY <1>2, <1>6
  <2>2. Cardinality(Upto(i)) <= Cardinality(Upto(j)) /\ Cardinality(Upto(i)) # Cardinality(Upto(j))
    BY <1>3, <1>4, <1>7, <2>1, FS_Subset
  <2>3. QED
    BY <2>1, <2>2
<1>8. rank \in [P -> 1..N] /\ \A i, j \in P : i < j => rank[i] < rank[j]
  <2>1. \A i \in P : Rank(P, i) \in 1..N
    BY <1>5, <1>6
  <2>2. QED
    BY <1>5, <1>7, <2>1 DEF rank
<1>9. ASSUME NEW i \in P, NEW j \in P, rank[i] = rank[j]
      PROVE  i = j
  <2>1. rank[i] \in Int /\ rank[j] \in Int
    BY <1>2, <1>8
  <2>2. ~ (i < j) /\ ~ (j < i)
    BY <1>8, <1>9, <2>1
  <2>3. QED
    BY <1>1, <2>2
<1>10. rank \in Surjection(P, 1..N)
  <2>1. rank \in Injection(P, 1..N)
    BY <1>8, <1>9 DEF Injection, IsInjective
  <2>2. IsFiniteSet(1..N) /\ Cardinality(1..N) = N
    BY <1>2, FS_Interval
  <2>3. QED
    BY <2>1, <2>2, FS_Injection DEF N
<1>11. ASSUME NEW n \in 1..N
       PROVE  Nth(P, n) \in P /\ Rank(P, Nth(P, n)) = n
  <2>1. \E i \in P : Rank(P, i) = n
    BY <1>5, <1>10 DEF Surjection
  <2>2. QED
    BY <2>1 DEF Nth
<1>12. ASSUME NEW i \in P
       PROVE  Rank(P, i) \in 1..N /\ Nth(P, Rank(P, i)) = i
  <2>1. Rank(P, i) \in 1..N
    BY <1>5, <1>6
  <2>2. Nth(P, Rank(P, i)) \in P /\ Rank(P, Nth(P, Rank(P, i))) = Rank(P, i)
    BY <1>11, <2>1
  <2>3. QED
    BY <1>5, <1>9, <2>1, <2>2
<1>13. QED
  BY <1>2, <1>5, <1>8, <1>11, <1>12 DEF N

(* The positions of a list are finitely many.                              *)
LEMMA PositionsFinite ==
  ASSUME NEW c \in Nat, NEW P \in SUBSET (1..c)
  PROVE  P \in SUBSET Int /\ IsFiniteSet(P)
<1>1. IsFiniteSet(1..c)
  BY FS_Interval
<1>2. IsFiniteSet(P)
  BY ONLY <1>1, P \in SUBSET (1..c), FS_Subset
<1>3. \A x \in P : x \in Int
  OBVIOUS
<1> QED
  BY <1>2, <1>3

(* m leads along the positions P in increasing order.                      *)
Along(m, P) ==
  /\ Cardinality(P) \in Nat
  /\ m \in [1..Cardinality(P) -> P]
  /\ \A i \in P : \E n \in 1..Cardinality(P) : m[n] = i
  /\ \A a, b \in 1..Cardinality(P) : a < b => m[a] < m[b]

(* A walk over a list that skips elements: it meets every position of P,   *)
(* in increasing order, and no other.                                      *)
LEMMA WalkInOrder ==
  ASSUME NEW S, NEW s \in Seq(S), NEW P \in SUBSET DOMAIN s
  PROVE  \E m : Along(m, P) /\ At(s, P) = [n \in 1..Cardinality(P) |-> s[m[n]]]
<1> DEFINE N == Cardinality(P)
           m == [n \in 1..N |-> Nth(P, n)]
<1>1. Len(s) \in Nat /\ DOMAIN s = 1..Len(s)
  OBVIOUS
<1>2. P \in SUBSET Int /\ IsFiniteSet(P)
  BY <1>1, PositionsFinite
<1>3. /\ N \in Nat
      /\ \A i \in P : Rank(P, i) \in 1..N /\ Nth(P, Rank(P, i)) = i
      /\ \A n \in 1..N : Nth(P, n) \in P /\ Rank(P, Nth(P, n)) = n
      /\ \A i, j \in P : i < j => Rank(P, i) < Rank(P, j)
  BY <1>2, NthRank
<1>4. At(s, P) = [n \in 1..N |-> s[m[n]]]
  BY DEF At
<1> HIDE DEF N
<1>5. m \in [1..N -> P] /\ \A n \in 1..N : m[n] = Nth(P, n)
  BY <1>3
<1> HIDE DEF m
<1>6. \A i \in P : \E n \in 1..N : m[n] = i
  BY <1>3, <1>5
<1>7. ASSUME NEW a \in 1..N, NEW b \in 1..N, a < b
      PROVE  m[a] < m[b]
  <2>1. m[a] \in P /\ m[b] \in P /\ Rank(P, m[a]) = a /\ Rank(P, m[b]) = b
    BY <1>3, <1>5
  <2>2. ~ (m[b] < m[a]) /\ m[a] # m[b]
    BY <1>3, <1>7, <2>1
  <2>3. m[a] \in Int /\ m[b] \in Int
    BY <1>2, <2>1
  <2>4. QED
    BY <2>2, <2>3
<1>8. Along(m, P)
  BY <1>3, <1>5, <1>6, <1>7 DEF N, Along
<1>9. QED
  BY <1>4, <1>8 DEF N

(* The positions Q are those of P and, behind them, e.                     *)
OneMore(P, Q, e) ==
  /\ Cardinality(P) \in Nat
  /\ Cardinality(Q) = Cardinality(P) + 1
  /\ \A n \in 1..Cardinality(P) : Nth(Q, n) = Nth(P, n)
  /\ Nth(Q, Cardinality(P) + 1) = e

(* A walk that meets one position more, behind the others.                 *)
LEMMA NthOfMore ==
  ASSUME NEW c \in Nat, NEW P \in SUBSET (1..c), NEW Q, Q = P \cup {c + 1}
  PROVE  OneMore(P, Q, c + 1)
<1> DEFINE N == Cardinality(P)
<1>1. P \in SUBSET Int /\ IsFiniteSet(P)
  BY PositionsFinite
<1>2. c + 1 \in Nat /\ Q \in SUBSET (1 .. c + 1) /\ c + 1 \notin P /\ c + 1 \in Q
  OBVIOUS
<1>3. Q \in SUBSET Int /\ IsFiniteSet(Q)
  BY <1>2, PositionsFinite
<1>4. N \in Nat /\ Cardinality(Q) = N + 1
  BY <1>1, <1>2, FS_AddElement, FS_CardinalityType
<1>5. \A i \in Q : Nth(Q, Rank(Q, i)) = i
  BY <1>3, NthRank
<1>6. \A n \in 1..N : Nth(P, n) \in P /\ Rank(P, Nth(P, n)) = n
  BY <1>1, NthRank
<1>7. ASSUME NEW i \in P PROVE Rank(Q, i) = Rank(P, i)
  <2>1. ~ (c + 1 <= i)
    BY <1>1
  <2>2. {j \in Q : j <= i} = {j \in P : j <= i}
    BY <2>1
  <2>3. QED
    BY <2>2 DEF Rank
<1>8. Rank(Q, c + 1) = N + 1
  <2>1. \A j \in Q : j <= c + 1
    OBVIOUS
  <2>2. {j \in Q : j <= c + 1} = Q
    BY <2>1
  <2>3. QED
    BY <1>4, <2>2 DEF Rank
<1>9. ASSUME NEW n \in 1..N PROVE Nth(Q, n) = Nth(P, n)
  <2>1. Nth(P, n) \in Q /\ Rank(Q, Nth(P, n)) = n
    BY <1>6, <1>7
  <2>2. QED
    BY <1>5, <2>1
<1>10. QED
  BY <1>2, <1>4, <1>5, <1>8, <1>9 DEF OneMore

(* What std::clamp makes of num_want_, also when it is negative as an int. *)
LEMMA ClampBounds ==
  ASSUME NEW req, IsRequest(req), NEW w, w = ClampNumWant(req.num_want)
  PROVE  /\ w \in Nat
         /\ MIN_NUMWANT <= w /\ w <= MAX_NUMWANT
         /\ w >= ToInt(req.num_want) \/ w = MAX_NUMWANT
<1>1. req.num_want \in Nat /\ ToInt(req.num_want) \in Int
  BY OptionTypes, OptionsAssumption DEF IsRequest, ToInt
<1> QED
  BY <1>1, OptionsAssumption DEF ClampNumWant

(* f lists the peers that a response names: n of those that the loop does  *)
(* not skip, none twice; if it leaves one out then it names as many as are *)
(* wanted, and none of them timed out earlier than the one left out.       *)
Names(f, n, t, req) ==
  /\ n \in Nat
  /\ n <= ClampNumWant(req.num_want)
  /\ f \in [1..n -> DOMAIN t.peers]
  /\ \A i \in 1..n : Eligible(req, t.peers[f[i]])
  /\ \A i, j \in 1..n : f[i] = f[j] => i = j
  /\ \A k \in DOMAIN t.peers :
       Eligible(req, t.peers[k]) /\ (\A i \in 1..n : f[i] # k) =>
         /\ n = ClampNumWant(req.num_want)
         /\ \A i \in 1..n : t.peers[k].timeout_ts <= t.peers[f[i]].timeout_ts

(* The loop over timeouts_ from its back, which stops after num_want_.     *)
LEMMA PeerListNames ==
  ASSUME NEW t, Sound(t), NEW req, IsRequest(req), NEW reply, reply = PeerList(t, req)
  PROVE  \E n, f : /\ Names(f, n, t, req)
                  /\ reply = [i \in 1..n |-> t.peers[f[i]].addr]
<1> DEFINE s == t.timeouts
           b == Reverse(s)
           P == {i \in DOMAIN b : Eligible(req, t.peers[b[i]])}
           N == Cardinality(P)
           w == ClampNumWant(req.num_want)
           n == IF N < w THEN N ELSE w
<1>1. /\ s \in Seq(DOMAIN t.peers) /\ Len(s) \in Nat /\ DOMAIN s = 1..Len(s)
      /\ IsInjective(s) /\ ToSet(s) = DOMAIN t.peers /\ Sorted(t)
  BY DEF Sound, IsTorrent, Indexed
<1>2. /\ b \in Seq(DOMAIN t.peers) /\ DOMAIN b = 1..Len(s)
      /\ \A i \in 1..Len(s) : b[i] = s[(Len(s) - i) + 1]
  <2>1. b = [i \in 1..Len(s) |-> s[(Len(s) - i) + 1]]
    BY DEF Reverse
  <2>2. \A i \in 1..Len(s) : (Len(s) - i) + 1 \in 1..Len(s)
    BY <1>1
  <2>3. \A i \in 1..Len(s) : s[(Len(s) - i) + 1] \in DOMAIN t.peers
    BY <1>1, <2>2
  <2>4. b \in [1..Len(s) -> DOMAIN t.peers]
    BY <2>1, <2>3
  <2>5. QED
    BY <1>1, <2>1, <2>4
<1>3. w \in Nat
  BY ClampBounds
<1>4. P \in SUBSET DOMAIN b
  OBVIOUS
<1>5. reply = LET g == At(b, P)
                  l == IF Len(g) < w THEN Len(g) ELSE w
              IN  [i \in 1..l |-> t.peers[g[i]].addr]
  BY DEF PeerList, Filter
<1> HIDE DEF b, w
<1>6. P \in SUBSET DOMAIN b /\ \A i \in DOMAIN b : i \in P <=> Eligible(req, t.peers[b[i]])
  OBVIOUS
<1> HIDE DEF P
<1>walk. PICK m : Along(m, P) /\ At(b, P) = [j \in 1..Cardinality(P) |-> b[m[j]]]
  BY <1>2, <1>6, WalkInOrder
<1>7. /\ m \in [1..N -> P]
      /\ At(b, P) = [j \in 1..N |-> b[m[j]]]
      /\ \A i \in P : \E j \in 1..N : m[j] = i
      /\ \A x, y \in 1..N : x < y => m[x] < m[y]
  BY <1>walk DEF Along
<1>8. N \in Nat
  BY <1>walk DEF Along
<1> HIDE DEF N
<1>9. n \in Nat /\ n <= N /\ n <= w /\ (n < N => n = w)
  BY <1>3, <1>8
<1> DEFINE g == [j \in 1..N |-> b[m[j]]]
           f == [i \in 1..n |-> b[m[i]]]
<1>10. At(b, P) = g /\ Len(g) = N
  BY <1>7, <1>8
<1>11. reply = [i \in 1..n |-> t.peers[g[i]].addr]
  BY <1>5, <1>10
<1> HIDE DEF n
<1>12. reply = [i \in 1..n |-> t.peers[f[i]].addr]
  <2>1. \A i \in 1..n : i \in 1..N
    BY <1>8, <1>9
  <2>2. \A i \in 1..n : g[i] = f[i]
    BY <2>1
  <2> HIDE DEF f, g
  <2>3. QED
    BY <1>11, <2>2
<1>13. \A i \in 1..n : i \in 1..N /\ m[i] \in P /\ f[i] = b[m[i]]
  BY <1>7, <1>8, <1>9
<1> HIDE DEF f, g
<1>14. \A i \in 1..n : m[i] \in DOMAIN b /\ f[i] \in DOMAIN t.peers /\ Eligible(req, t.peers[f[i]])
  BY <1>2, <1>6, <1>13
<1>15. f \in [1..n -> DOMAIN t.peers]
  BY <1>14 DEF f
<1>16. ASSUME NEW i \in DOMAIN b, NEW j \in DOMAIN b, b[i] = b[j]
       PROVE  i = j
  <2>1. s[(Len(s) - i) + 1] = s[(Len(s) - j) + 1] /\ i \in 1..Len(s) /\ j \in 1..Len(s)
    BY <1>2, <1>16
  <2>2. (Len(s) - i) + 1 \in 1..Len(s) /\ (Len(s) - j) + 1 \in 1..Len(s)
    BY <1>1, <2>1
  <2>3. (Len(s) - i) + 1 = (Len(s) - j) + 1
    BY <1>1, <2>1, <2>2 DEF IsInjective
  <2>4. QED
    BY <1>1, <2>1, <2>3
<1>17. ASSUME NEW i \in 1..n, NEW j \in 1..n, f[i] = f[j]
       PROVE  i = j
  <2>1. m[i] = m[j]
    BY <1>13, <1>14, <1>16, <1>17
  <2>2. m[i] \in Int /\ i \in 1..N /\ j \in 1..N
    BY <1>1, <1>2, <1>13, <1>14
  <2>3. ~ (i < j) /\ ~ (j < i)
    BY <1>7, <2>1, <2>2
  <2>4. QED
    BY <1>9, <2>3
<1>18. ASSUME NEW k \in DOMAIN t.peers, Eligible(req, t.peers[k]), \A i \in 1..n : f[i] # k
       PROVE  n = w /\ \A i \in 1..n : t.peers[k].timeout_ts <= t.peers[f[i]].timeout_ts
  <2>1. PICK p \in 1..Len(s) : s[p] = k
    BY <1>1 DEF ToSet
  <2> DEFINE q == (Len(s) - p) + 1
  <2>2. q \in 1..Len(s) /\ (Len(s) - q) + 1 = p
    BY <1>1
  <2>3. q \in DOMAIN b /\ b[q] = k
    BY <1>2, <2>1, <2>2
  <2> HIDE DEF q
  <2>4. PICK c \in 1..N : m[c] = q
    BY <1>6, <1>7, <1>18, <2>3
  <2>5. ~ (c <= n)
    <3>1. SUFFICES ASSUME c <= n PROVE FALSE
      OBVIOUS
    <3>2. c \in 1..n
      BY <1>8, <1>9, <3>1
    <3>3. f[c] = k
      BY <1>13, <2>3, <2>4, <3>2
    <3>4. QED
      BY <1>18, <3>2, <3>3
  <2>6. n < c /\ n < N
    BY <1>8, <1>9, <2>5
  <2>7. ASSUME NEW i \in 1..n PROVE t.peers[k].timeout_ts <= t.peers[f[i]].timeout_ts
    <3>1. i \in 1..N /\ i < c
      BY <1>8, <1>9, <2>6
    <3>2. m[i] < q
      BY <1>7, <2>4, <3>1
    <3> DEFINE r == (Len(s) - m[i]) + 1
    <3>3. m[i] \in 1..Len(s) /\ f[i] = b[m[i]] /\ b[m[i]] = s[r]
      BY <1>2, <1>13, <1>14
    <3>4. r \in 1..Len(s) /\ p <= r
      BY <1>1, <2>2, <3>2, <3>3
    <3> HIDE DEF r
    <3>5. t.peers[s[p]].timeout_ts <= t.peers[s[r]].timeout_ts
      BY <1>1, <3>4 DEF Sorted
    <3>6. QED
      BY <2>1, <3>3, <3>5
  <2>8. QED
    BY <1>9, <2>6, <2>7
<1>19. Names(f, n, t, req)
  BY <1>9, <1>14, <1>15, <1>17, <1>18 DEF Names, w
<1>20. QED
  BY <1>12, <1>19

============================================================================
