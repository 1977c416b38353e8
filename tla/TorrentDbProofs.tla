-------------------------- MODULE TorrentDbProofs --------------------------
(***************************************************************************)
(* Proofs about module TorrentDb: for any torrents, requests and number of *)
(* threads, the torrents stay consistent while the cleanup thread, scrapes *)
(* and pages share the lock, and a reader sees counters go down only.      *)
(***************************************************************************)
EXTENDS TorrentDb, TorrentOpsProofs

(* The trie: each entry is a healthy torrent under its own key.            *)
EntryOK(e, k, n) ==
  /\ e = [hash |-> e.hash, path |-> e.path, swarm |-> e.swarm]
  /\ e.hash.type \in {"SHA1", "SHA256"}
  /\ torrentKey(e.hash) = k
  /\ Healthy(e.swarm, n)

DbOK(T, n) ==
  /\ T = [k \in DOMAIN T |-> T[k]]
  /\ IsFiniteSet(DOMAIN T)
  /\ \A k \in DOMAIN T : EntryOK(T[k], k, n)

(* The cleanup thread visits torrents that are there, at a time it read.   *)
CleanerOK(c, T, n) ==
  \/ c = Waiting
  \/ /\ c \in [op : {"cleanup"}, todo : {c.todo}, at : {c.at}, ts : {c.ts}]
     /\ c.todo \subseteq DOMAIN T
     /\ c.at = NoKey \/ c.at \in DOMAIN T
     /\ c.ts \in Nat /\ c.ts <= n

(* The counters of T have only gone down since those of was were read.     *)
Below(t, w) ==
  /\ t.leechers \in Nat /\ t.seeders \in Nat
  /\ w.leechers \in Nat /\ w.seeders \in Nat
  /\ t.leechers <= w.leechers
  /\ t.seeders <= w.seeders
  /\ t.completed = w.completed

Since(T, was) == \A k \in DOMAIN T : Below(T[k].swarm, was[k])

(* An item of a scrape lies between the counters of T and those of was.    *)
ItemOK(i, T, was) ==
  LET k == bytes(i.info_hash) IN
  /\ k \in DOMAIN T
  /\ i.leechers \in Nat /\ i.seeders \in Nat
  /\ T[k].swarm.leechers <= i.leechers /\ i.leechers <= was[k].leechers
  /\ T[k].swarm.seeders <= i.seeders /\ i.seeders <= was[k].seeders
  /\ i.completed = was[k].completed

(* Of the hashes asked for, todo is what is left, and items has those      *)
(* before that are in the trie, in their order.                            *)
Seen(asked, c, T) == {i \in 1..c : bytes(asked[i]) \in DOMAIN T}

Walked(asked, todo, items, T) ==
  LET c == Len(asked) - Len(todo)
      P == Seen(asked, c, T)
  IN  /\ Len(asked) \in Nat /\ c \in Nat
      /\ \A i \in 1..Len(todo) : todo[i] = asked[c + i]
      /\ Len(items) = Cardinality(P)
      /\ \A n \in 1..Len(items) : items[n].info_hash = asked[Nth(P, n)]

ScrapeOK(s, T) ==
  /\ s \in [op : {"scrape"}, asked : {s.asked}, todo : {s.todo}, leechers : {s.leechers},
            items : {s.items}, was : {s.was}]
  /\ \E S : s.todo \in Seq(S)
  /\ \E S : s.items \in Seq(S)
  /\ Since(T, s.was)
  /\ s.leechers # -1 =>
       /\ s.todo # << >>
       /\ bytes(Head(s.todo)) \in DOMAIN T
       /\ s.leechers \in Nat
       /\ T[bytes(Head(s.todo))].swarm.leechers <= s.leechers
       /\ s.leechers <= s.was[bytes(Head(s.todo))].leechers
  /\ \A i \in 1..Len(s.items) : ItemOK(s.items[i], T, s.was)
  /\ \E S : s.asked \in Seq(S)
  /\ Walked(s.asked, s.todo, s.items, T)

PeersOK(s) == s \in [op : {"peers"}, key : {s.key}, at : {s.at}]

(* The page of torrents: the n-th read of the torrent it is at is still    *)
(* above the counter, and the reads for the total are not above those for  *)
(* the row.  The rows are those of some torrents V that it has left, none  *)
(* of which it will visit again, and none shows more than there was.       *)
Rows(s, V) ==
  /\ s.rows.leechers <= Cardinality(Slots(LeechersOf(s.was), V))
  /\ s.rows.seeders <= Cardinality(Slots(SeedersOf(s.was), V))

RowsOK(s, T) ==
  /\ DOMAIN s.was = DOMAIN T
  /\ IsFiniteSet(DOMAIN T)
  /\ Since(T, s.was)
  /\ s.at # NoKey => s.at \notin s.todo
  /\ \E V \in SUBSET DOMAIN T :
       /\ V \cap s.todo = {}
       /\ s.at # NoKey => s.at \notin V
       /\ Rows(s, V)
  /\ Len(s.reads) >= 1 => s.reads[1] <= s.was[s.at].leechers
  /\ Len(s.reads) >= 2 => s.reads[2] <= s.was[s.at].seeders

StatOK(s, T) ==
  /\ s \in [op : {"stat"}, todo : {s.todo}, at : {s.at}, reads : {s.reads},
            rows : {s.rows}, total : {s.total}, was : {s.was}]
  /\ s.todo \subseteq DOMAIN T
  /\ s.at = NoKey \/ s.at \in DOMAIN T
  /\ s.reads \in Seq(Nat)
  /\ s.reads # << >> => s.at # NoKey
  /\ \A i \in 1..Len(s.reads) :
       (IF i % 2 = 1 THEN T[s.at].swarm.leechers ELSE T[s.at].swarm.seeders) <= s.reads[i]
  /\ \A i, j \in 1..Len(s.reads) : j = i + 2 => s.reads[j] <= s.reads[i]
  /\ s.rows \in [leechers : Nat, seeders : Nat]
  /\ s.total \in [leechers : Nat, seeders : Nat]
  /\ s.total.leechers <= s.rows.leechers
  /\ s.total.seeders <= s.rows.seeders
  /\ RowsOK(s, T)

ReaderOK(s, T) == s = Idle \/ ScrapeOK(s, T) \/ PeersOK(s) \/ StatOK(s, T)

IndInv ==
  /\ now \in 0..MaxTime
  /\ DbOK(torrents, now)
  /\ CleanerOK(cleaner, torrents, now)
  /\ reader = [r \in Readers |-> reader[r]]
  /\ \A r \in Readers : ReaderOK(reader[r], torrents)

-----------------------------------------------------------------------------
(* The counters of a torrent of the trie are numbers.                      *)
LEMMA CountersAreNumbers ==
  ASSUME NEW T, NEW n, DbOK(T, n), NEW k \in DOMAIN T
  PROVE  /\ T[k].swarm.leechers \in Nat
         /\ T[k].swarm.seeders \in Nat
<1>1. Sound(T[k].swarm)
  BY DEF DbOK, EntryOK, Healthy
<1> QED
  BY <1>1, CountersSum

(* Replacing the swarm of one torrent leaves the rest of the trie alone.   *)
Replaced(T, U, k, s) ==
  /\ U = [x \in DOMAIN U |-> U[x]]
  /\ DOMAIN U = DOMAIN T
  /\ U[k] = [hash |-> T[k].hash, path |-> T[k].path, swarm |-> s]
  /\ \A x \in DOMAIN T : x # k => U[x] = T[x]

(* The assignment to a torrent's swarm, entry by entry.                    *)
LEMMA AssignSwarm ==
  ASSUME NEW T, NEW n, DbOK(T, n), NEW k \in DOMAIN T, NEW s
  PROVE  Replaced(T, [T EXCEPT ![k].swarm = s], k, s)
<1>1. T = [x \in DOMAIN T |-> T[x]]
  BY DEF DbOK
<1>2. T[k] = [hash |-> T[k].hash, path |-> T[k].path, swarm |-> T[k].swarm]
  BY DEF DbOK, EntryOK
<1> DEFINE e == [T[k] EXCEPT !.swarm = s]
           U == [T EXCEPT ![k].swarm = s]
<1>3. U = [x \in DOMAIN T |-> IF x = k THEN e ELSE T[x]]
  BY <1>1
<1>4. e = [hash |-> T[k].hash, path |-> T[k].path, swarm |-> s]
  BY <1>2
<1> HIDE DEF e, U
<1>5. DOMAIN U = DOMAIN T /\ U[k] = e /\ \A x \in DOMAIN T : x # k => U[x] = T[x]
  BY <1>3
<1>6. U = [x \in DOMAIN U |-> U[x]]
  BY <1>3
<1>7. Replaced(T, U, k, s)
  BY <1>4, <1>5, <1>6 DEF Replaced
<1> QED
  BY <1>7 DEF U

(* The trie stays in order when the new swarm is.                          *)
LEMMA ReplaceSwarm ==
  ASSUME NEW T, NEW n, DbOK(T, n), NEW k \in DOMAIN T, NEW s, Healthy(s, n),
         NEW U, Replaced(T, U, k, s)
  PROVE  /\ DbOK(U, n)
         /\ U[k].swarm = s
<1>1. EntryOK(U[k], k, n) /\ U[k].swarm = s
  BY DEF Replaced, DbOK, EntryOK
<1>2. \A x \in DOMAIN U : EntryOK(U[x], x, n)
  BY <1>1 DEF Replaced, DbOK
<1>3. IsFiniteSet(DOMAIN U)
  BY DEF Replaced, DbOK
<1> QED
  BY <1>1, <1>2, <1>3 DEF DbOK, Replaced

(* The trie may grow older.                                                *)
LEMMA LaterDb ==
  ASSUME NEW T, NEW n \in Nat, DbOK(T, n)
  PROVE  DbOK(T, n + 1)
  BY LaterHealthy DEF DbOK, EntryOK

(* From T to U the same torrents are tracked, and counters only go down.   *)
GoesDown(T, U) ==
  /\ DOMAIN U = DOMAIN T
  /\ \A k \in DOMAIN T :
       /\ Below(U[k].swarm, T[k].swarm)

(* What a reader knows stays true when counters go down.                   *)
LEMMA ReaderSurvives ==
  ASSUME NEW T, NEW U, GoesDown(T, U), NEW s, ReaderOK(s, T)
  PROVE  ReaderOK(s, U)
<1>1. DOMAIN U = DOMAIN T /\ \A k \in DOMAIN T : Below(U[k].swarm, T[k].swarm)
  BY DEF GoesDown
<1>2. CASE ScrapeOK(s, T)
  <2>1. Since(U, s.was)
    <3>1. Since(T, s.was)
      BY <1>2 DEF ScrapeOK
    <3> QED
      BY ONLY <1>1, <3>1 DEF Since, Below
  <2>2. ASSUME NEW i \in 1..Len(s.items) PROVE ItemOK(s.items[i], U, s.was)
    <3>1. ItemOK(s.items[i], T, s.was)
      BY <1>2 DEF ScrapeOK
    <3> QED
      BY <1>1, <3>1 DEF ItemOK, Below
  <2>3. s.leechers # -1 =>
         /\ s.todo # << >>
         /\ bytes(Head(s.todo)) \in DOMAIN U
         /\ s.leechers \in Nat
         /\ U[bytes(Head(s.todo))].swarm.leechers <= s.leechers
         /\ s.leechers <= s.was[bytes(Head(s.todo))].leechers
    BY <1>1, <1>2 DEF ScrapeOK, Below
  <2>4. Walked(s.asked, s.todo, s.items, U)
    BY <1>1, <1>2 DEF ScrapeOK, Walked, Seen
  <2> QED
    BY <1>2, <2>1, <2>2, <2>3, <2>4 DEF ScrapeOK, ReaderOK
<1>3. CASE StatOK(s, T)
  <2>1. ASSUME NEW i \in 1..Len(s.reads)
        PROVE  (IF i % 2 = 1 THEN U[s.at].swarm.leechers ELSE U[s.at].swarm.seeders) <= s.reads[i]
    <3>1. s.reads \in Seq(Nat) /\ s.reads # << >> /\ s.at \in DOMAIN T /\ s.reads[i] \in Nat
      BY <1>3, <2>1 DEF StatOK
    <3>2. (IF i % 2 = 1 THEN T[s.at].swarm.leechers ELSE T[s.at].swarm.seeders) <= s.reads[i]
      BY <1>3 DEF StatOK
    <3>3. Below(U[s.at].swarm, T[s.at].swarm)
      BY <1>1, <3>1
    <3>4. CASE i % 2 = 1
      <4>1. T[s.at].swarm.leechers <= s.reads[i]
        BY ONLY <3>2, <3>4, Zenon
      <4>2. U[s.at].swarm.leechers <= s.reads[i]
        BY <3>1, <3>3, <4>1 DEF Below
      <4> QED
        BY ONLY <3>4, <4>2, Zenon
    <3>5. CASE i % 2 # 1
      <4>1. T[s.at].swarm.seeders <= s.reads[i]
        BY ONLY <3>2, <3>5, Zenon
      <4>2. U[s.at].swarm.seeders <= s.reads[i]
        BY <3>1, <3>3, <4>1 DEF Below
      <4> QED
        BY ONLY <3>5, <4>2, Zenon
    <3> QED
      BY <3>4, <3>5
  <2>2. RowsOK(s, U)
    <3>1. RowsOK(s, T)
      BY <1>3 DEF StatOK
    <3>2. Since(U, s.was)
      BY ONLY <1>1, <3>1 DEF RowsOK, Since, Below
    <3> QED
      BY ONLY <1>1, <3>1, <3>2 DEF RowsOK
  <2> QED
    BY <1>1, <1>3, <2>1, <2>2 DEF StatOK, ReaderOK
<1>4. CASE s = Idle \/ PeersOK(s)
  BY <1>4 DEF ReaderOK
<1> QED
  BY <1>2, <1>3, <1>4 DEF ReaderOK

-----------------------------------------------------------------------------
(* Nothing is tracked at first.                                            *)
LEMMA InitInv == Init => IndInv
<1> SUFFICES ASSUME Init PROVE IndInv
  OBVIOUS
<1>1. DbOK(torrents, now)
  <2>1. torrents = [k \in {} |-> 0]
    BY DEF Init
  <2>2. DOMAIN torrents = {} /\ torrents = [k \in DOMAIN torrents |-> torrents[k]]
    BY <2>1
  <2>3. IsFiniteSet({})
    BY FS_EmptySet
  <2> QED
    BY <2>2, <2>3 DEF DbOK
<1>2. now \in 0..MaxTime
  BY DbInputsAssumption DEF Init
<1>3. reader = [r \in Readers |-> reader[r]] /\ \A r \in Readers : reader[r] = Idle
  BY DEF Init
<1> QED
  BY <1>1, <1>2, <1>3 DEF Init, IndInv, CleanerOK, ReaderOK

(* A writer has the lock for itself: nobody reads what it changes.         *)
LEMMA WriteAlone ==
  ASSUME IndInv, ~ ReadLocked, DbOK(torrents', now), UNCHANGED <<now, cleaner, reader>>
  PROVE  IndInv'
<1>1. cleaner = Waiting /\ \A r \in Readers : reader[r] = Idle
  BY DEF ReadLocked
<1> QED
  BY <1>1 DEF IndInv, CleanerOK, ReaderOK

(* TorrentDb::announce, and adding and removing torrents.                  *)
LEMMA WriteInv == IndInv /\ Write => IndInv'
<1> SUFFICES ASSUME IndInv, Write PROVE IndInv'
  OBVIOUS
<1>1. now \in Nat /\ DbOK(torrents, now)
  BY DEF IndInv
<1>2. ASSUME NEW req \in Requests, HandleAnnounce(req) PROVE IndInv'
  <2> DEFINE k == bytes(req.info_hash)
  <2>1. ~ ReadLocked /\ UNCHANGED <<now, cleaner, reader>>
    BY <1>2 DEF HandleAnnounce
  <2>2. CASE k \in Tracked
    <3>1. torrents' = [torrents EXCEPT ![k].swarm = Announce(torrents[k].swarm, req, now)]
      BY <1>2, <2>2 DEF HandleAnnounce
    <3>2. Healthy(Announce(torrents[k].swarm, req, now), now)
      BY <1>1, <2>2, RequestsAssumption, AnnounceHealthy DEF DbOK, EntryOK, Tracked
    <3> DEFINE s == Announce(torrents[k].swarm, req, now)
    <3>3. Replaced(torrents, [torrents EXCEPT ![k].swarm = s], k, s)
      BY ONLY <1>1, <2>2, AssignSwarm DEF Tracked
    <3>4. Replaced(torrents, torrents', k, s)
      BY ONLY <3>1, <3>3
    <3> HIDE DEF s
    <3>5. DbOK(torrents', now)
      BY <1>1, <2>2, <3>2, <3>4, ReplaceSwarm DEF Tracked, s
    <3> QED
      BY <2>1, <3>5, WriteAlone
  <2>3. CASE k \notin Tracked
    <3>1. torrents' = torrents
      BY <1>2, <2>3 DEF HandleAnnounce
    <3> QED
      BY <1>1, <2>1, <3>1, WriteAlone
  <2> QED
    BY <2>2, <2>3
<1>3. ASSUME NEW f \in Files, AddTorrent(f) PROVE IndInv'
  <2> DEFINE k == torrentKey(f.hash)
             e == [hash |-> f.hash, path |-> f.path, swarm |-> NewTorrent]
  <2>1. ~ ReadLocked /\ UNCHANGED <<now, cleaner, reader>>
    BY <1>3 DEF AddTorrent
  <2>2. torrents' = [x \in DOMAIN torrents \cup {k} |-> IF x \in DOMAIN torrents THEN torrents[x] ELSE e]
    BY <1>3 DEF AddTorrent, Tracked
  <2>3. EntryOK(e, k, now)
    BY <1>1, NewTorrentHealthy, DbInputsAssumption DEF EntryOK
  <2> HIDE DEF e, k
  <2>4. torrents' = [x \in DOMAIN torrents' |-> torrents'[x]]
    BY <2>2
  <2>5. \A x \in DOMAIN torrents' : EntryOK(torrents'[x], x, now)
    BY <1>1, <2>2, <2>3 DEF DbOK
  <2>finite. IsFiniteSet(DOMAIN torrents')
    <3>1. DOMAIN torrents' = DOMAIN torrents \cup {k} /\ IsFiniteSet(DOMAIN torrents)
      BY <1>1, <2>2 DEF DbOK
    <3> QED
      BY <3>1, FS_AddElement
  <2>6. DbOK(torrents', now)
    BY <2>4, <2>5, <2>finite DEF DbOK
  <2> QED
    BY <2>1, <2>6, WriteAlone
<1>4. ASSUME NEW k \in Tracked, RemoveTorrent(k) PROVE IndInv'
  <2>1. ~ ReadLocked /\ UNCHANGED <<now, cleaner, reader>>
    BY <1>4 DEF RemoveTorrent
  <2>2. torrents' = [x \in DOMAIN torrents \ {k} |-> torrents[x]]
    BY <1>4 DEF RemoveTorrent, Tracked
  <2>3. torrents' = [x \in DOMAIN torrents' |-> torrents'[x]]
    BY <2>2
  <2>4. \A x \in DOMAIN torrents' : EntryOK(torrents'[x], x, now)
    BY <1>1, <2>2 DEF DbOK
  <2>finite. IsFiniteSet(DOMAIN torrents')
    <3>1. DOMAIN torrents' \in SUBSET DOMAIN torrents /\ IsFiniteSet(DOMAIN torrents)
      BY <1>1, <2>2 DEF DbOK
    <3> QED
      BY <3>1, FS_Subset
  <2>5. DbOK(torrents', now)
    BY <2>3, <2>4, <2>finite DEF DbOK
  <2> QED
    BY <2>1, <2>5, WriteAlone
<1> QED
  BY <1>2, <1>3, <1>4 DEF Write

(* A peer that has timed out is dropped from t, which leaves u.            *)
Expired(t, u, n) ==
  \E h \in DOMAIN t.peers :
    /\ t.peers[h].timeout_ts <= n
    /\ u.peers = Dropped(t.peers, h)
    /\ u.completed = t.completed

(* One removal of a sweep: the front peer is there, its removal keeps the  *)
(* torrent sound, and the counters that others read go down.               *)
LEMMA CleanupRemoveStep ==
  ASSUME IndInv, CleanupRemove
  PROVE  /\ cleaner.at \in Tracked
         /\ DbOK(torrents', now)
         /\ GoesDown(torrents, torrents')
         /\ Expired(torrents[cleaner.at].swarm, torrents'[cleaner.at].swarm, now)
         /\ \A x \in Tracked : x # cleaner.at => torrents'[x] = torrents[x]
<1> DEFINE k == cleaner.at
           t == torrents[k].swarm
           h == Head(t.timeouts)
           u == RemovePeer(t, h)
<1>1. now \in Nat /\ DbOK(torrents, now)
  BY DEF IndInv
<1>2. k \in Tracked /\ cleaner.ts \in Nat /\ cleaner.ts <= now
  BY DEF IndInv, CleanerOK, CleanupRemove, Tracked
<1>3. Healthy(t, now) /\ Sound(t)
  BY <1>1, <1>2 DEF DbOK, EntryOK, Tracked, Healthy
<1>4. /\ t.timeouts # << >> /\ t.peers[h].timeout_ts <= cleaner.ts
      /\ torrents' = [torrents EXCEPT ![k].swarm = u]
  BY DEF CleanupRemove, FrontExpired
<1> HIDE DEF t
<1>5. h \in DOMAIN t.peers
  BY <1>3, <1>4, FrontIsOldest
<1> HIDE DEF h
<1>6. t.peers[h].timeout_ts \in Nat
  BY <1>3, <1>5 DEF Sound, IsTorrent, IsPeer
<1>7. Healthy(u, now) /\ u.peers = Dropped(t.peers, h)
  <2>1. Healthy(Less(t, h), now) /\ Less(t, h) = u
    BY <1>1, <1>3, <1>5, LessHealthy DEF Less
  <2>2. u.peers = [x \in DOMAIN t.peers \ {h} |-> t.peers[x]]
    BY <1>3, <1>5, RemovePeerFields DEF Sound
  <2> QED
    BY <2>1, <2>2 DEF Dropped
<1>8. u.leechers <= t.leechers /\ u.seeders <= t.seeders /\ u.completed = t.completed
  BY <1>3, <1>5, RemovePeerCountsDown
<1> HIDE DEF u
<1>9. /\ DbOK(torrents', now) /\ DOMAIN torrents' = DOMAIN torrents
      /\ torrents'[k].swarm = u
      /\ \A x \in DOMAIN torrents : x # k => torrents'[x] = torrents[x]
  <2>1. Replaced(torrents, [torrents EXCEPT ![k].swarm = u], k, u)
    BY <1>1, <1>2, AssignSwarm DEF Tracked
  <2>2. Replaced(torrents, torrents', k, u)
    BY ONLY <1>4, <2>1
  <2>3. DbOK(torrents', now) /\ torrents'[k].swarm = u
    BY <1>1, <1>2, <1>7, <2>2, ReplaceSwarm DEF Tracked
  <2> QED
    BY <2>2, <2>3 DEF Replaced
<1>10. GoesDown(torrents, torrents')
  <2>1. ASSUME NEW x \in DOMAIN torrents PROVE Below(torrents'[x].swarm, torrents[x].swarm)
    <3>1. /\ torrents[x].swarm.leechers \in Nat /\ torrents[x].swarm.seeders \in Nat
          /\ torrents'[x].swarm.leechers \in Nat /\ torrents'[x].swarm.seeders \in Nat
      BY <1>1, <1>9, CountersAreNumbers
    <3>2. CASE x = k
      BY <1>8, <1>9, <3>1, <3>2 DEF Below, t
    <3>3. CASE x # k
      BY <1>9, <3>1, <3>3 DEF Below
    <3> QED
      BY <3>2, <3>3
  <2> QED
    BY <1>9, <2>1 DEF GoesDown
<1>11. t.peers[h].timeout_ts <= now
  BY <1>1, <1>2, <1>4, <1>6
<1>12. Expired(t, u, now)
  BY <1>5, <1>7, <1>8, <1>11 DEF Expired
<1> QED
  BY <1>2, <1>9, <1>10, <1>12 DEF t, Tracked

(* The other steps of the cleanup thread change only its own place.        *)
LEMMA CleanupInv == IndInv /\ Cleanup => IndInv'
<1> SUFFICES ASSUME IndInv, Cleanup PROVE IndInv'
  OBVIOUS
<1>1. CASE CleanupBegin
  <2>1. /\ cleaner' = [op |-> "cleanup", todo |-> Tracked, at |-> NoKey, ts |-> 0]
        /\ UNCHANGED <<torrents, now, reader>> /\ now \in Nat
    BY <1>1 DEF CleanupBegin, IndInv
  <2>2. CleanerOK(cleaner', torrents, now)
    BY <2>1 DEF CleanerOK, Tracked
  <2> QED
    BY <2>1, <2>2 DEF IndInv
<1>2. CASE CleanupVisit
  <2>1. PICK k \in cleaner.todo : cleaner' = [cleaner EXCEPT !.todo = @ \ {k}, !.at = k, !.ts = now]
    BY <1>2 DEF CleanupVisit
  <2>2. UNCHANGED <<torrents, now, reader>> /\ now \in Nat /\ cleaner # Waiting
    BY <1>2 DEF CleanupVisit, IndInv
  <2>3. /\ cleaner \in [op : {"cleanup"}, todo : {cleaner.todo}, at : {cleaner.at}, ts : {cleaner.ts}]
        /\ cleaner.todo \subseteq DOMAIN torrents
    BY <2>2 DEF IndInv, CleanerOK
  <2>4. /\ cleaner' \in [op : {"cleanup"}, todo : {cleaner'.todo}, at : {cleaner'.at},
                        ts : {cleaner'.ts}]
        /\ cleaner'.todo = cleaner.todo \ {k} /\ cleaner'.at = k /\ cleaner'.ts = now
    BY <2>1, <2>3
  <2>5. CleanerOK(cleaner', torrents, now)
    BY <2>2, <2>3, <2>4 DEF CleanerOK
  <2> QED
    BY <2>2, <2>5 DEF IndInv
<1>3. CASE CleanupRemove
  <2>1. UNCHANGED <<now, cleaner, reader>>
    BY <1>3 DEF CleanupRemove
  <2>2. DbOK(torrents', now) /\ GoesDown(torrents, torrents')
    BY <1>3, CleanupRemoveStep
  <2>3. CleanerOK(cleaner, torrents', now)
    BY <2>2 DEF IndInv, CleanerOK, GoesDown
  <2>4. \A r \in Readers : ReaderOK(reader[r], torrents')
    BY <2>2, ReaderSurvives DEF IndInv
  <2> QED
    BY <2>1, <2>2, <2>3, <2>4 DEF IndInv
<1>4. CASE CleanupLeave
  <2>1. /\ cleaner' = [cleaner EXCEPT !.at = NoKey, !.ts = 0] /\ cleaner # Waiting
        /\ UNCHANGED <<torrents, now, reader>> /\ now \in Nat
    BY <1>4 DEF CleanupLeave, IndInv
  <2>2. /\ cleaner \in [op : {"cleanup"}, todo : {cleaner.todo}, at : {cleaner.at}, ts : {cleaner.ts}]
        /\ cleaner.todo \subseteq DOMAIN torrents
    BY <2>1 DEF IndInv, CleanerOK
  <2>3. /\ cleaner' \in [op : {"cleanup"}, todo : {cleaner'.todo}, at : {cleaner'.at},
                        ts : {cleaner'.ts}]
        /\ cleaner'.todo = cleaner.todo /\ cleaner'.at = NoKey /\ cleaner'.ts = 0
    BY <2>1, <2>2
  <2>4. CleanerOK(cleaner', torrents, now)
    BY <2>1, <2>2, <2>3 DEF CleanerOK
  <2> QED
    BY <2>1, <2>4 DEF IndInv
<1>5. CASE CleanupEnd
  BY <1>5 DEF CleanupEnd, IndInv, CleanerOK
<1> QED
  BY <1>1, <1>2, <1>3, <1>4, <1>5 DEF Cleanup

-----------------------------------------------------------------------------
(* Appending to a sequence of anything.                                    *)
LEMMA AppendOne ==
  ASSUME NEW S, NEW s \in Seq(S), NEW e
  PROVE  /\ Append(s, e) \in Seq(S \cup {e})
         /\ Len(Append(s, e)) = Len(s) + 1
         /\ \A i \in 1..Len(s) : Append(s, e)[i] = s[i]
         /\ Append(s, e)[Len(s) + 1] = e
<1>1. s \in Seq(S \cup {e}) /\ e \in S \cup {e}
  OBVIOUS
<1> QED
  BY <1>1

(* A reader's step concerns nobody else.                                   *)
LEMMA ServeInv ==
  ASSUME IndInv, NEW r \in Readers, NEW d, ReaderOK(d, torrents), Serve(r, d),
         UNCHANGED <<torrents, now, cleaner>>
  PROVE  IndInv'
<1>1. reader = [x \in Readers |-> reader[x]] /\ reader' = [reader EXCEPT ![r] = d]
  BY DEF IndInv, Serve
<1>2. /\ reader' = [x \in Readers |-> reader'[x]]
      /\ reader'[r] = d
      /\ \A x \in Readers : x # r => reader'[x] = reader[x]
  BY <1>1
<1>3. \A x \in Readers : ReaderOK(reader'[x], torrents)
  BY <1>2 DEF IndInv
<1> QED
  BY <1>2, <1>3 DEF IndInv

(* What a reader does tells what is known of it.                           *)
LEMMA ReaderKinds ==
  ASSUME IndInv, NEW r \in Readers
  PROVE  /\ reader[r].op \in {"idle", "scrape", "peers", "stat"}
         /\ reader[r].op = "scrape" => ScrapeOK(reader[r], torrents)
         /\ reader[r].op = "peers" => PeersOK(reader[r])
         /\ reader[r].op = "stat" => StatOK(reader[r], torrents)
<1>1. ReaderOK(reader[r], torrents)
  BY DEF IndInv
<1>2. CASE reader[r] = Idle
  BY <1>2 DEF Idle
<1>3. CASE ScrapeOK(reader[r], torrents)
  <2>1. reader[r].op = "scrape"
    BY <1>3 DEF ScrapeOK
  <2> QED
    BY <1>3, <2>1
<1>4. CASE PeersOK(reader[r])
  <2>1. reader[r].op = "peers"
    BY <1>4 DEF PeersOK
  <2> QED
    BY <1>4, <2>1
<1>5. CASE StatOK(reader[r], torrents)
  <2>1. reader[r].op = "stat"
    BY <1>5 DEF StatOK
  <2> QED
    BY <1>5, <2>1
<1> QED
  BY <1>1, <1>2, <1>3, <1>4, <1>5 DEF ReaderOK

(* The counters that a scrape or a page keeps are those of its beginning.  *)
LEMMA CountersNow ==
  ASSUME IndInv
  PROVE  Since(torrents, Counters)
<1>1. ASSUME NEW k \in DOMAIN torrents PROVE Below(torrents[k].swarm, Counters[k])
  <2>1. torrents[k].swarm.leechers \in Nat /\ torrents[k].swarm.seeders \in Nat
    BY CountersAreNumbers DEF IndInv
  <2>2. /\ Counters[k].leechers = torrents[k].swarm.leechers
        /\ Counters[k].seeders = torrents[k].swarm.seeders
        /\ Counters[k].completed = torrents[k].swarm.completed
    BY DEF Counters, Tracked
  <2> QED
    BY <2>1, <2>2 DEF Below
<1> QED
  BY <1>1 DEF Since

(* Nothing has been looked up yet.                                         *)
LEMMA WalkBegins ==
  ASSUME NEW S, NEW q \in Seq(S), NEW T
  PROVE  Walked(q, q, << >>, T)
<1>1. Len(q) \in Nat /\ Len(q) - Len(q) = 0
  OBVIOUS
<1>2. Seen(q, 0, T) = {}
  BY DEF Seen
<1>3. Cardinality({}) = 0 /\ Len(<< >>) = 0
  BY FS_EmptySet
<1>4. \A i \in 1..Len(q) : q[i] = q[0 + i]
  OBVIOUS
<1> QED
  BY <1>1, <1>2, <1>3, <1>4 DEF Walked

(* One hash further, which is not in the trie or has become an item.       *)
LEMMA WalkGoesOn ==
  ASSUME NEW S, NEW asked \in Seq(S), NEW R, NEW todo \in Seq(R), todo # << >>,
         NEW I, NEW items \in Seq(I), NEW T, Walked(asked, todo, items, T),
         NEW more,
         IF bytes(Head(todo)) \in DOMAIN T
           THEN \E i : i.info_hash = Head(todo) /\ more = Append(items, i)
           ELSE more = items
  PROVE  Walked(asked, Tail(todo), more, T)
<1> DEFINE c == Len(asked) - Len(todo)
           P == Seen(asked, c, T)
           Q == Seen(asked, c + 1, T)
<1>1. /\ Len(asked) \in Nat /\ c \in Nat
      /\ \A i \in 1..Len(todo) : todo[i] = asked[c + i]
      /\ Len(items) = Cardinality(P)
      /\ \A n \in 1..Len(items) : items[n].info_hash = asked[Nth(P, n)]
  BY DEF Walked
<1>2. /\ Len(todo) \in Nat /\ Len(todo) > 0 /\ Head(todo) = todo[1]
      /\ Len(Tail(todo)) = Len(todo) - 1
      /\ \A i \in 1 .. Len(todo) - 1 : Tail(todo)[i] = todo[i + 1]
  OBVIOUS
<1>3. Len(asked) - Len(Tail(todo)) = c + 1 /\ c + 1 \in Nat
  BY <1>1, <1>2
<1>4. Head(todo) = asked[c + 1]
  BY <1>1, <1>2
<1> HIDE DEF c
<1>5. ASSUME NEW i \in 1..Len(Tail(todo)) PROVE Tail(todo)[i] = asked[(c + 1) + i]
  <2>1. i \in 1 .. Len(todo) - 1 /\ i + 1 \in 1..Len(todo) /\ c + (i + 1) = (c + 1) + i
    BY <1>1, <1>2
  <2>2. Tail(todo)[i] = todo[i + 1] /\ todo[i + 1] = asked[c + (i + 1)]
    BY <1>1, <1>2, <2>1
  <2> QED
    BY ONLY <2>1, <2>2
<1>6. P \in SUBSET (1..c)
  BY DEF Seen
<1>7. Q = IF bytes(asked[c + 1]) \in DOMAIN T THEN P \cup {c + 1} ELSE P
  <2>1. 1 .. c + 1 = (1..c) \cup {c + 1}
    BY <1>1
  <2> QED
    BY <2>1 DEF Seen
<1> HIDE DEF P, Q
<1>8. /\ Len(more) = Cardinality(Q)
      /\ \A n \in 1..Len(more) : more[n].info_hash = asked[Nth(Q, n)]
  <2>1. CASE bytes(Head(todo)) \in DOMAIN T
    <3>1. Q = P \cup {c + 1}
      BY <1>4, <1>7, <2>1
    <3>2. /\ Cardinality(P) \in Nat
          /\ Cardinality(Q) = Cardinality(P) + 1
          /\ \A n \in 1..Cardinality(P) : Nth(Q, n) = Nth(P, n)
          /\ Nth(Q, Cardinality(P) + 1) = c + 1
      <4>1. c \in Nat
        BY <1>1
      <4>2. OneMore(P, Q, c + 1)
        BY ONLY <1>6, <3>1, <4>1, NthOfMore
      <4> QED
        BY <4>2 DEF OneMore
    <3>3. PICK i : i.info_hash = Head(todo) /\ more = Append(items, i)
      BY <2>1
    <3>4. /\ Len(more) = Len(items) + 1
          /\ \A j \in 1..Len(items) : more[j] = items[j]
          /\ more[Len(items) + 1] = i
      BY <3>3, AppendOne
    <3>5. ASSUME NEW n \in 1..Len(more) PROVE more[n].info_hash = asked[Nth(Q, n)]
      <4>1. CASE n = Cardinality(P) + 1
        BY <1>1, <1>4, <3>2, <3>3, <3>4, <4>1
      <4>2. CASE n \in 1..Cardinality(P)
        BY <1>1, <3>2, <3>4, <4>2
      <4>3. n \in 1 .. Cardinality(P) + 1
        BY <1>1, <3>4
      <4>4. n \in 1..Cardinality(P) \/ n = Cardinality(P) + 1
        BY ONLY <3>2, <4>3
      <4> QED
        BY <4>1, <4>2, <4>4
    <3> QED
      BY <1>1, <3>2, <3>4, <3>5
  <2>2. CASE bytes(Head(todo)) \notin DOMAIN T
    <3>1. Q = P /\ more = items
      BY <1>4, <1>7, <2>2
    <3> QED
      BY <1>1, <3>1
  <2> QED
    BY <2>1, <2>2
<1> QED
  BY <1>1, <1>3, <1>5, <1>8 DEF Walked, Q

(* A scrape begins with no item.                                           *)
LEMMA ScrapeBeginInv ==
  ASSUME IndInv, NEW r \in Readers, NEW q \in Scrapes, ScrapeBegin(r, q)
  PROVE  IndInv'
<1> DEFINE d == [op |-> "scrape", asked |-> q, todo |-> q, leechers |-> -1,
                 items |-> << >>, was |-> Counters]
<1>1. Serve(r, d) /\ UNCHANGED <<torrents, now, cleaner>>
  BY DEF ScrapeBegin
<1>2. /\ d \in [op : {"scrape"}, asked : {d.asked}, todo : {d.todo}, leechers : {d.leechers},
               items : {d.items}, was : {d.was}]
      /\ d.asked = q /\ d.todo = q /\ d.leechers = -1 /\ d.items = << >> /\ d.was = Counters
  OBVIOUS
<1> HIDE DEF d
<1>3. q \in Seq(ToSet(q)) /\ << >> \in Seq({}) /\ Len(<< >>) = 0
  BY DbInputsAssumption
<1>walked. Walked(q, q, << >>, torrents)
  BY <1>3, WalkBegins
<1>4. ScrapeOK(d, torrents)
  BY <1>2, <1>3, <1>walked, CountersNow DEF ScrapeOK
<1> QED
  BY <1>1, <1>4, ServeInv DEF ReaderOK

(* It skips a hash, or reads the first counter of a torrent.               *)
LEMMA ScrapeFindInv ==
  ASSUME IndInv, NEW r \in Readers, ScrapeFind(r)
  PROVE  IndInv'
<1> DEFINE s == reader[r]
           k == bytes(Head(s.todo))
<1>1. s.op = "scrape" /\ s.todo # << >> /\ s.leechers = -1 /\ UNCHANGED <<torrents, now, cleaner>>
  BY DEF ScrapeFind
<1>2. ScrapeOK(s, torrents)
  BY <1>1, ReaderKinds
<1>3. CASE k \in Tracked
  <2> DEFINE d == [s EXCEPT !.leechers = torrents[k].swarm.leechers]
  <2>1. Serve(r, d)
    BY <1>3 DEF ScrapeFind
  <2>2. /\ d \in [op : {"scrape"}, asked : {d.asked}, todo : {d.todo}, leechers : {d.leechers},
                 items : {d.items}, was : {d.was}]
        /\ d.asked = s.asked /\ d.todo = s.todo /\ d.leechers = torrents[k].swarm.leechers
        /\ d.items = s.items /\ d.was = s.was
    BY <1>2 DEF ScrapeOK
  <2> HIDE DEF d
  <2>3. torrents[k].swarm.leechers \in Nat
    BY <1>3, CountersAreNumbers DEF IndInv, Tracked
  <2>4. torrents[k].swarm.leechers <= s.was[k].leechers
    BY <1>2, <1>3 DEF ScrapeOK, Since, Below, Tracked
  <2>5. ScrapeOK(d, torrents)
    BY <1>1, <1>2, <1>3, <2>2, <2>3, <2>4 DEF ScrapeOK, Tracked
  <2> QED
    BY <1>1, <2>1, <2>5, ServeInv DEF ReaderOK
<1>4. CASE k \notin Tracked
  <2> DEFINE d == [s EXCEPT !.todo = Tail(s.todo)]
  <2>1. Serve(r, d)
    BY <1>4 DEF ScrapeFind
  <2>2. /\ d \in [op : {"scrape"}, asked : {d.asked}, todo : {d.todo}, leechers : {d.leechers},
                 items : {d.items}, was : {d.was}]
        /\ d.asked = s.asked /\ d.todo = Tail(s.todo) /\ d.leechers = s.leechers
        /\ d.items = s.items /\ d.was = s.was
    BY <1>2 DEF ScrapeOK
  <2> HIDE DEF d
  <2>3. \E S : Tail(s.todo) \in Seq(S)
    <3>1. PICK S : s.todo \in Seq(S)
      BY <1>2 DEF ScrapeOK
    <3>2. Tail(s.todo) \in Seq(S)
      BY <1>1, <3>1
    <3> QED
      BY <3>2
  <2>walked. Walked(s.asked, Tail(s.todo), s.items, torrents)
    <3>1. PICK S : s.asked \in Seq(S)
      BY <1>2 DEF ScrapeOK
    <3>2. PICK R : s.todo \in Seq(R)
      BY <1>2 DEF ScrapeOK
    <3>3. PICK I : s.items \in Seq(I)
      BY <1>2 DEF ScrapeOK
    <3>4. Walked(s.asked, s.todo, s.items, torrents) /\ bytes(Head(s.todo)) \notin DOMAIN torrents
      BY <1>2, <1>4 DEF ScrapeOK, Tracked
    <3> HIDE DEF s
    <3> QED
      BY <1>1, <3>1, <3>2, <3>3, <3>4, WalkGoesOn
  <2>4. ScrapeOK(d, torrents)
    BY <1>1, <1>2, <2>2, <2>3, <2>walked DEF ScrapeOK
  <2> QED
    BY <1>1, <2>1, <2>4, ServeInv DEF ReaderOK
<1> QED
  BY <1>3, <1>4

(* It reads the others later; the first may have gone down meanwhile.      *)
LEMMA ScrapePushInv ==
  ASSUME IndInv, NEW r \in Readers, ScrapePush(r)
  PROVE  IndInv'
<1> DEFINE s == reader[r]
           h == Head(s.todo)
           t == torrents[bytes(h)].swarm
           i == [info_hash |-> h, leechers |-> s.leechers,
                 seeders |-> t.seeders, completed |-> t.completed]
           d == [s EXCEPT !.todo = Tail(s.todo), !.leechers = -1, !.items = Append(s.items, i)]
<1>1. s.op = "scrape" /\ s.leechers # -1 /\ UNCHANGED <<torrents, now, cleaner>>
  BY DEF ScrapePush
<1>2. ScrapeOK(s, torrents)
  BY <1>1, ReaderKinds
<1>3. Serve(r, d)
  BY DEF ScrapePush
<1>4. /\ i.info_hash = h /\ i.leechers = s.leechers
      /\ i.seeders = t.seeders /\ i.completed = t.completed
  OBVIOUS
<1> HIDE DEF i
<1>5. /\ d \in [op : {"scrape"}, asked : {d.asked}, todo : {d.todo}, leechers : {d.leechers},
               items : {d.items}, was : {d.was}]
      /\ d.asked = s.asked /\ d.todo = Tail(s.todo) /\ d.leechers = -1
      /\ d.items = Append(s.items, i) /\ d.was = s.was
  BY <1>2 DEF ScrapeOK
<1> HIDE DEF d
<1>6. /\ s.todo # << >> /\ bytes(h) \in DOMAIN torrents /\ s.leechers \in Nat
      /\ t.leechers <= s.leechers /\ s.leechers <= s.was[bytes(h)].leechers
      /\ Below(t, s.was[bytes(h)])
  BY <1>1, <1>2 DEF ScrapeOK, Since
<1>7. ItemOK(i, torrents, s.was)
  BY <1>4, <1>6 DEF ItemOK, Below
<1>8. \E S : Tail(s.todo) \in Seq(S)
  <2>1. PICK S : s.todo \in Seq(S)
    BY <1>2 DEF ScrapeOK
  <2>2. Tail(s.todo) \in Seq(S)
    BY <1>6, <2>1
  <2> QED
    BY <2>2
<1>9. /\ \E S : d.items \in Seq(S)
      /\ \A j \in 1..Len(d.items) : ItemOK(d.items[j], torrents, d.was)
  <2>1. PICK S : s.items \in Seq(S)
    BY <1>2 DEF ScrapeOK
  <2>2. /\ d.items \in Seq(S \cup {i}) /\ Len(d.items) = Len(s.items) + 1
        /\ \A j \in 1..Len(s.items) : d.items[j] = s.items[j]
        /\ d.items[Len(s.items) + 1] = i /\ Len(s.items) \in Nat
    BY <1>5, <2>1, AppendOne
  <2>3. \A j \in 1..Len(s.items) : ItemOK(s.items[j], torrents, s.was)
    BY <1>2 DEF ScrapeOK
  <2> QED
    BY <1>5, <1>7, <2>2, <2>3
<1>walked. Walked(s.asked, Tail(s.todo), d.items, torrents)
  <2>1. PICK S : s.asked \in Seq(S)
    BY <1>2 DEF ScrapeOK
  <2>2. PICK R : s.todo \in Seq(R)
    BY <1>2 DEF ScrapeOK
  <2>3. PICK I : s.items \in Seq(I)
    BY <1>2 DEF ScrapeOK
  <2>4. Walked(s.asked, s.todo, s.items, torrents) /\ bytes(Head(s.todo)) \in DOMAIN torrents
    BY <1>2, <1>6 DEF ScrapeOK
  <2>5. \E x : x.info_hash = Head(s.todo) /\ d.items = Append(s.items, x)
    BY <1>4, <1>5
  <2> HIDE DEF s
  <2> QED
    BY <1>6, <2>1, <2>2, <2>3, <2>4, <2>5, WalkGoesOn
<1>10. ScrapeOK(d, torrents)
  BY <1>2, <1>5, <1>8, <1>9, <1>walked DEF ScrapeOK
<1> QED
  BY <1>1, <1>3, <1>10, ServeInv DEF ReaderOK

(* The page of peers reads no counter.                                     *)
LEMMA PeersInv ==
  ASSUME IndInv, NEW r \in Readers, PeersStep(r) \/ \E k \in Tracked : PeersBegin(r, k)
  PROVE  IndInv'
<1>1. ASSUME NEW k \in Tracked, PeersBegin(r, k) PROVE IndInv'
  <2> DEFINE s == torrents[k].swarm.timeouts
             d == [op |-> "peers", key |-> k, at |-> IF s = << >> THEN NoKey ELSE Head(s)]
  <2>1. Serve(r, d) /\ UNCHANGED <<torrents, now, cleaner>>
    BY <1>1 DEF PeersBegin
  <2>2. PeersOK(d)
    BY DEF PeersOK
  <2> QED
    BY <2>1, <2>2, ServeInv DEF ReaderOK
<1>2. ASSUME PeersStep(r) PROVE IndInv'
  <2>1. PICK next : Serve(r, [reader[r] EXCEPT !.at = next])
    BY <1>2 DEF PeersStep
  <2>2. reader[r].op = "peers" /\ UNCHANGED <<torrents, now, cleaner>>
    BY <1>2 DEF PeersStep
  <2> DEFINE d == [reader[r] EXCEPT !.at = next]
  <2>3. PeersOK(d)
    BY <2>2, ReaderKinds DEF PeersOK
  <2> QED
    BY <2>1, <2>2, <2>3, ServeInv DEF ReaderOK
<1> QED
  BY <1>1, <1>2

-----------------------------------------------------------------------------
(* Sums.  The pairs of finitely many torrents are finitely many, ...       *)
LEMMA SlotsFinite ==
  ASSUME NEW V, IsFiniteSet(V), NEW n, \A k \in V : n[k] \in Nat
  PROVE  IsFiniteSet(Slots(n, V)) /\ Cardinality(Slots(n, V)) \in Nat
<1> DEFINE W == {{k} \X (1..n[k]) : k \in V}
           f == [k \in V |-> {k} \X (1..n[k])]
<1>1. f \in Surjection(V, W)
  BY DEF Surjection
<1>2. ASSUME NEW k \in V PROVE IsFiniteSet({k} \X (1..n[k]))
  <2>1. n[k] \in Nat
    OBVIOUS
  <2>2. IsFiniteSet({k}) /\ IsFiniteSet(1..n[k])
    <3>1. 1 \in Int /\ n[k] \in Int
      BY <2>1
    <3> QED
      BY <3>1, FS_Singleton, FS_Interval
  <2> QED
    BY <2>2, FS_Product
<1>3. \A w \in W : IsFiniteSet(w)
  BY <1>2
<1>4. Slots(n, V) = UNION W
  BY DEF Slots
<1> HIDE DEF W, f
<1>5. IsFiniteSet(W)
  BY <1>1, FS_Surjection
<1>6. IsFiniteSet(UNION W)
  BY <1>3, <1>5, FS_UNION
<1> QED
  BY <1>4, <1>6, FS_CardinalityType

(* ... those of one torrent are as many as its number, ...                 *)
LEMMA SlotsOfOne ==
  ASSUME NEW k, NEW m \in Nat
  PROVE  /\ IsFiniteSet({k} \X (1..m))
         /\ Cardinality({k} \X (1..m)) = m
<1>1. IsFiniteSet({k}) /\ Cardinality({k}) = 1
  BY FS_Singleton
<1>2. IsFiniteSet(1..m) /\ Cardinality(1..m) = m
  BY FS_Interval
<1>3. IsFiniteSet({k} \X (1..m)) /\ Cardinality({k} \X (1..m)) = Cardinality({k}) * Cardinality(1..m)
  BY <1>1, <1>2, FS_Product
<1>4. 1 * m = m
  OBVIOUS
<1> QED
  BY ONLY <1>1, <1>2, <1>3, <1>4

(* ... and one torrent more adds its number.                               *)
LEMMA SlotsAdd ==
  ASSUME NEW V, IsFiniteSet(V), NEW k, k \notin V, NEW n, \A x \in V \cup {k} : n[x] \in Nat
  PROVE  Cardinality(Slots(n, V \cup {k})) = Cardinality(Slots(n, V)) + n[k]
<1> DEFINE A == Slots(n, V)
           B == {k} \X (1..n[k])
<1>1. IsFiniteSet(A) /\ Cardinality(A) \in Nat
  BY SlotsFinite
<1>2. IsFiniteSet(B) /\ Cardinality(B) = n[k] /\ n[k] \in Nat
  BY SlotsOfOne
<1>3. Slots(n, V \cup {k}) = A \cup B
  BY DEF Slots
<1>4. A \cap B = {}
  BY DEF Slots
<1> HIDE DEF A, B
<1>5. Cardinality(A \cup B) = Cardinality(A) + Cardinality(B) - Cardinality(A \cap B)
  BY <1>1, <1>2, FS_Union
<1>6. Cardinality({}) = 0
  BY FS_EmptySet
<1>7. Cardinality(A \cup B) = Cardinality(A) + n[k]
  <2>1. Cardinality(A \cap B) = 0
    BY ONLY <1>4, <1>6
  <2>2. \A x, y \in Nat : x + y - 0 = x + y
    OBVIOUS
  <2> QED
    BY ONLY <1>1, <1>2, <1>5, <2>1, <2>2
<1> QED
  BY <1>3, <1>7 DEF A

(* The page of torrents begins with nothing read.                          *)
LEMMA StatBeginInv ==
  ASSUME IndInv, NEW r \in Readers, StatBegin(r)
  PROVE  IndInv'
<1> DEFINE d == [op |-> "stat", todo |-> Tracked, at |-> NoKey, reads |-> << >>,
                 rows |-> [leechers |-> 0, seeders |-> 0],
                 total |-> [leechers |-> 0, seeders |-> 0], was |-> Counters]
<1>1. Serve(r, d) /\ UNCHANGED <<torrents, now, cleaner>>
  BY DEF StatBegin
<1>2. /\ d \in [op : {"stat"}, todo : {d.todo}, at : {d.at}, reads : {d.reads},
               rows : {d.rows}, total : {d.total}, was : {d.was}]
      /\ d.todo = Tracked /\ d.at = NoKey /\ d.reads = << >>
      /\ d.rows = [leechers |-> 0, seeders |-> 0] /\ d.total = [leechers |-> 0, seeders |-> 0]
      /\ d.was = Counters
  OBVIOUS
<1> HIDE DEF d
<1>3. /\ d.rows \in [leechers : Nat, seeders : Nat]
      /\ d.total \in [leechers : Nat, seeders : Nat]
      /\ d.total.leechers <= d.rows.leechers
      /\ d.total.seeders <= d.rows.seeders
  BY <1>2
<1>4. << >> \in Seq(Nat) /\ Len(<< >>) = 0
  OBVIOUS
<1>rows. RowsOK(d, torrents)
  <2>1. DOMAIN d.was = DOMAIN torrents /\ Since(torrents, d.was) /\ IsFiniteSet(DOMAIN torrents)
    BY <1>2, CountersNow DEF IndInv, DbOK, Counters, Tracked
  <2>2. Slots(LeechersOf(d.was), {}) = {} /\ Slots(SeedersOf(d.was), {}) = {}
    BY DEF Slots
  <2>3. Cardinality({}) = 0 /\ d.rows.leechers = 0 /\ d.rows.seeders = 0
    BY <1>2, FS_EmptySet
  <2>4. Rows(d, {})
    BY ONLY <2>2, <2>3 DEF Rows
  <2>5. {} \in SUBSET DOMAIN torrents /\ {} \cap d.todo = {}
    OBVIOUS
  <2> QED
    BY <1>2, <1>4, <2>1, <2>4, <2>5 DEF RowsOK
<1>5. StatOK(d, torrents)
  BY <1>2, <1>3, <1>4, <1>rows DEF StatOK, Tracked
<1> QED
  BY <1>1, <1>5, ServeInv DEF ReaderOK

(* It goes to a torrent that is there, whose counters it has not read.     *)
LEMMA StatVisitInv ==
  ASSUME IndInv, NEW r \in Readers, StatVisit(r)
  PROVE  IndInv'
<1> DEFINE s == reader[r]
<1>1. PICK k \in s.todo : Serve(r, [s EXCEPT !.todo = s.todo \ {k}, !.at = k])
  BY DEF StatVisit
<1>2. s.op = "stat" /\ s.at = NoKey /\ UNCHANGED <<torrents, now, cleaner>>
  BY DEF StatVisit
<1>3. StatOK(s, torrents)
  BY <1>2, ReaderKinds
<1> DEFINE d == [s EXCEPT !.todo = s.todo \ {k}, !.at = k]
<1>4. /\ d \in [op : {"stat"}, todo : {d.todo}, at : {d.at}, reads : {d.reads},
               rows : {d.rows}, total : {d.total}, was : {d.was}]
      /\ d.todo = s.todo \ {k} /\ d.at = k /\ d.reads = s.reads
      /\ d.rows = s.rows /\ d.total = s.total /\ d.was = s.was
  BY <1>3 DEF StatOK
<1> HIDE DEF d
<1>5. s.reads = << >> /\ Len(<< >>) = 0 /\ k \in DOMAIN torrents
  BY <1>2, <1>3 DEF StatOK
<1>rows. RowsOK(d, torrents)
  <2>1. RowsOK(s, torrents)
    BY <1>3 DEF StatOK
  <2>2. PICK V \in SUBSET DOMAIN torrents :
          V \cap s.todo = {} /\ (s.at # NoKey => s.at \notin V) /\ Rows(s, V)
    BY <2>1 DEF RowsOK
  <2>3. Rows(d, V)
    BY <1>4, <2>2 DEF Rows
  <2>4. V \cap d.todo = {} /\ d.at \notin V /\ d.at \notin d.todo
    BY <1>4, <2>2
  <2> QED
    BY <1>4, <1>5, <2>1, <2>3, <2>4 DEF RowsOK
<1>6. StatOK(d, torrents)
  BY <1>3, <1>4, <1>5, <1>rows DEF StatOK
<1> QED
  BY <1>1, <1>2, <1>6, ServeInv DEF ReaderOK, d

(* The four reads of a torrent alternate between the two counters.         *)
LEMMA Parity ==
  ASSUME NEW n \in 0..3
  PROVE  /\ (n + 1) % 2 = 1 <=> n % 2 = 0
         /\ \A i \in 1..n : i + 2 = n + 1 => i % 2 = (n + 1) % 2
<1>1. 0 % 2 = 0 /\ 1 % 2 = 1 /\ 2 % 2 = 0 /\ 3 % 2 = 1 /\ 4 % 2 = 0
  BY SMT
<1>2. CASE n = 0
  BY <1>1, <1>2
<1>3. CASE n = 1
  BY <1>1, <1>3
<1>4. CASE n = 2
  BY <1>1, <1>4
<1>5. CASE n = 3
  BY <1>1, <1>5
<1> QED
  BY <1>2, <1>3, <1>4, <1>5

(* The elements of a sequence of numbers.                                  *)
LEMMA ElementNat ==
  ASSUME NEW q \in Seq(Nat), NEW i \in 1..Len(q)
  PROVE  q[i] \in Nat
  OBVIOUS

(* Each read finds the counter where it is now; the one before it of the   *)
(* same counter is still above.                                            *)
LEMMA StatReadInv ==
  ASSUME IndInv, NEW r \in Readers, StatRead(r)
  PROVE  IndInv'
<1> DEFINE s == reader[r]
           t == torrents[s.at].swarm
           n == IF Len(s.reads) % 2 = 0 THEN t.leechers ELSE t.seeders
           d == [s EXCEPT !.reads = Append(s.reads, n)]
           V(i) == IF i % 2 = 1 THEN t.leechers ELSE t.seeders
<1>1. /\ s.op = "stat" /\ s.at # NoKey /\ Len(s.reads) < 4
      /\ Serve(r, d) /\ UNCHANGED <<torrents, now, cleaner>>
  BY DEF StatRead
<1>2. StatOK(s, torrents)
  BY <1>1, ReaderKinds
<1>3. /\ s.at \in DOMAIN torrents /\ s.reads \in Seq(Nat) /\ Len(s.reads) \in Nat
      /\ t.leechers \in Nat /\ t.seeders \in Nat
  BY <1>1, <1>2, CountersAreNumbers DEF StatOK, IndInv
<1>parity. /\ (Len(s.reads) + 1) % 2 = 1 <=> Len(s.reads) % 2 = 0
      /\ \A i \in 1..Len(s.reads) : i + 2 = Len(s.reads) + 1 => i % 2 = (Len(s.reads) + 1) % 2
  <2>1. Len(s.reads) < 4 /\ Len(s.reads) \in Nat
    BY <1>1, <1>3
  <2>2. Len(s.reads) \in 0..3
    <3>1. \A m \in Nat : m < 4 => m \in 0..3
      OBVIOUS
    <3> QED
      BY ONLY <2>1, <3>1, Zenon
  <2> QED
    BY ONLY <2>2, Parity, Zenon
<1>4. n \in Nat
  <2>1. CASE Len(s.reads) % 2 = 0
    <3>1. n = t.leechers
      BY ONLY <2>1, Zenon
    <3> QED
      BY <1>3, <3>1
  <2>2. CASE Len(s.reads) % 2 # 0
    <3>1. n = t.seeders
      BY ONLY <2>2, Zenon
    <3> QED
      BY <1>3, <3>1
  <2> QED
    BY <2>1, <2>2
<1>5. V(Len(s.reads) + 1) = n
  <2>1. CASE Len(s.reads) % 2 = 0
    <3>1. (Len(s.reads) + 1) % 2 = 1
      BY ONLY <1>parity, <2>1, Zenon
    <3> QED
      BY ONLY <2>1, <3>1, Zenon
  <2>2. CASE Len(s.reads) % 2 # 0
    <3>1. (Len(s.reads) + 1) % 2 # 1
      BY ONLY <1>parity, <2>2, Zenon
    <3> QED
      BY ONLY <2>2, <3>1, Zenon
  <2> QED
    BY <2>1, <2>2
<1>6. \A i \in 1..Len(s.reads) : V(i) <= s.reads[i]
  BY <1>2 DEF StatOK
<1>7. \A i \in 1..Len(s.reads) : i + 2 = Len(s.reads) + 1 => V(i) = n
  <2> SUFFICES ASSUME NEW i \in 1..Len(s.reads), i + 2 = Len(s.reads) + 1 PROVE V(i) = n
    OBVIOUS
  <2>parity. i % 2 = (Len(s.reads) + 1) % 2
    BY ONLY <1>parity, i \in 1..Len(s.reads), i + 2 = Len(s.reads) + 1, Zenon
  <2>1. CASE i % 2 = 1
    <3>1. (Len(s.reads) + 1) % 2 = 1
      BY ONLY <2>parity, <2>1, Zenon
    <3> QED
      BY ONLY <1>5, <2>1, <3>1, Zenon
  <2>2. CASE i % 2 # 1
    <3>1. (Len(s.reads) + 1) % 2 # 1
      BY ONLY <2>parity, <2>2, Zenon
    <3> QED
      BY ONLY <1>5, <2>2, <3>1, Zenon
  <2> QED
    BY <2>1, <2>2
<1> HIDE DEF n, V
<1>8. /\ d \in [op : {"stat"}, todo : {d.todo}, at : {d.at}, reads : {d.reads},
               rows : {d.rows}, total : {d.total}, was : {d.was}]
      /\ d.todo = s.todo /\ d.at = s.at /\ d.reads = Append(s.reads, n)
      /\ d.rows = s.rows /\ d.total = s.total /\ d.was = s.was
  BY <1>2 DEF StatOK
<1> HIDE DEF d
<1>9. /\ d.reads \in Seq(Nat) /\ Len(d.reads) = Len(s.reads) + 1
      /\ \A i \in 1..Len(s.reads) : d.reads[i] = s.reads[i]
      /\ d.reads[Len(s.reads) + 1] = n
  BY <1>3, <1>4, <1>8
<1>10. \A i \in 1..Len(d.reads) : V(i) <= d.reads[i]
  <2> SUFFICES ASSUME NEW i \in 1..Len(d.reads) PROVE V(i) <= d.reads[i]
    OBVIOUS
  <2>1. CASE i \in 1..Len(s.reads)
    BY <1>6, <1>9, <2>1
  <2>2. CASE i = Len(s.reads) + 1
    <3>1. V(i) = n /\ d.reads[i] = n
      BY <1>5, <1>9, <2>2
    <3> QED
      BY <1>4, <3>1
  <2>3. Len(s.reads) \in Nat /\ i \in 1 .. Len(s.reads) + 1
    BY <1>3, <1>9
  <2>4. i \in 1..Len(s.reads) \/ i = Len(s.reads) + 1
    BY ONLY <2>3
  <2> QED
    BY ONLY <2>1, <2>2, <2>4, Zenon
<1>11. \A i, j \in 1..Len(d.reads) : j = i + 2 => d.reads[j] <= d.reads[i]
  <2> SUFFICES ASSUME NEW i \in 1..Len(d.reads), NEW j \in 1..Len(d.reads), j = i + 2
               PROVE  d.reads[j] <= d.reads[i]
    OBVIOUS
  <2>1. i \in 1..Len(s.reads) /\ d.reads[i] = s.reads[i] /\ s.reads[i] \in Nat
    <3>1. i \in 1..Len(s.reads)
      BY <1>3, <1>9
    <3>2. s.reads[i] \in Nat
      BY ONLY <1>3, <3>1, ElementNat
    <3> QED
      BY ONLY <1>9, <3>1, <3>2
  <2>2. CASE j \in 1..Len(s.reads)
    BY <1>2, <1>9, <2>1, <2>2 DEF StatOK
  <2>3. CASE j = Len(s.reads) + 1
    <3>1. V(i) = n /\ V(i) <= s.reads[i] /\ d.reads[j] = n
      BY <1>6, <1>7, <1>9, <2>1, <2>3
    <3> QED
      BY <2>1, <3>1
  <2> QED
    BY <1>3, <1>9, <2>2, <2>3
<1>rows. RowsOK(d, torrents)
  <2>1. RowsOK(s, torrents)
    BY <1>2 DEF StatOK
  <2>2. PICK G \in SUBSET DOMAIN torrents :
          G \cap s.todo = {} /\ (s.at # NoKey => s.at \notin G) /\ Rows(s, G)
    BY <2>1 DEF RowsOK
  <2>3. Rows(d, G) /\ G \cap d.todo = {} /\ d.at \notin G
    BY <1>1, <1>8, <2>2 DEF Rows
  <2>4. /\ t.leechers <= s.was[s.at].leechers
        /\ t.seeders <= s.was[s.at].seeders
    BY <1>3, <2>1 DEF RowsOK, Since, Below
  <2>5. V(1) = t.leechers /\ V(2) = t.seeders
    <3>1. 1 % 2 = 1 /\ 2 % 2 # 1
      BY SMT
    <3> QED
      BY ONLY <3>1, Zenon DEF V
  <2>6. Len(d.reads) >= 1 => d.reads[1] <= s.was[s.at].leechers
    <3>1. CASE Len(s.reads) = 0
      <4>1. Len(s.reads) + 1 = 1
        BY ONLY <3>1
      <4>2. d.reads[1] = t.leechers
        BY ONLY <1>5, <1>9, <2>5, <4>1
      <4> QED
        BY ONLY <2>4, <4>2
    <3>2. CASE Len(s.reads) # 0
      <4>1. Len(s.reads) >= 1 /\ 1 \in 1..Len(s.reads)
        BY ONLY <1>3, <3>2
      <4>2. d.reads[1] = s.reads[1] /\ s.reads[1] <= s.was[s.at].leechers
        BY <1>9, <2>1, <4>1 DEF RowsOK
      <4> QED
        BY ONLY <4>2
    <3> QED
      BY ONLY <3>1, <3>2
  <2>7. Len(d.reads) >= 2 => d.reads[2] <= s.was[s.at].seeders
    <3> SUFFICES ASSUME Len(d.reads) >= 2 PROVE d.reads[2] <= s.was[s.at].seeders
      OBVIOUS
    <3>0. Len(s.reads) >= 1
      BY ONLY <1>3, <1>9, Len(d.reads) >= 2
    <3>1. CASE Len(s.reads) = 1
      <4>1. Len(s.reads) + 1 = 2
        BY ONLY <3>1
      <4>2. d.reads[2] = t.seeders
        BY ONLY <1>5, <1>9, <2>5, <4>1
      <4> QED
        BY ONLY <2>4, <4>2
    <3>2. CASE Len(s.reads) # 1
      <4>1. Len(s.reads) >= 2 /\ 2 \in 1..Len(s.reads)
        <5>1. \A m \in Nat : m >= 1 /\ m # 1 => m >= 2 /\ 2 \in 1..m
          OBVIOUS
        <5> QED
          BY ONLY <1>3, <3>0, <3>2, <5>1, Zenon
      <4>2. d.reads[2] = s.reads[2] /\ s.reads[2] <= s.was[s.at].seeders
        BY <1>9, <2>1, <4>1 DEF RowsOK
      <4> QED
        BY ONLY <4>2
    <3> QED
      BY ONLY <3>1, <3>2
  <2>8. /\ DOMAIN d.was = DOMAIN torrents /\ IsFiniteSet(DOMAIN torrents)
        /\ Since(torrents, d.was) /\ (d.at # NoKey => d.at \notin d.todo)
    BY ONLY <1>8, <2>1 DEF RowsOK
  <2> QED
    BY ONLY <1>8, <2>2, <2>3, <2>6, <2>7, <2>8 DEF RowsOK
<1>12. StatOK(d, torrents)
  <2>1. \A i \in 1..Len(d.reads) :
          (IF i % 2 = 1 THEN torrents[d.at].swarm.leechers ELSE torrents[d.at].swarm.seeders)
            <= d.reads[i]
    BY ONLY <1>8, <1>10, Zenon DEF V
  <2> QED
    BY <1>1, <1>2, <1>8, <1>9, <1>11, <1>rows, <2>1 DEF StatOK
<1> QED
  BY <1>1, <1>12, ServeInv DEF ReaderOK

(* The reads for the total were made after those for the row.              *)
LEMMA StatAddInv ==
  ASSUME IndInv, NEW r \in Readers, StatAdd(r)
  PROVE  IndInv'
<1> DEFINE s == reader[r]
           n == s.reads
           d == [s EXCEPT
                   !.at = NoKey, !.reads = << >>,
                   !.rows  = [leechers |-> s.rows.leechers + n[1], seeders |-> s.rows.seeders + n[2]],
                   !.total = [leechers |-> s.total.leechers + n[3],
                              seeders |-> s.total.seeders + n[4]]]
<1>1. s.op = "stat" /\ Len(n) = 4 /\ Serve(r, d) /\ UNCHANGED <<torrents, now, cleaner>>
  BY DEF StatAdd
<1>2. StatOK(s, torrents)
  BY <1>1, ReaderKinds
<1>3. n[1] \in Nat /\ n[2] \in Nat /\ n[3] \in Nat /\ n[4] \in Nat
  <2>1. n \in Seq(Nat) /\ Len(n) = 4
    BY <1>1, <1>2 DEF StatOK
  <2> HIDE DEF n
  <2>2. 1 \in 1..Len(n) /\ 2 \in 1..Len(n) /\ 3 \in 1..Len(n) /\ 4 \in 1..Len(n)
    BY ONLY <2>1
  <2> QED
    BY ONLY <2>1, <2>2, ElementNat
<1>4. n[3] <= n[1] /\ n[4] <= n[2]
  <2>1. \A i, j \in 1..4 : j = i + 2 => n[j] <= n[i]
    BY <1>1, <1>2 DEF StatOK
  <2>2. 1 \in 1..4 /\ 2 \in 1..4 /\ 3 \in 1..4 /\ 4 \in 1..4 /\ 3 = 1 + 2 /\ 4 = 2 + 2
    OBVIOUS
  <2> QED
    BY ONLY <2>1, <2>2
<1>5. /\ d \in [op : {"stat"}, todo : {d.todo}, at : {d.at}, reads : {d.reads},
               rows : {d.rows}, total : {d.total}, was : {d.was}]
      /\ d.todo = s.todo /\ d.at = NoKey /\ d.reads = << >> /\ d.was = s.was
      /\ d.rows = [leechers |-> s.rows.leechers + n[1], seeders |-> s.rows.seeders + n[2]]
      /\ d.total = [leechers |-> s.total.leechers + n[3], seeders |-> s.total.seeders + n[4]]
  BY <1>2 DEF StatOK
<1> HIDE DEF d
<1>6. /\ d.rows \in [leechers : Nat, seeders : Nat]
      /\ d.total \in [leechers : Nat, seeders : Nat]
      /\ d.total.leechers <= d.rows.leechers
      /\ d.total.seeders <= d.rows.seeders
  <2>1. /\ s.rows.leechers \in Nat /\ s.rows.seeders \in Nat
        /\ s.total.leechers \in Nat /\ s.total.seeders \in Nat
        /\ s.total.leechers <= s.rows.leechers
        /\ s.total.seeders <= s.rows.seeders
    BY <1>2 DEF StatOK
  <2>2. /\ d.rows.leechers = s.rows.leechers + n[1] /\ d.rows.seeders = s.rows.seeders + n[2]
        /\ d.total.leechers = s.total.leechers + n[3] /\ d.total.seeders = s.total.seeders + n[4]
    BY ONLY <1>5
  <2>3. /\ d.rows \in [leechers : Nat, seeders : Nat]
        /\ d.total \in [leechers : Nat, seeders : Nat]
    <3>1. /\ s.rows.leechers + n[1] \in Nat /\ s.rows.seeders + n[2] \in Nat
          /\ s.total.leechers + n[3] \in Nat /\ s.total.seeders + n[4] \in Nat
      BY ONLY <1>3, <2>1
    <3>2. /\ d.rows = [leechers |-> s.rows.leechers + n[1], seeders |-> s.rows.seeders + n[2]]
          /\ d.total = [leechers |-> s.total.leechers + n[3],
                        seeders |-> s.total.seeders + n[4]]
      BY ONLY <1>5
    <3> QED
      BY ONLY <3>1, <3>2
  <2> HIDE DEF n
  <2> QED
    BY ONLY <1>3, <1>4, <2>1, <2>2, <2>3
<1>7. << >> \in Seq(Nat) /\ Len(<< >>) = 0
  OBVIOUS
<1>rows. RowsOK(d, torrents)
  <2>1. RowsOK(s, torrents) /\ s.rows.leechers \in Nat /\ s.rows.seeders \in Nat
    BY <1>2 DEF StatOK
  <2>2. s.at # NoKey /\ s.at \in DOMAIN torrents
    <3>1. n # << >>
      <4>1. Len(<< >>) # 4
        OBVIOUS
      <4> QED
        BY ONLY <1>1, <4>1
    <3> QED
      BY <1>2, <3>1 DEF StatOK
  <2>3. PICK V \in SUBSET DOMAIN torrents :
          V \cap s.todo = {} /\ (s.at # NoKey => s.at \notin V) /\ Rows(s, V)
    BY <2>1 DEF RowsOK
  <2>4. IsFiniteSet(V) /\ s.at \notin V /\ s.at \notin s.todo
    BY <2>1, <2>2, <2>3, FS_Subset DEF RowsOK
  <2> DEFINE W == V \cup {s.at}
             L == LeechersOf(s.was)
             S == SeedersOf(s.was)
  <2>5. n[1] <= L[s.at] /\ n[2] <= S[s.at]
    <3>1. 4 >= 1 /\ 4 >= 2
      OBVIOUS
    <3>2. n[1] <= s.was[s.at].leechers /\ n[2] <= s.was[s.at].seeders
      BY <1>1, <2>1, <3>1 DEF RowsOK
    <3>3. L[s.at] = s.was[s.at].leechers /\ S[s.at] = s.was[s.at].seeders
      BY <2>1, <2>2 DEF RowsOK, LeechersOf, SeedersOf
    <3> QED
      BY ONLY <3>2, <3>3
  <2>6. \A x \in W : L[x] \in Nat /\ S[x] \in Nat
    BY <2>1, <2>2 DEF RowsOK, LeechersOf, SeedersOf, Since, Below
  <2> HIDE DEF L, S
  <2>7. /\ Cardinality(Slots(L, W)) = Cardinality(Slots(L, V)) + L[s.at]
        /\ Cardinality(Slots(S, W)) = Cardinality(Slots(S, V)) + S[s.at]
    BY <2>4, <2>6, SlotsAdd
  <2>8. Cardinality(Slots(L, V)) \in Nat /\ Cardinality(Slots(S, V)) \in Nat
    BY <2>4, <2>6, SlotsFinite
  <2>9. L[s.at] \in Nat /\ S[s.at] \in Nat
    BY <2>6
  <2>10. /\ d.rows.leechers = s.rows.leechers + n[1]
         /\ d.rows.seeders = s.rows.seeders + n[2]
    BY ONLY <1>5
  <2>11. /\ s.rows.leechers <= Cardinality(Slots(L, V))
         /\ s.rows.seeders <= Cardinality(Slots(S, V))
    BY <2>3 DEF Rows, L, S
  <2> HIDE DEF n
  <2>12. /\ d.rows.leechers <= Cardinality(Slots(L, W))
         /\ d.rows.seeders <= Cardinality(Slots(S, W))
    BY ONLY <1>3, <2>1, <2>5, <2>7, <2>8, <2>9, <2>10, <2>11
  <2>13. Rows(d, W)
    BY <1>5, <2>12 DEF Rows, L, S
  <2>14. W \in SUBSET DOMAIN torrents /\ W \cap d.todo = {}
    BY <1>5, <2>2, <2>3, <2>4
  <2> HIDE DEF W
  <2> QED
    BY ONLY <1>5, <1>7, <2>1, <2>13, <2>14 DEF RowsOK
<1>8. StatOK(d, torrents)
  BY <1>2, <1>5, <1>6, <1>7, <1>rows DEF StatOK
<1> QED
  BY <1>1, <1>8, ServeInv DEF ReaderOK

(* Every step of a reader.                                                 *)
LEMMA ReadInv ==
  ASSUME IndInv, NEW r \in Readers, Read(r)
  PROVE  IndInv'
<1>1. ASSUME NEW q \in Scrapes, ScrapeBegin(r, q) PROVE IndInv'
  BY <1>1, ScrapeBeginInv
<1>2. CASE ScrapeFind(r)
  BY <1>2, ScrapeFindInv
<1>3. CASE ScrapePush(r)
  BY <1>3, ScrapePushInv
<1>4. CASE PeersStep(r) \/ \E k \in Tracked : PeersBegin(r, k)
  BY <1>4, PeersInv
<1>5. CASE StatBegin(r)
  BY <1>5, StatBeginInv
<1>6. CASE StatVisit(r)
  BY <1>6, StatVisitInv
<1>7. CASE StatRead(r)
  BY <1>7, StatReadInv
<1>8. CASE StatAdd(r)
  BY <1>8, StatAddInv
<1>9. CASE ReadEnd(r)
  <2>1. Serve(r, Idle) /\ UNCHANGED <<torrents, now, cleaner>>
    BY <1>9 DEF ReadEnd
  <2> QED
    BY <2>1, ServeInv DEF ReaderOK
<1> QED
  BY <1>1, <1>2, <1>3, <1>4, <1>5, <1>6, <1>7, <1>8, <1>9 DEF Read

-----------------------------------------------------------------------------
(* Every step of every thread keeps the invariant.                         *)
LEMMA NextInv == IndInv /\ [Next]_vars => IndInv'
<1> SUFFICES ASSUME IndInv, [Next]_vars PROVE IndInv'
  OBVIOUS
<1>1. CASE Write
  BY <1>1, WriteInv
<1>2. CASE Cleanup
  BY <1>2, CleanupInv
<1>3. ASSUME NEW r \in Readers, Read(r) PROVE IndInv'
  BY <1>3, ReadInv
<1>4. CASE Tick
  <2>1. now < MaxTime /\ now' = now + 1 /\ UNCHANGED <<torrents, cleaner, reader>>
    BY <1>4 DEF Tick
  <2>2. now \in Nat /\ MaxTime \in Nat /\ now' \in 0..MaxTime
    BY <2>1, DbInputsAssumption DEF IndInv
  <2>3. DbOK(torrents, now + 1)
    BY <2>2, LaterDb DEF IndInv
  <2>4. CleanerOK(cleaner, torrents, now + 1)
    BY <2>2 DEF IndInv, CleanerOK
  <2> QED
    BY <2>1, <2>2, <2>3, <2>4 DEF IndInv
<1>5. CASE UNCHANGED vars
  BY <1>5 DEF vars, IndInv
<1> QED
  BY <1>1, <1>2, <1>3, <1>4, <1>5 DEF Next

(* The invariant holds of every behaviour of the threads.                  *)
LEMMA Invariance == Spec => []IndInv
  BY InitInv, NextInv, PTL DEF Spec

-----------------------------------------------------------------------------
(* The counters keep their types, and so do the places of the threads.     *)
THEOREM TypeCorrect == Spec => []TypeOK
<1>1. IndInv => TypeOK
  <2> SUFFICES ASSUME IndInv PROVE TypeOK
    OBVIOUS
  <2>1. ASSUME NEW k \in Tracked
        PROVE  /\ torrents[k].hash.type \in {"SHA1", "SHA256"}
               /\ torrents[k].swarm.leechers \in 0..UINT_MAX
               /\ torrents[k].swarm.seeders \in 0..UINT_MAX
               /\ torrents[k].swarm.completed \in 0..UINT_MAX
    <3>1. EntryOK(torrents[k], k, now)
      BY <2>1 DEF IndInv, DbOK, Tracked
    <3>2. IsTorrent(torrents[k].swarm)
      BY <3>1 DEF EntryOK, Healthy, Sound
    <3> QED
      BY <3>1, <3>2 DEF EntryOK, IsTorrent
  <2>2. cleaner.op \in {"wait", "cleanup"}
    BY DEF IndInv, CleanerOK, Waiting
  <2>3. \A r \in Readers : reader[r].op \in {"idle", "scrape", "peers", "stat"}
    BY ReaderKinds
  <2> QED
    BY <2>1, <2>2, <2>3 DEF TypeOK, IndInv
<1> QED
  BY <1>1, Invariance, PTL

(* Every torrent is found under its own key, and its list, index and       *)
(* counters agree, between any two removals of TorrentDb::cleanup too.     *)
THEOREM TorrentsAgree == Spec => []SwarmsAgree
<1>1. IndInv => SwarmsAgree
  BY DEF IndInv, DbOK, EntryOK, Healthy, Sound, SwarmsAgree, Tracked
<1> QED
  BY <1>1, Invariance, PTL

(* A scrape answers for the torrents that are tracked, each as often and   *)
(* in the order it was asked for, and for no other.                        *)
THEOREM ScrapeComplete == Spec => []ScrapeListsTracked
<1>1. IndInv => ScrapeListsTracked
  <2> SUFFICES ASSUME IndInv, NEW r \in Readers, reader[r].op = "scrape", Finished(r)
               PROVE  [i \in DOMAIN reader[r].items |-> reader[r].items[i].info_hash]
                        = Filter(reader[r].asked, LAMBDA h : bytes(h) \in Tracked)
    BY DEF ScrapeListsTracked
  <2> DEFINE s == reader[r]
             P == Seen(s.asked, Len(s.asked), torrents)
  <2>1. ScrapeOK(s, torrents) /\ s.todo = << >>
    BY ReaderKinds DEF Finished
  <2>2. PICK S : s.asked \in Seq(S)
    BY <2>1 DEF ScrapeOK
  <2>3. PICK I : s.items \in Seq(I)
    BY <2>1 DEF ScrapeOK
  <2>4. Len(s.todo) = 0 /\ Len(s.asked) \in Nat /\ Len(s.asked) - 0 = Len(s.asked)
    BY <2>1, <2>2
  <2>5. /\ Len(s.items) = Cardinality(P)
        /\ \A n \in 1..Len(s.items) : s.items[n].info_hash = s.asked[Nth(P, n)]
    BY <2>1, <2>4 DEF ScrapeOK, Walked
  <2>6. P = {i \in DOMAIN s.asked : bytes(s.asked[i]) \in Tracked}
    BY <2>2 DEF Seen, Tracked
  <2>7. Filter(s.asked, LAMBDA h : bytes(h) \in Tracked) = At(s.asked, P)
    BY <2>6 DEF Filter
  <2>8. DOMAIN s.items = 1..Len(s.items)
    BY <2>3
  <2> HIDE DEF s, P
  <2>9. [i \in DOMAIN s.items |-> s.items[i].info_hash] = At(s.asked, P)
    BY <2>5, <2>8 DEF At
  <2> QED
    BY <2>7, <2>9 DEF s
<1> QED
  BY <1>1, Invariance, PTL

(* What TorrentDb::scrape reads without Torrent::lock_ lies between the    *)
(* counters when it locked torrents_lock_ and those of now.                *)
THEOREM ScrapeReadsBetween == Spec => []ScrapeIsRecent
<1>1. IndInv => ScrapeIsRecent
  <2> SUFFICES ASSUME IndInv, NEW r \in Readers, reader[r].op = "scrape",
                      NEW i \in DOMAIN reader[r].items
               PROVE  LET item == reader[r].items[i]
                          k    == bytes(item.info_hash)
                          was  == reader[r].was[k]
                      IN  /\ k \in Tracked
                          /\ torrents[k].swarm.leechers <= item.leechers
                          /\ item.leechers <= was.leechers
                          /\ torrents[k].swarm.seeders <= item.seeders
                          /\ item.seeders <= was.seeders
                          /\ item.completed = was.completed
    BY DEF ScrapeIsRecent
  <2>1. ScrapeOK(reader[r], torrents)
    BY ReaderKinds
  <2>2. PICK S : reader[r].items \in Seq(S)
    BY <2>1 DEF ScrapeOK
  <2>3. i \in 1..Len(reader[r].items)
    BY <2>2
  <2>4. ItemOK(reader[r].items[i], torrents, reader[r].was)
    BY <2>1, <2>3 DEF ScrapeOK
  <2> QED
    BY <2>4 DEF ItemOK, Tracked
<1> QED
  BY <1>1, Invariance, PTL

(* The totals that StatHandler::handle prints are not above its rows.      *)
THEOREM PageTotals == Spec => []TotalsBelowRows
<1>1. IndInv => TotalsBelowRows
  BY ReaderKinds DEF TotalsBelowRows, StatOK
<1> QED
  BY <1>1, Invariance, PTL

(* The rows of StatHandler::handle do not add up to more peers than the    *)
(* tracker had when it locked torrents_lock_: each torrent has one row.    *)
THEOREM PageCountsOnce == Spec => []StatTotalsBounded
<1>1. IndInv => StatTotalsBounded
  <2> SUFFICES ASSUME IndInv, NEW r \in Readers, reader[r].op = "stat"
               PROVE  /\ reader[r].rows.leechers <= Total(LeechersOf(reader[r].was))
                      /\ reader[r].rows.seeders <= Total(SeedersOf(reader[r].was))
    BY DEF StatTotalsBounded
  <2> DEFINE s == reader[r]
             K == DOMAIN s.was
             L == LeechersOf(s.was)
             S == SeedersOf(s.was)
  <2>1. StatOK(s, torrents)
    BY ReaderKinds
  <2>2. RowsOK(s, torrents) /\ s.rows.leechers \in Nat /\ s.rows.seeders \in Nat
    BY <2>1 DEF StatOK
  <2>3. PICK V \in SUBSET K : Rows(s, V)
    BY <2>2 DEF RowsOK
  <2>4. IsFiniteSet(K) /\ \A x \in K : L[x] \in Nat /\ S[x] \in Nat
    BY <2>2 DEF RowsOK, LeechersOf, SeedersOf, Since, Below
  <2>5. Total(L) = Cardinality(Slots(L, K)) /\ Total(S) = Cardinality(Slots(S, K))
    BY DEF Total, LeechersOf, SeedersOf
  <2>6. /\ s.rows.leechers <= Cardinality(Slots(L, V))
        /\ s.rows.seeders <= Cardinality(Slots(S, V))
    BY <2>3 DEF Rows
  <2> HIDE DEF L, S, K
  <2>7. IsFiniteSet(Slots(L, K)) /\ IsFiniteSet(Slots(S, K))
    BY <2>4, SlotsFinite
  <2>8. Slots(L, V) \in SUBSET Slots(L, K) /\ Slots(S, V) \in SUBSET Slots(S, K)
    BY <2>3 DEF Slots
  <2>9. /\ Cardinality(Slots(L, V)) <= Cardinality(Slots(L, K))
        /\ Cardinality(Slots(S, V)) <= Cardinality(Slots(S, K))
    BY <2>7, <2>8, FS_Subset
  <2>10. /\ Cardinality(Slots(L, K)) \in Nat /\ Cardinality(Slots(S, K)) \in Nat
         /\ Cardinality(Slots(L, V)) \in Nat /\ Cardinality(Slots(S, V)) \in Nat
    BY <2>7, <2>8, FS_Subset, FS_CardinalityType
  <2>11. s.rows.leechers <= Total(L) /\ s.rows.seeders <= Total(S)
    BY ONLY <2>2, <2>5, <2>6, <2>9, <2>10
  <2> QED
    BY <2>11 DEF L, S
<1> QED
  BY <1>1, Invariance, PTL

-----------------------------------------------------------------------------
(* What a step does to one torrent: nothing, an announce for its own hash, *)
(* or the removal of a peer that has timed out.                            *)
StepOf(k, t, u, n) ==
  \/ u = t
  \/ \E req \in Requests :
       HandleAnnounce(req) /\ bytes(req.info_hash) = k /\ u = Announce(t, req, n)
  \/ Expired(t, u, n)

(* Every step is such a step of every torrent that stays tracked, and the  *)
(* clock advances alone.                                                   *)
LEMMA TorrentSteps ==
  ASSUME IndInv, Next, NEW k \in Tracked \cap Tracked'
  PROVE  /\ StepOf(k, torrents[k].swarm, torrents'[k].swarm, now)
         /\ \/ now' = now
            \/ now' = now + 1 /\ torrents' = torrents
<1>1. DbOK(torrents, now) /\ k \in DOMAIN torrents
  BY DEF IndInv, Tracked
<1>2. CASE torrents' = torrents /\ (now' = now \/ now' = now + 1)
  BY <1>2 DEF StepOf
<1>3. ASSUME NEW req \in Requests, HandleAnnounce(req)
      PROVE  StepOf(k, torrents[k].swarm, torrents'[k].swarm, now)
  <2> DEFINE j == bytes(req.info_hash)
             s == Announce(torrents[j].swarm, req, now)
  <2>1. CASE j \in Tracked
    <3>1. torrents' = [torrents EXCEPT ![j].swarm = s]
      BY <1>3, <2>1 DEF HandleAnnounce
    <3>2. Replaced(torrents, [torrents EXCEPT ![j].swarm = s], j, s)
      BY ONLY <1>1, <2>1, AssignSwarm DEF Tracked
    <3>3. Replaced(torrents, torrents', j, s)
      BY ONLY <3>1, <3>2
    <3> HIDE DEF s
    <3>4. CASE j = k
      <4>1. torrents'[k].swarm = s
        BY <3>3, <3>4 DEF Replaced
      <4> QED
        BY <1>3, <3>4, <4>1 DEF StepOf, s
    <3>5. CASE j # k
      BY <1>1, <3>3, <3>5 DEF Replaced, StepOf
    <3> QED
      BY <3>4, <3>5
  <2>2. CASE j \notin Tracked
    BY <1>3, <2>2 DEF HandleAnnounce, StepOf
  <2> QED
    BY <2>1, <2>2
<1>4. ASSUME NEW f \in Files, AddTorrent(f) PROVE torrents'[k] = torrents[k]
  BY <1>4 DEF AddTorrent, Tracked
<1>5. ASSUME NEW j \in Tracked, RemoveTorrent(j) PROVE torrents'[k] = torrents[k]
  BY <1>5 DEF RemoveTorrent, Tracked
<1>6. CASE Write
  <2>1. now' = now
    BY <1>6 DEF Write, HandleAnnounce, AddTorrent, RemoveTorrent
  <2> QED
    BY <1>3, <1>4, <1>5, <1>6, <2>1 DEF Write, StepOf
<1>7. CASE CleanupRemove
  <2>1. now' = now
    BY <1>7 DEF CleanupRemove
  <2>2. CASE k = cleaner.at
    BY <1>7, <2>1, <2>2, CleanupRemoveStep DEF StepOf
  <2>3. CASE k # cleaner.at
    BY <1>7, <2>1, <2>3, CleanupRemoveStep DEF StepOf
  <2> QED
    BY <2>2, <2>3
<1>8. CASE CleanupBegin \/ CleanupVisit \/ CleanupLeave \/ CleanupEnd
  <2>1. torrents' = torrents /\ now' = now
    BY <1>8 DEF CleanupBegin, CleanupVisit, CleanupLeave, CleanupEnd
  <2> QED
    BY <1>2, <2>1
<1>9. ASSUME NEW r \in Readers, Read(r) PROVE torrents' = torrents /\ now' = now
  BY <1>9 DEF Read, ScrapeBegin, ScrapeFind, ScrapePush, PeersBegin, PeersStep, StatBegin,
     StatVisit, StatRead, StatAdd, ReadEnd
<1>10. CASE Tick
  BY <1>2, <1>10 DEF Tick
<1> QED
  BY <1>2, <1>6, <1>7, <1>8, <1>9, <1>10 DEF Next, Cleanup

(* A torrent begins empty: only TorrentDb::addTorrent adds one.            *)
LEMMA TorrentsBegin ==
  ASSUME IndInv, Next, NEW k \in Tracked' \ Tracked
  PROVE  Begins(torrents'[k].swarm)
<1>1. k \in DOMAIN torrents' /\ k \notin DOMAIN torrents
  BY DEF Tracked
<1>2. ASSUME NEW f \in Files, AddTorrent(f) PROVE Begins(torrents'[k].swarm)
  <2>1. torrents'[k].swarm = NewTorrent
    BY <1>1, <1>2 DEF AddTorrent, Tracked
  <2> QED
    BY <2>1 DEF NewTorrent, Begins
<1>3. ASSUME NEW req \in Requests, HandleAnnounce(req) PROVE DOMAIN torrents' = DOMAIN torrents
  BY <1>3 DEF HandleAnnounce
<1>4. ASSUME NEW j \in Tracked, RemoveTorrent(j) PROVE k \notin DOMAIN torrents'
  BY <1>1, <1>4 DEF RemoveTorrent, Tracked
<1>5. CASE CleanupRemove
  BY <1>1, <1>5, CleanupRemoveStep DEF GoesDown
<1>6. CASE CleanupBegin \/ CleanupVisit \/ CleanupLeave \/ CleanupEnd
  BY <1>1, <1>6 DEF CleanupBegin, CleanupVisit, CleanupLeave, CleanupEnd
<1>7. ASSUME NEW r \in Readers, Read(r) PROVE torrents' = torrents
  BY <1>7 DEF Read, ScrapeBegin, ScrapeFind, ScrapePush, PeersBegin, PeersStep, StatBegin,
     StatVisit, StatRead, StatAdd, ReadEnd
<1>8. CASE Tick
  BY <1>1, <1>8 DEF Tick
<1> QED
  BY <1>1, <1>2, <1>3, <1>4, <1>5, <1>6, <1>7, <1>8 DEF Next, Write, Cleanup

(* The table of peers of module Swarm, in the terms of the torrents.       *)
LEMMA SameKey == \A k, a : SwarmOf(k)!Key(a) = Key(a)
BY DEF SwarmOf!Key, Key, SwarmOf!AF_INET, AF_INET

(* It counts as the torrents do.                                           *)
LEMMA SameCardinality == \A k, S : SwarmOf(k)!Cardinality(S) = Cardinality(S)
BY DEF SwarmOf!Cardinality, Cardinality, SwarmOf!IsFiniteSet, IsFiniteSet

(* It drops and enters peers as they do.                                   *)
LEMMA SameTable ==
  /\ \A k, f, x : SwarmOf(k)!Without(f, x) = Dropped(f, x)
  /\ \A k, f, req : SwarmOf(k)!With(f, req) = Entered(f, req, now)
BY SameKey DEF SwarmOf!Without, Dropped, SwarmOf!With, Entered, PeerOf

(* Torrent::announce is an arrival at the table or a departure from it.    *)
LEMMA AnnounceRefines ==
  ASSUME IndInv, NEW k \in Tracked, NEW req \in Requests, bytes(req.info_hash) = k,
         torrents'[k].swarm = Announce(torrents[k].swarm, req, now), now' = now
  PROVE  SwarmOf(k)!Next
<1> DEFINE t == torrents[k].swarm
           u == torrents'[k].swarm
<1>1. now \in Nat /\ Healthy(t, now) /\ IsRequest(req)
  BY RequestsAssumption DEF IndInv, DbOK, EntryOK, Tracked
<1>2. TableStep(t, u, req, now)
  BY <1>1, AnnounceIsTableStep
<1>3. CASE req.event = "stopped"
  <2>1. SwarmOf(k)!Depart(req)
    BY <1>2, <1>3, SameKey, SameTable DEF TableStep, SwarmOf!Depart
  <2> QED
    BY <2>1 DEF SwarmOf!Next
<1>4. CASE req.event # "stopped"
  <2>1. SwarmOf(k)!Tally(req)
    BY <1>2, <1>4, SameKey DEF TableStep, SwarmOf!Tally, SwarmOf!IsLeecher, Completes, Inc
  <2>2. SwarmOf(k)!Arrive(req)
    BY <1>2, <1>4, <2>1, SameTable, SameCardinality DEF TableStep, SwarmOf!Arrive, SwarmOf!Oldest
  <2> QED
    BY <2>2 DEF SwarmOf!Next
<1> QED
  BY <1>3, <1>4

(* Each torrent is a table of peers of module Swarm from when it is added  *)
(* until it is removed, beside any other torrents, sweeps and readers.     *)
THEOREM EachIsASwarm == Spec => TorrentsImplementSwarm
<1> DEFINE Steps == /\ \A k \in Tracked' \ Tracked : Begins(torrents'[k].swarm)
                    /\ \A k \in Tracked \cap Tracked' : [SwarmOf(k)!Next]_(SwarmOf(k)!vars)
<1>1. IndInv /\ [Next]_vars => [Steps]_vars
  <2> SUFFICES ASSUME IndInv, Next PROVE Steps
    OBVIOUS
  <2>1. \A k \in Tracked' \ Tracked : Begins(torrents'[k].swarm)
    BY TorrentsBegin
  <2>2. ASSUME NEW k \in Tracked \cap Tracked' PROVE [SwarmOf(k)!Next]_(SwarmOf(k)!vars)
    <3> DEFINE t == torrents[k].swarm
               u == torrents'[k].swarm
    <3>1. StepOf(k, t, u, now) /\ (now' = now \/ (now' = now + 1 /\ torrents' = torrents))
      BY TorrentSteps
    <3>2. CASE now' = now + 1 /\ torrents' = torrents
      BY <3>2 DEF SwarmOf!Next, SwarmOf!Tick
    <3>3. CASE now' = now /\ u = t
      BY <3>3 DEF SwarmOf!vars
    <3>4. ASSUME NEW req \in Requests, bytes(req.info_hash) = k, u = Announce(t, req, now),
                 now' = now
          PROVE  SwarmOf(k)!Next
      BY <3>4, AnnounceRefines
    <3>5. CASE now' = now /\ Expired(t, u, now)
      <4>1. SwarmOf(k)!Expire
        BY <3>5, SameTable DEF Expired, SwarmOf!Expire
      <4> QED
        BY <4>1 DEF SwarmOf!Next
    <3> QED
      BY <3>1, <3>2, <3>3, <3>4, <3>5 DEF StepOf
  <2> QED
    BY <2>1, <2>2
<1> QED
  BY <1>1, Invariance, PTL DEF Spec, TorrentsImplementSwarm

(* A live peer leaves a torrent that stays tracked only in a step of       *)
(* TorrentDb::announce for that torrent, by its own stop or by somebody    *)
(* new in a full one, whatever scans, sweeps, scrapes and pages do.        *)
THEOREM LivePeersStay == Spec => SwarmsSurvive
<1> DEFINE Kept == \A k \in Tracked \cap Tracked' :
                     \A x \in DOMAIN torrents[k].swarm.peers :
                       \/ x \in DOMAIN torrents'[k].swarm.peers
                       \/ torrents[k].swarm.peers[x].timeout_ts <= now
                       \/ \E req \in Requests : HandleAnnounce(req) /\ MayReplace(req, k, x)
<1>1. IndInv /\ [Next]_vars => [Kept]_vars
  <2> SUFFICES ASSUME IndInv, Next,
                      NEW k \in Tracked \cap Tracked', NEW x \in DOMAIN torrents[k].swarm.peers
               PROVE  \/ x \in DOMAIN torrents'[k].swarm.peers
                      \/ torrents[k].swarm.peers[x].timeout_ts <= now
                      \/ \E req \in Requests : HandleAnnounce(req) /\ MayReplace(req, k, x)
    OBVIOUS
  <2> DEFINE t == torrents[k].swarm
             u == torrents'[k].swarm
  <2>1. now \in Nat /\ Healthy(t, now)
    BY DEF IndInv, DbOK, EntryOK, Tracked
  <2>2. ASSUME NEW req \in Requests, bytes(req.info_hash) = k, u = Announce(t, req, now)
        PROVE  x \in DOMAIN u.peers \/ MayReplace(req, k, x)
    <3>1. \/ x \in DOMAIN u.peers
          \/ req.event = "stopped" /\ Key(req.addr) = x
          \/ /\ req.event # "stopped"
             /\ Cardinality(DOMAIN t.peers) = MAX_PEERS
             /\ Key(req.addr) \notin DOMAIN t.peers
      BY <2>1, <2>2, RequestsAssumption, AnnounceKeeps
    <3> QED
      BY <2>2, <3>1 DEF MayReplace
  <2>3. CASE Expired(t, u, now)
    BY <2>3 DEF Expired, Dropped
  <2>4. StepOf(k, t, u, now)
    BY TorrentSteps
  <2> QED
    BY <2>2, <2>3, <2>4 DEF StepOf
<1> QED
  BY <1>1, Invariance, PTL DEF Spec, SwarmsSurvive
============================================================================
