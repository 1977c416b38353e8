----------------------------- MODULE TorrentDb -----------------------------
(***************************************************************************)
(* The in-memory torrent database (hefur/torrent-db.cc) and the threads    *)
(* that share it.                                                          *)
(*                                                                         *)
(* torrents_lock_ is a shared mutex.  Announcing, adding and removing hold *)
(* it exclusively, so each of them is one step, taken when nobody holds    *)
(* the shared side.  The scrape, the pages and the cleanup thread hold the *)
(* shared side and run side by side, one step per read or removal: only    *)
(* the cleanup thread takes Torrent::lock_ as well, and the others read    *)
(* counters and list nodes while it changes them.                          *)
(***************************************************************************)
EXTENDS TorrentTypes, InfoHash

CONSTANTS
  Files,       \* the torrents that may be added: [hash, path]
  Scrapes,     \* scrape requests: sequences of info hashes
  Readers,     \* threads that serve scrapes and pages
  Operations,  \* what the readers serve: "scrape", "peers", "stat"
  MaxTime      \* bound of the clock

ASSUME DbInputsAssumption ==
  /\ \A req \in Requests : req.info_hash.type \in HashTypes
  /\ \A f \in Files : f.hash.type \in {"SHA1", "SHA256"}
  /\ \A q \in Scrapes : q \in Seq(ToSet(q)) /\ \A i \in DOMAIN q : q[i].type \in HashTypes
  /\ Operations \subseteq {"scrape", "peers", "stat"}
  /\ MaxTime \in Nat

VARIABLES
  torrents,    \* the trie torrents_: from 20-byte keys to Torrent objects
  now,         \* the coarse monotonic clock
  cleaner,     \* what the cleanup thread is doing
  reader       \* what each reader is doing

vars == <<torrents, now, cleaner, reader>>

NoKey == [none |-> TRUE]
Idle == [op |-> "idle"]
Waiting == [op |-> "wait"]

Tracked == DOMAIN torrents

(* Somebody holds torrents_lock_ shared.                                   *)
ReadLocked == cleaner # Waiting \/ \E r \in Readers : reader[r] # Idle

-----------------------------------------------------------------------------
Init ==
  /\ torrents = [k \in {} |-> 0]
  /\ now = 0
  /\ cleaner = Waiting
  /\ reader = [r \in Readers |-> Idle]

Tick ==
  /\ now < MaxTime
  /\ now' = now + 1
  /\ UNCHANGED <<torrents, cleaner, reader>>

(* Slip: the announce takes torrents_lock_ shared.                         *)
HandleAnnounce_Shared(req) ==
  LET k == bytes(req.info_hash) IN
  /\ IF k \in Tracked
       THEN torrents' = [torrents EXCEPT ![k].swarm = Announce(@, req, now)]
       ELSE UNCHANGED torrents
  /\ UNCHANGED <<now, cleaner, reader>>

(* TorrentDb::announce.  A request whose bytes the trie does not hold is   *)
(* answered "torrent not found".                                           *)
HandleAnnounce(req) ==
  LET k == bytes(req.info_hash) IN
  /\ ~ ReadLocked
  /\ IF k \in Tracked
       THEN torrents' = [torrents EXCEPT ![k].swarm = Announce(@, req, now)]
       ELSE UNCHANGED torrents
  /\ UNCHANGED <<now, cleaner, reader>>

(* Slips: the whole hash is the key; a torrent that is there is replaced.  *)
AddTorrent_WholeHash(f) ==
  /\ ~ ReadLocked
  /\ torrents' = [x \in Tracked \cup {bytes(f.hash)} |->
                    IF x \in Tracked THEN torrents[x]
                    ELSE [hash |-> f.hash, path |-> f.path, swarm |-> NewTorrent]]
  /\ UNCHANGED <<now, cleaner, reader>>

AddTorrent_Replace(f) ==
  LET k == torrentKey(f.hash) IN
  /\ ~ ReadLocked
  /\ torrents' = [x \in Tracked \cup {k} |->
                    IF x # k THEN torrents[x]
                    ELSE [hash |-> f.hash, path |-> f.path, swarm |-> NewTorrent]]
  /\ UNCHANGED <<now, cleaner, reader>>

(* TorrentDb::addTorrent, which drops a torrent that is already there.     *)
AddTorrent(f) ==
  LET k == torrentKey(f.hash) IN
  /\ ~ ReadLocked
  /\ torrents' = [x \in Tracked \cup {k} |->
                    IF x \in Tracked THEN torrents[x]
                    ELSE [hash |-> f.hash, path |-> f.path, swarm |-> NewTorrent]]
  /\ UNCHANGED <<now, cleaner, reader>>

(* TorrentDb::removeTorrent                                                *)
RemoveTorrent(k) ==
  /\ ~ ReadLocked
  /\ torrents' = [x \in Tracked \ {k} |-> torrents[x]]
  /\ UNCHANGED <<now, cleaner, reader>>

-----------------------------------------------------------------------------
(* The cleanup thread: TorrentDb::cleanup locks shared and visits every    *)
(* torrent; Torrent::cleanup reads the clock and removes from the front of *)
(* the list while that has timed out.                                      *)

(* Slip: the cleanup thread takes torrents_lock_ exclusively.              *)
CleanupBegin_Exclusive ==
  /\ ~ ReadLocked
  /\ cleaner' = [op |-> "cleanup", todo |-> Tracked, at |-> NoKey, ts |-> 0]
  /\ UNCHANGED <<torrents, now, reader>>

CleanupBegin ==
  /\ cleaner = Waiting
  /\ cleaner' = [op |-> "cleanup", todo |-> Tracked, at |-> NoKey, ts |-> 0]
  /\ UNCHANGED <<torrents, now, reader>>

CleanupVisit ==
  /\ cleaner # Waiting
  /\ cleaner.at = NoKey
  /\ \E k \in cleaner.todo :
       cleaner' = [cleaner EXCEPT !.todo = @ \ {k}, !.at = k, !.ts = now]
  /\ UNCHANGED <<torrents, now, reader>>

CleanupRemove ==
  /\ cleaner # Waiting
  /\ cleaner.at # NoKey
  /\ LET k == cleaner.at IN
       /\ FrontExpired(torrents[k].swarm, cleaner.ts)
       /\ torrents' = [torrents EXCEPT ![k].swarm = RemovePeer(@, Head(@.timeouts))]
  /\ UNCHANGED <<now, cleaner, reader>>

CleanupLeave ==
  /\ cleaner # Waiting
  /\ cleaner.at # NoKey
  /\ ~ FrontExpired(torrents[cleaner.at].swarm, cleaner.ts)
  /\ cleaner' = [cleaner EXCEPT !.at = NoKey, !.ts = 0]
  /\ UNCHANGED <<torrents, now, reader>>

CleanupEnd ==
  /\ cleaner # Waiting
  /\ cleaner.at = NoKey
  /\ cleaner.todo = {}
  /\ cleaner' = Waiting
  /\ UNCHANGED <<torrents, now, reader>>

Cleanup ==
  CleanupBegin \/ CleanupVisit \/ CleanupRemove \/ CleanupLeave \/ CleanupEnd

-----------------------------------------------------------------------------
(* The readers.                                                            *)

Serve(r, s) == reader' = [reader EXCEPT ![r] = s]

(* The counters of every torrent, as they were when a reader began.  Kept  *)
(* to state what it may report.                                            *)
Counters == [k \in Tracked |-> [leechers  |-> torrents[k].swarm.leechers,
                                seeders   |-> torrents[k].swarm.seeders,
                                completed |-> torrents[k].swarm.completed]]

(* TorrentDb::scrape                                                       *)
ScrapeBegin(r, q) ==
  /\ "scrape" \in Operations
  /\ reader[r] = Idle
  /\ Serve(r, [op |-> "scrape", asked |-> q, todo |-> q, leechers |-> -1,
               items |-> << >>, was |-> Counters])
  /\ UNCHANGED <<torrents, now, cleaner>>

(* Slip: a hash that is not in the trie ends the loop.                     *)
ScrapeFind_Break(r) ==
  /\ reader[r].op = "scrape"
  /\ reader[r].todo # << >>
  /\ reader[r].leechers = -1
  /\ LET k == bytes(Head(reader[r].todo)) IN
       IF k \in Tracked
         THEN Serve(r, [reader[r] EXCEPT !.leechers = torrents[k].swarm.leechers])
         ELSE Serve(r, [reader[r] EXCEPT !.todo = << >>])
  /\ UNCHANGED <<torrents, now, cleaner>>

(* It skips a hash that is not in the trie, or reads the first counter ... *)
ScrapeFind(r) ==
  /\ reader[r].op = "scrape"
  /\ reader[r].todo # << >>
  /\ reader[r].leechers = -1
  /\ LET k == bytes(Head(reader[r].todo)) IN
       IF k \in Tracked
         THEN Serve(r, [reader[r] EXCEPT !.leechers = torrents[k].swarm.leechers])
         ELSE Serve(r, [reader[r] EXCEPT !.todo = Tail(@)])
  /\ UNCHANGED <<torrents, now, cleaner>>

(* ... and then the other two; the cleanup thread never writes completed_. *)
ScrapePush(r) ==
  /\ reader[r].op = "scrape"
  /\ reader[r].leechers # -1
  /\ LET h == Head(reader[r].todo)
         t == torrents[bytes(h)].swarm
         item == [info_hash |-> h, leechers |-> reader[r].leechers,
                  seeders |-> t.seeders, completed |-> t.completed]
     IN  Serve(r, [reader[r] EXCEPT !.todo = Tail(@), !.leechers = -1,
                                    !.items = Append(@, item)])
  /\ UNCHANGED <<torrents, now, cleaner>>

(* The page of a torrent's peers, PeersHandler::handle: a walk along the   *)
(* list.  The key is a base-16 hash of 20 or 32 bytes, cut to 20.          *)
NextIn(s, k) == LET i == CHOOSE i \in DOMAIN s : s[i] = k
                IN  IF i = Len(s) THEN NoKey ELSE s[i + 1]

PeersBegin(r, k) ==
  /\ "peers" \in Operations
  /\ reader[r] = Idle
  /\ k \in Tracked               \* otherwise: 404, the lock is released
  /\ LET s == torrents[k].swarm.timeouts
     IN  Serve(r, [op |-> "peers", key |-> k,
                   at |-> IF s = << >> THEN NoKey ELSE Head(s)])
  /\ UNCHANGED <<torrents, now, cleaner>>

(* One peer of the page, and ++it.  If the cleanup thread has deleted the  *)
(* peer meanwhile its memory is read after it was freed, and the iterator  *)
(* may end up anywhere.                                                    *)
PeersStep(r) ==
  /\ reader[r].op = "peers"
  /\ reader[r].at # NoKey
  /\ LET s == torrents[reader[r].key].swarm.timeouts IN
       \E next \in IF reader[r].at \in ToSet(s) THEN {NextIn(s, reader[r].at)}
                                               ELSE ToSet(s) \cup {NoKey} :
         Serve(r, [reader[r] EXCEPT !.at = next])
  /\ UNCHANGED <<torrents, now, cleaner>>

(* The page of all torrents, StatHandler::handle.  For each torrent the    *)
(* two counters are read for its row and once more for the totals.         *)
StatBegin(r) ==
  /\ "stat" \in Operations
  /\ reader[r] = Idle
  /\ Serve(r, [op |-> "stat", todo |-> Tracked, at |-> NoKey, reads |-> << >>,
               rows |-> [leechers |-> 0, seeders |-> 0],
               total |-> [leechers |-> 0, seeders |-> 0], was |-> Counters])
  /\ UNCHANGED <<torrents, now, cleaner>>

StatVisit(r) ==
  /\ reader[r].op = "stat"
  /\ reader[r].at = NoKey
  /\ \E k \in reader[r].todo :
       Serve(r, [reader[r] EXCEPT !.todo = @ \ {k}, !.at = k])
  /\ UNCHANGED <<torrents, now, cleaner>>

StatRead(r) ==
  /\ reader[r].op = "stat"
  /\ reader[r].at # NoKey
  /\ Len(reader[r].reads) < 4
  /\ LET t == torrents[reader[r].at].swarm
         n == IF Len(reader[r].reads) % 2 = 0 THEN t.leechers ELSE t.seeders
     IN  Serve(r, [reader[r] EXCEPT !.reads = Append(@, n)])
  /\ UNCHANGED <<torrents, now, cleaner>>

(* Slip: the totals are added up before the row is written.                *)
StatAdd_TotalsFirst(r) ==
  /\ reader[r].op = "stat"
  /\ Len(reader[r].reads) = 4
  /\ LET n == reader[r].reads IN
       Serve(r, [reader[r] EXCEPT
                   !.at = NoKey, !.reads = << >>,
                   !.rows  = [leechers |-> @.leechers + n[3], seeders |-> @.seeders + n[4]],
                   !.total = [leechers |-> @.leechers + n[1], seeders |-> @.seeders + n[2]]])
  /\ UNCHANGED <<torrents, now, cleaner>>

(* rows adds up what the page shows line by line, total what it prints     *)
(* below.                                                                  *)
StatAdd(r) ==
  /\ reader[r].op = "stat"
  /\ Len(reader[r].reads) = 4
  /\ LET n == reader[r].reads IN
       Serve(r, [reader[r] EXCEPT
                   !.at = NoKey, !.reads = << >>,
                   !.rows  = [leechers |-> @.leechers + n[1], seeders |-> @.seeders + n[2]],
                   !.total = [leechers |-> @.leechers + n[3], seeders |-> @.seeders + n[4]]])
  /\ UNCHANGED <<torrents, now, cleaner>>

(* Nothing is left to visit: the reader unlocks and sends its answer.      *)
Finished(r) ==
  CASE reader[r].op = "scrape" -> reader[r].todo = << >>
    [] reader[r].op = "peers"  -> reader[r].at = NoKey
    [] reader[r].op = "stat"   -> reader[r].todo = {} /\ reader[r].at = NoKey
    [] OTHER                   -> FALSE

ReadEnd(r) ==
  /\ Finished(r)
  /\ Serve(r, Idle)
  /\ UNCHANGED <<torrents, now, cleaner>>

Read(r) ==
  \/ \E q \in Scrapes : ScrapeBegin(r, q)
  \/ ScrapeFind(r)
  \/ ScrapePush(r)
  \/ \E k \in Tracked : PeersBegin(r, k)
  \/ PeersStep(r)
  \/ StatBegin(r)
  \/ StatVisit(r)
  \/ StatRead(r)
  \/ StatAdd(r)
  \/ ReadEnd(r)

-----------------------------------------------------------------------------
Write ==
  \/ \E req \in Requests : HandleAnnounce(req)
  \/ \E f \in Files : AddTorrent(f)
  \/ \E k \in Tracked : RemoveTorrent(k)

Next == Write \/ Cleanup \/ (\E r \in Readers : Read(r)) \/ Tick

Spec == Init /\ [][Next]_vars

(* TorrentDb::cleanupLoop calls cleanup() every minute from its own thread *)
(* and takes the lock shared, which readers do not hinder.                 *)
FairSpec == Spec /\ WF_vars(Cleanup)

-----------------------------------------------------------------------------
TypeOK ==
  /\ \A k \in Tracked :
       /\ torrents[k].hash.type \in {"SHA1", "SHA256"}
       /\ torrents[k].swarm.leechers \in 0..UINT_MAX
       /\ torrents[k].swarm.seeders \in 0..UINT_MAX
       /\ torrents[k].swarm.completed \in 0..UINT_MAX
  /\ now \in 0..MaxTime
  /\ cleaner.op \in {"wait", "cleanup"}
  /\ \A r \in Readers : reader[r].op \in {"idle", "scrape", "peers", "stat"}

(* Every torrent is found under the first 20 bytes of its hash, and its    *)
(* list, index and counters agree, between any two removals of a sweep of  *)
(* the cleanup thread too.                                                 *)
SwarmsAgree ==
  \A k \in Tracked :
    /\ torrentKey(torrents[k].hash) = k
    /\ Indexed(torrents[k].swarm)
    /\ Counted(torrents[k].swarm)
    /\ Sorted(torrents[k].swarm)

(* A scrape answers exactly for the torrents that are tracked, in the      *)
(* order of the request: no torrent appears or goes away while it holds    *)
(* the lock.                                                               *)
ScrapeListsTracked ==
  \A r \in Readers :
    reader[r].op = "scrape" /\ Finished(r) =>
      [i \in DOMAIN reader[r].items |-> reader[r].items[i].info_hash]
        = Filter(reader[r].asked, LAMBDA h : bytes(h) \in Tracked)

(* The scrape reads the counters without Torrent::lock_.  Still each one   *)
(* lies between its value when the lock was taken and its value now: only  *)
(* the cleanup thread works meanwhile, and that only counts down.          *)
ScrapeIsRecent ==
  \A r \in Readers :
    reader[r].op = "scrape" =>
      \A i \in DOMAIN reader[r].items :
        LET item == reader[r].items[i]
            k    == bytes(item.info_hash)
            was  == reader[r].was[k]
        IN  /\ k \in Tracked
            /\ torrents[k].swarm.leechers <= item.leechers
            /\ item.leechers <= was.leechers
            /\ torrents[k].swarm.seeders <= item.seeders
            /\ item.seeders <= was.seeders
            /\ item.completed = was.completed

(* The totals of the page of torrents are read apart from its rows.  They  *)
(* may be smaller than the sum of the rows, never larger: a sweep that     *)
(* goes on meanwhile only counts down.                                     *)
TotalsBelowRows ==
  \A r \in Readers :
    reader[r].op = "stat" =>
      /\ reader[r].total.leechers <= reader[r].rows.leechers
      /\ reader[r].total.seeders <= reader[r].rows.seeders

(* The sum of the numbers n[k], counted as pairs.                          *)
Slots(n, V) == UNION {{k} \X (1..n[k]) : k \in V}

Total(n) == Cardinality(Slots(n, DOMAIN n))

LeechersOf(was) == [k \in DOMAIN was |-> was[k].leechers]
SeedersOf(was)  == [k \in DOMAIN was |-> was[k].seeders]

(* The rows do not show more peers than the tracker had when the page was  *)
(* begun: no torrent is counted twice, and none grows meanwhile.           *)
StatTotalsBounded ==
  \A r \in Readers :
    reader[r].op = "stat" =>
      /\ reader[r].rows.leechers <= Total(LeechersOf(reader[r].was))
      /\ reader[r].rows.seeders <= Total(SeedersOf(reader[r].was))

(* A torrent is, from when it is added until it is removed, a table of     *)
(* peers as module Swarm promises, of which only announces for its own     *)
(* hash are arrivals and departures: whatever the other torrents, the      *)
(* sweep and the readers do in between, every step is one of that table.   *)
(* In particular adding a torrent again, which every scan of the white     *)
(* list does, does not reset it.                                           *)
SwarmOf(k) == INSTANCE Swarm WITH swarm    <- torrents[k].swarm.peers,
                                  done     <- torrents[k].swarm.completed,
                                  time     <- now,
                                  CountMax <- UINT_MAX,
                                  Requests <- {req \in Requests : bytes(req.info_hash) = k}

Begins(t) == DOMAIN t.peers = {} /\ t.completed = 0

TorrentsImplementSwarm ==
  [][/\ \A k \in Tracked' \ Tracked : Begins(torrents'[k].swarm)
     /\ \A k \in Tracked \cap Tracked' : [SwarmOf(k)!Next]_(SwarmOf(k)!vars)]_vars

(* A live peer of a torrent that stays tracked leaves it only in the step  *)
(* of an announce for that very torrent: its own stop, or the announce of  *)
(* somebody new when the torrent is full.  No scan, sweep, page or clock   *)
(* removes it.  This is what the table means to a client.                  *)
MayReplace(req, k, x) ==
  /\ bytes(req.info_hash) = k
  /\ \/ req.event = "stopped" /\ Key(req.addr) = x
     \/ /\ req.event # "stopped"
        /\ Cardinality(DOMAIN torrents[k].swarm.peers) = MAX_PEERS
        /\ Key(req.addr) \notin DOMAIN torrents[k].swarm.peers

SwarmsSurvive ==
  [][\A k \in Tracked \cap Tracked' :
       \A x \in DOMAIN torrents[k].swarm.peers :
         \/ x \in DOMAIN torrents'[k].swarm.peers
         \/ torrents[k].swarm.peers[x].timeout_ts <= now
         \/ \E req \in Requests : HandleAnnounce(req) /\ MayReplace(req, k, x)]_vars

(* torrent.hh on Torrent::cleanup: "Removes timed-out peers. Thread safe." *)
(* Then the page of peers, which holds torrents_lock_ as its comment in    *)
(* torrent-db.hh demands, only ever reads peers that exist.                *)
PeersPageReadsLivePeers ==
  \A r \in Readers :
    reader[r].op = "peers" /\ reader[r].at # NoKey =>
      reader[r].at \in DOMAIN torrents[reader[r].key].swarm.peers

(* The torrent k has a peer x whose timeout has passed.                    *)
HasExpired(k, x) ==
  /\ k \in Tracked
  /\ x \in DOMAIN torrents[k].swarm.peers
  /\ torrents[k].swarm.peers[x].timeout_ts <= now

(* A silent peer is removed from every torrent that stays tracked, however *)
(* busy the readers are.                                                   *)
SilentPeersLeave ==
  \A k \in {torrentKey(f.hash) : f \in Files}, x \in {Key(req.addr) : req \in Requests} :
    HasExpired(k, x) ~> ~ HasExpired(k, x)

============================================================================
