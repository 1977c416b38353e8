# A TLA+ model of the Hefur BitTorrent tracker

Hefur (`hefur/` in the repository) is a BitTorrent tracker that keeps everything
in memory. Clients announce themselves over HTTP, HTTPS or UDP and are told
about other peers of the same torrent; the torrents it tracks are the `.torrent`
files of a directory that is scanned over and over. This project models the
tracker in TLA+, from the first byte of a request to the end of the process,
checks small instances with TLC, and proves the safety of its components for
every instance with TLAPS.

## 1. Inventory

| Component (source) | State | Operations | What makes it correct |
|---|---|---|---|
| `Torrent` (`torrent.cc`) | trie `peers_`, list `timeouts_`, three `uint32_t` counters, mutex `lock_` | `announce`, `createOrUpdatePeer`, `updateTimeout`, `removePeer`, `cleanup` | trie, list and counters describe the same peers; the list is sorted by timeout; at most `MAX_PEERS`; replies are the most recent peers |
| `TorrentDb` (`torrent-db.cc`) | trie `torrents_`, shared mutex `torrents_lock_`, cleanup thread | `announce`, `scrape`, `addTorrent`, `removeTorrent`, `cleanup` | adding again loses nothing; readers see counters that were true; silent peers leave |
| `FsTreeWhiteList` | scanning thread, the files | `scan`, `check` | what is in the directory is tracked, what left it is not |
| `UdpServer` | secrets, queue of replies, socket, thread | `run`, `genSecret`, `send`, `receive`, three handlers | bounded queue in order of arrival, ids live long enough, nothing gets stuck |
| `InfoHash`, `Address` | values | `bytes`, `key`, `operator==`, conversions, `setPort` | one key per torrent and per peer |
| `PeersHandler`, `StatHandler` | none of their own | read the database under the shared lock | read only what exists |
| `AnnounceHandler`, `ScrapeHandler`, `FileHandler`, `LogHandler` | the remote address of each channel | query to request, response to bencoding, the proxy's header | a peer is registered, and told to others, at the address it has |
| `Hefur`, `main`, `HttpServer`, `ControlServer` | threads, `stop_` flags, `instance_`, references to the database | construction, signals, `run`, `stop`, destruction | nobody uses what is gone; shutdown ends |
| `www/js/table-sorter.js` | rows, last column and direction of a table | click on a header | the rows are in the order that was asked for |
| options, templates, logging, the rest of `www/` | – | – | presentation |

How they interact. The servers' threads turn requests into `AnnounceRequest` and
`ScrapeRequest` objects and call `TorrentDb`. Announcing, adding and removing
hold `torrents_lock_` exclusively; the scrape, the two pages and the cleanup
thread hold it shared. Only `announce` and `cleanup` take `Torrent::lock_`. The
scanning thread adds torrents, and in `check()` erases them from the trie under
the exclusive lock.

What is hard here: readers that run beside the cleanup thread without
`Torrent::lock_`; three structures that every method of `Torrent` has to update
together; a sorted list that nobody sorts; a file system that changes between
two steps of the scan; secrets that are renewed while ids made of them are in
flight; a queue at its limit; a connection that carries requests of several
clients; threads that go on while the objects they use are destroyed one by one.
`PROJECT.json` lists these hazards line by line.

## 2. Modules

    Address, Lists --- TorrentOps --- TorrentTypes --- Torrent --- MCTorrent
    TorrentTypes, InfoHash ------------------- TorrentDb ----- MCTorrentDb
    Swarm: abstract, implemented by Torrent and by each torrent of TorrentDb
    TorrentOps, InfoHash, Lists -------------- FrontEnd ------ MCFrontEnd
    InfoHash --------------------------------- WhiteList ----- MCWhiteList
             --------------------------------- UdpServer ----- MCUdpServer
                                               LifeCycle ----- MCLifeCycle
                                               TableSorter --- MCTableSorter

    TorrentOps --- TorrentOpsProofs --- TorrentProofs     (with Torrent)
                                    --- TorrentDbProofs   (with TorrentDb)
                                    --- FrontEndProofs    (with FrontEnd)
    WhiteListProofs, UdpServerProofs, LifeCycleProofs, TableSorterProofs
                                                (each with its component)

**`Address`, `InfoHash`** are values. The key of an address is 6 bytes for IPv4
and 18 for everything else, `AF_UNSPEC` included. A byte string is an identity
and a length, so that cutting a SHA-256 hash to 20 bytes, or looking it up by
all 32, are different things. `FromSockaddr` and `setPort` are `Address`'s
assignments: IPv4 mapped into IPv6 becomes IPv4, and an address without a family
keeps the bytes it had.

**`TorrentOps`** has the methods of `Torrent` as operators on a record with the
trie (a function from keys to peers), the list (a sequence of keys) and the
counters (`Inc`, `Dec`, `Add` wrap at `UINT_MAX`). They are operators because
three modules use them: `Torrent` for one torrent, `TorrentDb` for many, and
`FrontEnd` behind the handlers. `IsRequest` and `IsTorrent` say what a request is
and which values a torrent can then take; **`TorrentTypes`** has the set of
requests that `Torrent` and `TorrentDb` share.

**`Lists`** has the loops that walk a list and skip elements: the list of peers,
the addresses of one family, the hashes of a scrape that are tracked. `Filter`
is `SelectSeq`, said without recursion: the n-th element of the result is the
one at the position that has n positions of the kind up to it. `MCTorrent`
assumes `FilterIsSelectSeq`, so that TLC compares the two on every sequence of
up to 4 of 3 values.

**`Torrent`** is one torrent under `lock_`. `HandleAnnounce` is one step, since
the code holds both locks from the first line to the last; a sweep of the
cleanup thread is `CleanupBegin`, a `CleanupRemove` per peer, and `CleanupEnd`.
`sweep` is the time the sweep read from the clock; the clock moves on meanwhile.

**`Swarm`** says what a torrent promises without list, trie and counters: a
table of peers. `Torrent!ImplementsSwarm` maps the trie to the table and
`completed_` to its count. `TorrentDb!SwarmOf(k)` does so for the torrent under
the key `k`, with the announces for its hash as the only requests.

**`TorrentDb`** is the database and the threads around it. Writers take one step
when nobody holds the lock shared; cleanup and readers take one step per visit,
read or removal. `Total` adds up the counters by counting pairs, again without
recursion (`TotalIsSum` in `MCTorrentDb`). When the page of peers (`PeersStep`) stands on a peer that was
deleted, its next position is arbitrary, as the code then reads freed memory.

**`WhiteList`** is the scanning thread against users that change files between
any two of its steps. `m::fs::find` is external: it reports each path at most
once, and certainly those that are there all the time. `steady` and `absent` are
history variables: files unchanged since the scan began, paths without a file
since the check began.

**`UdpServer`** is the UDP thread. A connection id is the sum the code computes
of the bytes of the ip and of a secret (`ConnectionIds`): ids of different
addresses may be equal, and a datagram may carry any id of the constant `Ids`.
`genSecret` fills a secret with any of `Secrets`; where `gnutls_rnd` fails the
newest secret is the one before, which is among them too. A second, a
millisecond and the lag of the coarse clock are constants in ticks: `run()` cuts
the time to the next renewal down to milliseconds, and `poll` waits by a clock
that may be ahead of the coarse one, so a renewal comes up to `EARLY` ticks
before `next_timeout_` (`PollOver`). `Ignore` is every path without a reply
(short datagram, unknown action, no memory, no database). `arrived` and `issued`
are history variables: who sent which datagram, and which ids were given to
whom and when. The database is seen as the constant set of tracked keys.

**`FrontEnd`** puts the handlers before the operators of `TorrentOps`. `Init`
picks a command line; clients connect directly or through a proxy, over IPv4 or
over an IPv6 socket; `HttpAnnounce` and `HttpPage` are `LogHandler::handle` and
the handler behind it in one step, `UdpAnnounce` is the UDP handler after the
check of the connection id. `channel` keeps the remote address that `LogHandler`
rewrites, `served` the last request and answer. An `Address` that nothing was
assigned to holds any value of `Garbage`. Its `TypeOK` is what `TorrentTypes`
assumes of the requests it is given (`RequestsAssumption`): the assumption is
discharged here. Time stands still, timeouts are `Torrent`'s subject.

**`LifeCycle`** is the process: the main thread creates the components in the
order of `Hefur::Hefur` (`Up`), waits, and stops, joins and destroys them in the
reverse order of Hefur's members (`Down`). Each thread is idle, about to ask
`Hefur::instance()` for the database, using it, or at its end; it is "lost" when
it asked at a moment when the object or its reference was gone. A signal of each
of the two kinds may come at any moment from when `instance_` is set, and
`quit()` is three steps. The handler is a process of its own here; in the
program it interrupts a thread and takes the locks of the log and of the
`Future`, which is not modelled (section 6). What a thread does with the
database is the subject of the other modules.

**`TableSorter`** is the script of the pages, whole. A cell has a place among
all texts, a number and a unit, so that the three comparators order cells
differently. `Array.prototype.sort` is external and stable: the place of a row
is the number of rows that do not come after it.

Operators whose name has an underscore suffix (`Inc_Wide`,
`UpdateTimeout_NoErase`, ...) are slips that the code could plausibly have. Each
comes before the definition it would replace, and shows that some property
notices; no specification uses them.

## 3. Runs

| Run | Instance | Shows |
|---|---|---|
| `torrent` | 4 addresses, two of which have the same key; `MAX_PEERS` 2; counters up to 5; every question of 2 peer ids, `num_want` around `INT_MAX`, IPv6 skipped or not | structures agree, sorted, bounded; sweeps complete; `Swarm` is implemented; silent peers are removed; replies are the most recent peers |
| `db` | 2 torrents (v1, v2), 2 peers, scrapes of 3 hashes and both pages | consistency, scrapes, rows and totals under concurrent cleanup; each torrent implements `Swarm` while it is tracked, also when it is added again; cleanup is not starved |
| `white_list` | 3 paths, 2 of them `.torrent`, a broken file, limit of 2 inodes, 4 changes | scans find, checks drop only what is missing, the white list settles |
| `udp` | 2 clients whose ids are equal under one of 2 secrets, queue of 2, 3 datagrams, a second of 3 ticks and renewals up to 2 ticks early | queue bound, life of ids, replies in the order of arrival to their senders, nothing gets stuck |
| `front_end` | an IPv4 and two IPv6 clients, a proxy that is unknown, known, or anybody; one connection at a time; 9 announces that differ from a plain one in one thing, a port of its own for each client | requests have their types; a peer is registered at its own ip, and told to others with it and with its own port; numbers of peers mean the same over HTTP and UDP; the links of the pages work |
| `life_cycle` | all six components, each present or not; one HTTP worker, two signals | threads end before their objects and find the database while they run; the database outlives its users; a signal ends the process |
| `table_sorter` | all tables of up to 4 rows with a column for each comparator, two rows of the same name; any clicks | order and direction are those that were asked for; equal rows keep their order; a second click mirrors |

Five runs end in a violation, each of a sentence of the documentation or of a
comment; `findings` in `PROJECT.json` quotes them.

- `db_peers_page`: the page of peers walks `timeouts_` while the cleanup thread,
  which holds the same lock shared, deletes from it.
- `white_list_removed`: a SHA-256 entry is never erased, its key is looked up
  with 32 bytes while the trie has 20.
- `udp_announce`: a UDP announce never sets the type of its hash and finds no
  torrent at all.
- `proxy_keep_alive`: the model of `front_end` with `Reuse = TRUE`, a proxy that
  sends requests of different clients over one connection. The header of the
  second request is ignored, as the channel has the address of the first client
  by then, and the second client is registered there.
- `shutdown_worker`: a request that is being served while Hefur is destroyed
  asks for the database through an object that is gone.

Other deviations that were met while modelling, each in the model as the code
has it and without a run of its own, since one call shows it:

- `file-handler.cc:28` refuses the sizes that are valid (`FileStatus`).
- `fs-tree-white-list.cc:88`: a torrent whose file was overwritten by another
  stays; with two copies of a torrent, deleting the first drops it until the
  next scan.
- `options.cc:72` says "if empty every torrents are allowed" of `--torrent-dir`,
  but without a white list nothing adds torrents and every announce is answered
  "torrent not found" (`torrent-db.cc:28`).
- `peers.html:29` sorts byte sizes as text.

**Bounds.** `MaxTime`, `MaxChanges` and `MaxDatagrams` bound the clock and the
environment; everything else is the code's own. The time unit of `Torrent` is a
minute and a peer lives for `ANNOUNCE_INTERVAL + GRACE`; small values let peers
expire, be refreshed and expire again within the bound. `MAX_PEERS` 2 with 3
distinct keys makes evictions happen. `INT_MAX` of 1 or 2 makes the completed
count wrap, and a wanted number of `INT_MAX + 1` negative. In `white_list` the
inode limit is below the number of paths, so both complete and cut scans occur.
The UDP queue of 2 stands for the 64 of the code, three datagrams overfill it; 3
ticks see all three secrets replaced, as renewals may be one tick apart. The id in
the datagrams is good or not by which secrets are left. The UDP thread need not move when
nothing arrives, so deadlock is not checked there. One HTTP connection suffices
for `front_end`, as connections share nothing but the torrents and the model
closes and opens it again; `MAX_PEERS` 2 below the number of clients makes them
push each other out. `Fds = {3}` leaves out a process whose standard input is
closed, where descriptor 0 would be taken for none. One worker suffices for
`life_cycle`, since workers only meet in the set of references to the database;
both the worker and the main thread can be the last to let go of it.

**Fairness.** `WF(Cleanup)`: `cleanupLoop` runs in its own thread for ever and
needs only the shared lock. `WF(Step)` of the white list: its thread loops and
`timedWait` returns. For UDP, weak fairness of the thread's steps, and strong
fairness of `Send` for at least one reply: `poll` prefers `POLLOUT` over
`POLLIN`, and a socket that is reported writable takes a datagram or fails it,
which drops the reply too. For `life_cycle`, weak fairness of the main thread,
of each component's thread and of the signal handlers, which are all threads of
the process; strong fairness of the end of a scan, because `MAX_SCAN_INODES`
bounds the number of its calls. Clients, users and the clock are never assumed to do
anything.

## 4. Proofs

`TorrentProofs` proves, for every value of the options, of the set of requests
and of the clock bound:

| Theorem | Statement |
|---|---|
| `TypeCorrect` | `Spec => []TypeOK` |
| `ListIndexCorrect` | `Spec => []ListIndexAgree` |
| `CountersCorrect` | `Spec => []CountersAgree` |
| `SortedCorrect` | `Spec => []SortedByTimeout` |
| `BoundCorrect` | `Spec => []BoundedPeers` |
| `SweepCorrect` | `Spec => SweepIsComplete` |
| `ReplyCorrect` | `Spec => []ReplyIsMostRecent` |
| `Refinement` | `Spec => ImplementsSwarm` |

Assumptions. `OptionsAssumption`: options are naturals, `MIN_NUMWANT <=
MAX_NUMWANT` (otherwise `std::clamp` is undefined), and `MAX_PEERS` is below
`UINT_MAX`, so that the two counters can be added when one peer too many is in.
`RequestsAssumption`: requests have the types the front ends give them, which
`FrontEndProofs` proves. `InputsAssumption` bounds the clock, and says the same
of the requests that are only asked about.

The inductive invariant is `IndInv`: the torrent has its types, list and index
agree, the counters are the cardinalities, the list is sorted, the size is
bounded, no timeout lies further ahead than `now + Timeout`, and a running sweep
began no later than now. No part is inductive alone. The counters do not wrap
only because they count the index, and the index stays below `UINT_MAX` only
because the eviction, which trusts the counters, works. The list stays sorted
only because the peer that is pushed to the back has the latest timeout of all,
which needs the bound by the clock; and it holds each peer once only because it
agrees with the index. The proof follows the code: `TorrentOpsProofs` has a
lemma for each method (`RemovePeerSound`, `UpdateIsReinsert`, `InsertSound`,
`CreateOrUpdatePeerSound`, `EvictOldestHealthy`, `AnnounceHealthy`) on top of
lemmas on erasing from and appending to a sequence, and `TorrentProofs` has
`NextInv` with one case per action. The refinement rests on
`AnnounceIsTableStep`, which says what an announce does to the table of peers:
an eviction removes a peer whose timeout is not after that of any other. A step
of a sweep is an `Expire`.

`ReplyCorrect` is about the loop that fills a response. `NthRank` shows that the
ranks of some positions of a list run from 1 to their number, each once, by the
pigeonhole principle of the library (`FS_Injection`); hence a walk along the
positions goes in their order and meets each once (`WalkInOrder`).
`PeerListNames` puts this on the reversed list of timeouts: the response names
eligible peers at different positions, and the ones it leaves out come after all
of them, or are none when it is shorter than wanted. That the list is sorted,
which `IndInv` knows, makes "after in the walk" mean "announced no later".

`TorrentDbProofs` proves, for any torrents, requests and scrapes, any number of
readers, and any clock bound (`DbInputsAssumption`: hashes have one of the
types, a scrape is a sequence of hashes):

| Theorem | Statement |
|---|---|
| `TypeCorrect` | `Spec => []TypeOK` |
| `TorrentsAgree` | `Spec => []SwarmsAgree` |
| `ScrapeComplete` | `Spec => []ScrapeListsTracked` |
| `ScrapeReadsBetween` | `Spec => []ScrapeIsRecent` |
| `PageTotals` | `Spec => []TotalsBelowRows` |
| `PageCountsOnce` | `Spec => []StatTotalsBounded` |
| `EachIsASwarm` | `Spec => TorrentsImplementSwarm` |
| `LivePeersStay` | `Spec => SwarmsSurvive` |

The inductive invariant says of each thread what it may rely on while others
run. Every torrent is `Healthy`, the invariant of `TorrentProofs`, and under its
own key (`DbOK`). The cleanup thread is at a torrent that is there, with a time
that is not ahead of the clock (`CleanerOK`). What a reader has seen is above
the counters of now and below those of its beginning (`ScrapeOK`), and a later
read of a counter is not above an earlier one (`StatOK`). Two facts carry the
proof: a writer finds no reader at all (`WriteAlone`), and the one thread that
changes torrents beside readers only counts down (`CleanupRemoveStep`), under
which everything a reader knows stays true (`ReaderSurvives`).

For the contents of an answer the invariant also says how far a reader has come.
A scrape has answered for the tracked ones among the hashes before its place
(`Walked`), and `WalkGoesOn` extends that by one hash. The rows of the page of
torrents are those of some set of torrents that it has left and will not visit
again, and they do not exceed the sum of the counters of that set at the
beginning (`RowsOK`); the sum is a number of pairs, and `SlotsAdd` gives the pairs
of one torrent more.

`TorrentSteps` says that a step of the database is, for each torrent that stays,
nothing, the handling of an announce for its hash, or the removal of a peer that has timed out.
`EachIsASwarm` turns these into steps of `Swarm` with `AnnounceIsTableStep`, and
`LivePeersStay` into who may leave, and in which step, with `AnnounceKeeps`; that
one is a consequence for clients, and no run checks it apart from the table.

`WhiteListProofs` proves, for any paths, contents, limits and changes by users
(`FilesAssumption`):

| Theorem | Statement |
|---|---|
| `TypeCorrect` | `Spec => []TypeOK` |
| `ScanIsComplete` | `Spec => []ScanFindsAll` |
| `CheckDropsMissing` | `Spec => []CheckIsComplete` |
| `OnlyMissingErased` | `Spec => CheckErasesMissing` |

`Handled` follows a file that stays through the scan: once seen it is tracked
under both hashes, except for the one the thread is at, of which the description
in its hands is that of the file. `Collected` is the loop of `check()`: the keys
to erase have lost their files, and those that must go are collected or still to
be visited.

`UdpServerProofs` proves, for any clients, secrets, ids, queue limit and arrivals
(`UdpAssumption`: a second is at least a millisecond and the lag of the clock):

| Theorem | Statement |
|---|---|
| `TypeCorrect` | `Spec => []TypeOK` |
| `RepliesAreBounded` | `Spec => []BoundedReplies` |
| `IdsLast` | `Spec => []IdLastsTwoSeconds` |
| `RepliesOrdered` | `Spec => []RepliesInOrder` |

`Ages` is the point: an id that was given out is that of the first secret, or of
the second or third if the next renewal is due one or two seconds (less `EARLY`)
after it was given out, or it is older than two renewals. Without the time of
the next renewal the position of a secret says nothing of the age of an id.
That ids collide does not matter: only that the same secret and address give the
same id again. `Buffers` orders both queues by the arrivals and puts all that
waits before all that is yet to be read. That an answer goes only to an address
that asked for an id is not stated: with ids that collide it does not hold.

`FrontEndProofs` proves, for any clients, connections, options, queries and
torrents:

| Theorem | Statement |
|---|---|
| `TypeCorrect` | `Spec => []TypeOK` |
| `NumWantAgrees` | `Spec => []SameNumWant` |
| `LinksWork` | `Spec => []PeersLinkWorks` |
| `OwnIps` | `ASSUME ~ Reuse PROVE Spec => []PeerHasOwnIp` |
| `ToldReachable` | `ASSUME ~ Reuse PROVE Spec => []ToldIsReachable` |

`FrontEndAssumption`: events are those of the enum that `parseEvent` and
`convert` return, numbers are what fits an `int`, a client sends its own port or
a number that is the same in 16 bits, an `Address` that nothing was
assigned to has no family. `ProxyAssumption`: the proxy has an address that no
client has, and `--reverse-proxy-from` names it, everybody or nobody. The
invariant ties a connection to a client: it shows the client's own address,
possibly mapped, or it comes from the proxy and still shows that (`ChannelOK`).
It is not inductive when the proxy reuses connections, which is what
`proxy_keep_alive` shows; hence the hypothesis of `OwnIps` and `ToldReachable`.
Each torrent is `Healthy` and each of its peers at a place where its client can
be reached (`PlaceOK`: ip, family and the client's own port, `Port`);
`AnnounceRegisters` keeps that, since
an announce registers nobody but the client. What is told (`ToldOK`) goes
from there through the response (`PeerListNames`) and through the list of each
family (`HttpTells`; `UdpTells` is the same of the UDP form, which never has an
address in this program, as a UDP announce finds no torrent). `NumWants` is the
arithmetic of the two conversions. `TypeCorrect` discharges `RequestsAssumption`.

`LifeCycleProofs` proves, for any set of HTTP workers, any components and any
positive descriptors (`LifeAssumption`):

| Theorem | Statement |
|---|---|
| `ThreadsEndFirstCorrect` | `Spec => []ThreadsEndFirst` |
| `JoinedFindHefurCorrect` | `Spec => []JoinedFindHefur` |
| `DbOutlivesUsersCorrect` | `Spec => []DbOutlivesUsers` |

The inductive invariant, `IndInv` there, ties the place of the main thread in
its list to everything else: Hefur and its reference exist from the first step
of the constructor until main reaches the database, the last of the list
(`HefurStays`); threads of components before that place have ended
(`ThreadsEndFirst`), so that one that is about to ask for the database finds it;
the UDP thread, if it started, has a descriptor that `stop()` does not take for
none (`UdpHasFd`); and whoever uses the database has a reference, whoever
removes the last one finds the set empty, and nobody can add to an empty set
(`Referenced`). None of the three theorems is inductive without the others.

`TableSorterProofs` proves, for pages of any length, any columns and any sequence
of clicks:

| Theorem | Statement |
|---|---|
| `TableShowsWhatItRemembers` | `Spec => []ShownAsRemembered` |
| `ClicksKeepTies` | `Spec => TiesKeepOrder` |
| `SecondClickTurnsRound` | `Spec => SecondClickMirrors` |

Each comparator orders cells by an integer (`ComparatorValue`), so it is a total
preorder. `Places` then shows that the places which the sort gives to the rows
are a permutation, by the same pigeonhole as above, that follows the values
and, among equal ones, the order before. A second click is the mirror only
because sorting what is already in order changes nothing (`SortOfSorted`).

Checked by TLC only: the liveness properties `ExpiredIsReaped`,
`SilentPeersLeave`, `EventuallyWhiteListed`, `EventuallyBacked`, `QueuesDrain` and
`QuitEnds`, as the prover has no support for fairness; and the agreement of
`Filter` with `SelectSeq` and of `Total` with a sum, which are recursive. Every
safety property of the passing runs is proved.

## 5. Plan

Done: all modules above, and the proofs of every safety property. What is left:

1. A trie that stays the same while anybody holds the lock shared, as an action
   property of `TorrentDb`.
2. One specification in which the requests of `FrontEnd` drive `TorrentDb`; today
   they meet in `IsRequest`, proved on one side and assumed on the other.

## 6. Not modelled

- The mimosa library (HTTP parsing, tries, lists, mutexes, threads, templates,
  option parsing): it is not in the repository, and is modelled as the code uses
  it. Whether a writer ever gets `torrents_lock_` is decided there.
- TLS, logging, the formatting of pages and addresses, and the numbers of bytes
  that are only displayed.
- Signals before `instance_` is set, though `main` installs the handler earlier
  (`main.cc:28`): `quit()` would then call `Hefur::instance()` from within the
  construction. And the locks that the handler takes (`main.cc:17`, the log and
  the `Future`), which the interrupted thread may hold.
- A stream of datagrams without replies that never ends, which keeps the thread
  in `receive()`: `MaxDatagrams` bounds it, and `QueuesDrain` rests on that.
- A second `start()` of a server: `start()` provides for it, nothing calls it.
- `ControlService::releaseLogs` and `hefurctl`, which forward one call.
- `www/js/bootstrap.js` and `bootstrap.bundle.js`: vendored copies of a library
  for user interfaces which no page of Hefur loads (`page.html` loads
  `table-sorter.js` alone). They are most of the JavaScript of the repository,
  and none of the tracker.
