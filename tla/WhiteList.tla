----------------------------- MODULE WhiteList -----------------------------
(***************************************************************************)
(* FsTreeWhiteList (hefur/fs-tree-white-list.cc): a thread that scans the  *)
(* torrent directory for .torrent files and adds them to the database, and *)
(* then checks for each torrent of the database that its file still        *)
(* exists, while users create, delete and replace files at any moment.     *)
(*                                                                         *)
(* The file system and m::fs::find are external: find is a walk that       *)
(* reports, in some order and at most once, every path that is there from  *)
(* its start to its end, and may or may not report the others.  Of the     *)
(* database only the trie matters here, which maps keys to the hash and    *)
(* the path of a torrent.                                                  *)
(***************************************************************************)
EXTENDS InfoHash, Sequences, FiniteSets

CONSTANTS
  Paths,            \* the paths under root_, down to MAX_SCAN_DEPTH
  TorrentPaths,     \* those whose name matches *.torrent
  Contents,         \* what a file may contain
  Broken,           \* the contents that are not a torrent description
  NoFile,           \* there is no file
  MAX_SCAN_INODES,  \* --max-scan-inodes
  MaxChanges        \* bound on the changes of the file system

ASSUME FilesAssumption ==
  /\ TorrentPaths \subseteq Paths
  /\ Broken \subseteq Contents
  /\ NoFile \notin Contents
  /\ MAX_SCAN_INODES \in Nat
  /\ MaxChanges \in Nat

VARIABLES
  files,     \* what each path holds
  torrents,  \* the trie TorrentDb::torrents_, by 20-byte key
  wl,        \* the scanning thread
  steady,    \* the paths whose file has been the same since the scan began
  absent,    \* the paths without a file since the check began
  changes    \* how often the file system has changed

vars == <<files, torrents, wl, steady, absent, changes>>

Existing == {p \in Paths : files[p] # NoFile}

(* TorrentParser::result computes a hash of each version.                  *)
info_v1(c) == [type |-> "SHA1", id |-> <<c, 1>>]
info_v2(c) == [type |-> "SHA256", id |-> <<c, 2>>]

Waiting == [op |-> "wait"]

-----------------------------------------------------------------------------
Init ==
  /\ files \in [Paths -> {NoFile}]
  /\ torrents = [k \in {} |-> 0]
  /\ wl = Waiting
  /\ steady = {}
  /\ absent = {}
  /\ changes = 0

(* A user creates, replaces or deletes a file.                             *)
Change(p, c) ==
  /\ changes < MaxChanges
  /\ files[p] # c
  /\ changes' = changes + 1
  /\ files' = [files EXCEPT ![p] = c]
  /\ steady' = steady \ {p}
  /\ absent' = IF c = NoFile THEN absent ELSE absent \ {p}
  /\ UNCHANGED <<torrents, wl>>

(* FsTreeWhiteList::loopScan starts a scan: at once, or when the interval  *)
(* has passed.                                                             *)
ScanBegin ==
  /\ wl = Waiting
  /\ wl' = [op |-> "scan", seen |-> {}]
  /\ steady' = Existing
  /\ UNCHANGED <<files, torrents, absent, changes>>

(* check() starts; full tells whether the scan met the limit.              *)
CheckState(full) ==
  [op |-> "check", todo |-> DOMAIN torrents, keys |-> {}, full |-> full]

(* find reports a path to the lambda of FsTreeWhiteList::scan, which counts*)
(* it and gives up past the limit, and looks at its name.                  *)
ScanVisit(p) ==
  /\ wl.op = "scan"
  /\ p \in Existing \ wl.seen
  /\ IF Cardinality(wl.seen) + 1 > MAX_SCAN_INODES
       THEN wl' = CheckState(TRUE) /\ absent' = Paths \ Existing
       ELSE /\ wl' = [op   |-> IF p \in TorrentPaths THEN "parse" ELSE "scan",
                      seen |-> wl.seen \cup {p}, path |-> p]
            /\ UNCHANGED absent
  /\ UNCHANGED <<files, torrents, steady, changes>>

(* Slip: a file that cannot be parsed ends the walk.                       *)
ScanParse_Stop ==
  /\ wl.op = "parse"
  /\ LET c == files[wl.path] IN
       wl' = IF c = NoFile \/ c \in Broken
               THEN CheckState(FALSE)
               ELSE [op |-> "add_v1", seen |-> wl.seen, path |-> wl.path, desc |-> c]
  /\ UNCHANGED <<files, torrents, steady, absent, changes>>

(* parseFile reads the file, if it is still there.                         *)
ScanParse ==
  /\ wl.op = "parse"
  /\ LET c == files[wl.path] IN
       wl' = IF c = NoFile \/ c \in Broken
               THEN [op |-> "scan", seen |-> wl.seen]
               ELSE [op |-> "add_v1", seen |-> wl.seen, path |-> wl.path, desc |-> c]
  /\ UNCHANGED <<files, torrents, steady, absent, changes>>

(* Slip: the whole hash is the key.                                        *)
AddTorrent_WholeHash(hash, path) ==
  torrents' = [x \in DOMAIN torrents \cup {bytes(hash)} |->
                 IF x \in DOMAIN torrents THEN torrents[x]
                 ELSE [hash |-> hash, path |-> path]]

(* TorrentDb::addTorrent: Trie::insert keeps the torrent it has.           *)
AddTorrent(hash, path) ==
  torrents' = [x \in DOMAIN torrents \cup {torrentKey(hash)} |->
                 IF x \in DOMAIN torrents THEN torrents[x]
                 ELSE [hash |-> hash, path |-> path]]

(* Slip: only the SHA-1 hash is added.                                     *)
ScanAddV1_Only ==
  /\ wl.op = "add_v1"
  /\ AddTorrent(info_v1(wl.desc), wl.path)
  /\ wl' = [op |-> "scan", seen |-> wl.seen]
  /\ UNCHANGED <<files, steady, absent, changes>>

(* The torrent is added under both hashes, each time under the lock.       *)
ScanAddV1 ==
  /\ wl.op = "add_v1"
  /\ AddTorrent(info_v1(wl.desc), wl.path)
  /\ wl' = [wl EXCEPT !.op = "add_v2"]
  /\ UNCHANGED <<files, steady, absent, changes>>

ScanAddV2 ==
  /\ wl.op = "add_v2"
  /\ AddTorrent(info_v2(wl.desc), wl.path)
  /\ wl' = [op |-> "scan", seen |-> wl.seen]
  /\ UNCHANGED <<files, steady, absent, changes>>

(* find has reported everything, and FsTreeWhiteList::check locks the      *)
(* database.                                                               *)
ScanEnd ==
  /\ wl.op = "scan"
  /\ steady \subseteq wl.seen
  /\ wl' = CheckState(FALSE)
  /\ absent' = Paths \ Existing
  /\ UNCHANGED <<files, torrents, steady, changes>>

(* Slip: the result of stat() is taken the wrong way round.                *)
CheckTorrent_Inverted(k) ==
  /\ wl.op = "check"
  /\ k \in wl.todo
  /\ wl' = [wl EXCEPT !.todo = @ \ {k},
                      !.keys = IF files[torrents[k].path] # NoFile
                                 THEN @ \cup {bytes(torrents[k].hash)} ELSE @]
  /\ UNCHANGED <<files, torrents, steady, absent, changes>>

(* FsTreeWhiteList::checkTorrent.  Every torrent comes from a scan, so its *)
(* path starts with root_.                                                 *)
CheckTorrent(k) ==
  /\ wl.op = "check"
  /\ k \in wl.todo
  /\ wl' = [wl EXCEPT !.todo = @ \ {k},
                      !.keys = IF files[torrents[k].path] = NoFile
                                 THEN @ \cup {bytes(torrents[k].hash)} ELSE @]
  /\ UNCHANGED <<files, torrents, steady, absent, changes>>

(* Slips: a single key is erased; the keys are collected and not used.     *)
CheckErase_One ==
  /\ wl.op = "check"
  /\ wl.todo = {}
  /\ torrents' = IF wl.keys = {} THEN torrents
                 ELSE [x \in DOMAIN torrents \ {CHOOSE k \in wl.keys : TRUE} |-> torrents[x]]
  /\ wl' = Waiting
  /\ UNCHANGED <<files, steady, absent, changes>>

CheckErase_Nothing ==
  /\ wl.op = "check"
  /\ wl.todo = {}
  /\ wl' = Waiting
  /\ UNCHANGED <<files, torrents, steady, absent, changes>>

(* The rest of check(): Trie::erase of each collected key.                 *)
CheckErase ==
  /\ wl.op = "check"
  /\ wl.todo = {}
  /\ torrents' = [x \in DOMAIN torrents \ wl.keys |-> torrents[x]]
  /\ wl' = Waiting
  /\ UNCHANGED <<files, steady, absent, changes>>

Step ==
  \/ ScanBegin
  \/ \E p \in Paths : ScanVisit(p)
  \/ ScanParse
  \/ ScanAddV1
  \/ ScanAddV2
  \/ ScanEnd
  \/ \E k \in DOMAIN torrents : CheckTorrent(k)
  \/ CheckErase

Next == Step \/ \E p \in Paths, c \in Contents \cup {NoFile} : Change(p, c)

Spec == Init /\ [][Next]_vars

(* The loop of its own thread goes on, and timedWait returns after the     *)
(* interval.  Users need not do anything.                                  *)
FairSpec == Spec /\ WF_vars(Step)

-----------------------------------------------------------------------------
Torrents(p) == files[p] \in Contents \ Broken /\ p \in TorrentPaths

Tracks(hash) == torrentKey(hash) \in DOMAIN torrents

TypeOK ==
  /\ files \in [Paths -> Contents \cup {NoFile}]
  /\ \A k \in DOMAIN torrents :
       /\ torrents[k].path \in TorrentPaths
       /\ torrentKey(torrents[k].hash) = k
       /\ k.len = 20
  /\ wl.op \in {"wait", "scan", "parse", "add_v1", "add_v2", "check"}
  /\ steady \subseteq Existing
  /\ absent \subseteq Paths
  /\ changes \in 0..MaxChanges

(* A scan that meets no limit finds every torrent whose file was there all *)
(* along, under both of its hashes, whatever happens to other files while  *)
(* it walks.                                                               *)
ScanFindsAll ==
  wl.op = "check" /\ ~ wl.full =>
    \A p \in steady :
      Torrents(p) => Tracks(info_v1(files[p])) /\ Tracks(info_v2(files[p]))

(* check() erases nothing but torrents whose own file was missing when it  *)
(* looked: no torrent is dropped because of another one.                   *)
CheckErasesMissing ==
  [][\A k \in DOMAIN torrents \ DOMAIN torrents' : torrents[k].path \notin steady]_vars

(* After a check no SHA-1 torrent is left whose file has been missing      *)
(* since the check began.                                                  *)
CheckIsComplete ==
  wl = Waiting =>
    \A k \in DOMAIN torrents :
      torrents[k].hash.type = "SHA1" => torrents[k].path \notin absent

(* Once the directory is left alone, and has no more inodes than a scan may*)
(* visit, every torrent in it is tracked in the end, under both hashes: a  *)
(* torrent with two files may be dropped together with one of them, and    *)
(* comes back with the next scan.                                          *)
EventuallyWhiteListed ==
  <>[](Cardinality(Existing) <= MAX_SCAN_INODES =>
       \A p \in Paths : Torrents(p) => Tracks(info_v1(files[p])) /\ Tracks(info_v2(files[p])))

(* Once the directory is left alone, each SHA-1 torrent of the database    *)
(* has a file at its path in the end: check() drops the others, and a scan *)
(* that parsed a file just before it was deleted brings none back for good.*)
EventuallyBacked ==
  <>[](\A k \in DOMAIN torrents :
         torrents[k].hash.type = "SHA1" => files[torrents[k].path] # NoFile)

Present(c) == \E p \in TorrentPaths : files[p] = c

(* manual.md: "When a torrent file is removed from the torrent directory,  *)
(* then it will be removed from the white list."  For a torrent's SHA-256  *)
(* hash.                                                                   *)
RemovedFileIsDropped ==
  \A c \in Contents \ Broken :
    [](~ Present(c) => <>(Present(c) \/ ~ Tracks(info_v2(c))))
============================================================================
