-------------------------- MODULE WhiteListProofs --------------------------
(***************************************************************************)
(* Proofs about module WhiteList: for any directory and any changes of its *)
(* files, a scan finds what stays, and a check drops what is missing and   *)
(* nothing else.                                                           *)
(***************************************************************************)
EXTENDS WhiteList, TLAPS

Good == Contents \ Broken

(* What is known of a torrent of the trie at key k.                        *)
Entry(t, k) ==
  /\ t.path \in TorrentPaths
  /\ torrentKey(t.hash) = k
  /\ \E c \in Good : t.hash = info_v1(c) \/ t.hash = info_v2(c)

(* The thread, by what it is doing.                                        *)
Adding == wl.op \in {"add_v1", "add_v2"}

Thread ==
  /\ wl.op \in {"wait", "scan", "parse", "add_v1", "add_v2", "check"}
  /\ wl.op = "parse" \/ Adding => wl.path \in TorrentPaths
  /\ Adding =>
       /\ wl = [op |-> wl.op, seen |-> wl.seen, path |-> wl.path, desc |-> wl.desc]
       /\ wl.desc \in Good
  /\ wl.op = "check" =>
       /\ wl = [op |-> "check", todo |-> wl.todo, keys |-> wl.keys, full |-> wl.full]
       /\ wl.todo \subseteq DOMAIN torrents

Types ==
  /\ files \in [Paths -> Contents \cup {NoFile}]
  /\ \A k \in DOMAIN torrents : Entry(torrents[k], k)
  /\ Thread
  /\ steady \subseteq Existing
  /\ absent \subseteq Paths \ Existing
  /\ changes \in 0..MaxChanges

(* A file that stays is tracked under both hashes, once it was handled.    *)
Found(p) == Torrents(p) => Tracks(info_v1(files[p])) /\ Tracks(info_v2(files[p]))

Handled ==
  /\ wl.op = "scan" => \A p \in wl.seen \cap steady : Found(p)
  /\ wl.op = "parse" \/ Adding => \A p \in wl.seen \cap steady : p # wl.path => Found(p)
  /\ Adding => (wl.path \in steady => wl.desc = files[wl.path])
  /\ wl.op = "add_v2" => Tracks(info_v1(wl.desc))

(* The keys that check() collects.                                         *)
Collected ==
  wl.op = "check" =>
    \A k \in DOMAIN torrents :
      /\ k \in wl.keys => torrents[k].path \notin steady
      /\ torrents[k].hash.type = "SHA1" /\ torrents[k].path \in absent
           => k \in wl.todo \cup wl.keys

IndInv ==
  /\ Types
  /\ Handled
  /\ Collected
  /\ ScanFindsAll
  /\ CheckIsComplete

-----------------------------------------------------------------------------
(* The key of a hash has 20 bytes.  Those of a SHA-1 hash are all of it,   *)
(* and those of a SHA-256 hash are not.                                    *)
LEMMA KeyLengths ==
  ASSUME NEW c
  PROVE  /\ torrentKey(info_v1(c)).len = 20
         /\ torrentKey(info_v2(c)).len = 20
         /\ bytes(info_v1(c)) = torrentKey(info_v1(c))
         /\ bytes(info_v2(c)).len = 32
         /\ info_v1(c).type = "SHA1"
         /\ info_v2(c).type = "SHA256"
<1>1. bytes(info_v1(c)) = [id |-> <<c, 1>>, len |-> 20]
  BY DEF bytes, info_v1, hashSize
<1>2. bytes(info_v2(c)) = [id |-> <<c, 2>>, len |-> 32]
  BY DEF bytes, info_v2, hashSize
<1>3. torrentKey(info_v1(c)) = [id |-> <<c, 1>>, len |-> 20]
  BY <1>1 DEF torrentKey, Substr
<1>4. torrentKey(info_v2(c)) = [id |-> <<c, 2>>, len |-> 20]
  BY <1>2 DEF torrentKey, Substr
<1> QED
  BY <1>1, <1>2, <1>3, <1>4 DEF info_v1, info_v2

(* Erasing by all bytes of a hash erases the torrent with that hash, when  *)
(* it is a SHA-1 hash, and otherwise none.                                 *)
LEMMA ErasedKey ==
  ASSUME NEW t, NEW j, NEW k, Entry(t, j), k.len = 20, k = bytes(t.hash)
  PROVE  k = j
<1>1. PICK c \in Good : t.hash = info_v1(c) \/ t.hash = info_v2(c)
  BY DEF Entry
<1>2. t.hash = info_v1(c)
  BY <1>1, KeyLengths
<1> QED
  BY <1>2, KeyLengths DEF Entry

(* The same for the torrent that is looked at.                             *)
LEMMA Sha1Key ==
  ASSUME NEW t, NEW k, Entry(t, k)
  PROVE  k.len = 20 /\ (t.hash.type = "SHA1" => bytes(t.hash) = k)
<1>1. PICK c \in Good : t.hash = info_v1(c) \/ t.hash = info_v2(c)
  BY DEF Entry
<1> QED
  BY <1>1, KeyLengths DEF Entry

(* Nothing is tracked and no file is there when the thread starts.         *)
LEMMA InitInv == Init => IndInv
  BY FilesAssumption
     DEF Init, IndInv, Types, Thread, Adding, Existing, Handled, Collected, ScanFindsAll,
         CheckIsComplete, Waiting

(* A change of a file makes it count no longer as one that stays.          *)
LEMMA ChangeInv ==
  ASSUME IndInv, NEW p \in Paths, NEW c \in Contents \cup {NoFile}, Change(p, c)
  PROVE  IndInv'
<1>1. /\ changes < MaxChanges /\ changes' = changes + 1
      /\ files' = [files EXCEPT ![p] = c]
      /\ steady' = steady \ {p}
      /\ absent' = IF c = NoFile THEN absent ELSE absent \ {p}
      /\ UNCHANGED <<torrents, wl>>
  BY DEF Change
<1>2. \A q \in Paths : q # p => files'[q] = files[q]
  BY <1>1 DEF IndInv, Types
<1>3. files'[p] = c /\ files' \in [Paths -> Contents \cup {NoFile}]
  BY <1>1 DEF IndInv, Types
<1>4. steady \subseteq Paths /\ TorrentPaths \subseteq Paths
  BY FilesAssumption DEF IndInv, Types, Existing
<1>5. Types'
  <2>1. steady' \subseteq Existing'
    BY <1>1, <1>2, <1>3 DEF IndInv, Types, Existing
  <2>2. absent' \subseteq Paths \ Existing'
    BY <1>1, <1>2, <1>3 DEF IndInv, Types, Existing
  <2>3. changes' \in 0..MaxChanges
    BY <1>1, FilesAssumption DEF IndInv, Types
  <2> QED
    BY <1>1, <1>3, <2>1, <2>2, <2>3 DEF IndInv, Types, Thread, Adding
<1>6. \A q \in steady' : Found(q) => Found(q)'
  BY <1>1, <1>2, <1>4 DEF Found, Torrents, Tracks
<1>7. Handled'
  BY <1>1, <1>2, <1>4, <1>6 DEF IndInv, Types, Handled, Adding, Tracks
<1>8. Collected'
  BY <1>1 DEF IndInv, Collected
<1>9. ScanFindsAll'
  BY <1>1, <1>6 DEF IndInv, ScanFindsAll, Found
<1>10. CheckIsComplete'
  BY <1>1 DEF IndInv, CheckIsComplete, Waiting
<1> QED
  BY <1>5, <1>7, <1>8, <1>9, <1>10 DEF IndInv

(* A check that begins has everything to look at.                          *)
LEMMA CheckBegins ==
  ASSUME IndInv, NEW full, wl' = CheckState(full), absent' = Paths \ Existing,
         full \/ \A p \in steady : Found(p),
         UNCHANGED <<files, torrents, steady, changes>>
  PROVE  IndInv'
<1>1. wl' = [op |-> "check", todo |-> DOMAIN torrents, keys |-> {}, full |-> full]
  BY DEF CheckState
<1>2. wl'.op = "check" /\ wl'.todo = DOMAIN torrents /\ wl'.keys = {} /\ wl'.full = full
  BY <1>1
<1>3. Types'
  BY <1>1, <1>2 DEF IndInv, Types, Thread, Adding, Existing
<1>4. Handled' /\ Collected'
  BY <1>2 DEF Handled, Collected, Adding
<1>5. ScanFindsAll'
  BY <1>2 DEF ScanFindsAll, Found, Torrents, Tracks
<1>6. wl' # Waiting
  BY <1>2 DEF Waiting
<1> QED
  BY <1>3, <1>4, <1>5, <1>6 DEF IndInv, CheckIsComplete, Waiting

(* A path that is visited is handled next, if it is a torrent's.           *)
LEMMA ScanVisitInv ==
  ASSUME IndInv, NEW p \in Paths, ScanVisit(p)
  PROVE  IndInv'
<1>1. CASE Cardinality(wl.seen) + 1 > MAX_SCAN_INODES
  BY <1>1, CheckBegins DEF ScanVisit
<1>2. CASE ~ (Cardinality(wl.seen) + 1 > MAX_SCAN_INODES)
  <2>1. /\ wl' = [op   |-> IF p \in TorrentPaths THEN "parse" ELSE "scan",
                  seen |-> wl.seen \cup {p}, path |-> p]
        /\ UNCHANGED <<files, torrents, steady, absent, changes>>
        /\ wl.op = "scan"
    BY <1>2 DEF ScanVisit
  <2>2. wl'.seen = wl.seen \cup {p} /\ wl'.path = p
        /\ wl'.op = IF p \in TorrentPaths THEN "parse" ELSE "scan"
    BY <2>1
  <2>3. Types'
    BY <2>1, <2>2 DEF IndInv, Types, Thread, Adding, Existing
  <2>4. \A q \in Paths : Found(q)' <=> Found(q)
    BY <2>1 DEF Found, Torrents, Tracks
  <2>5. p \notin TorrentPaths => Found(p)
    BY DEF Found, Torrents
  <2>6. Handled'
    BY <2>1, <2>2, <2>4, <2>5 DEF IndInv, Types, Existing, Handled, Adding
  <2>7. wl' # Waiting /\ wl'.op # "check"
    BY <2>2 DEF Waiting
  <2> QED
    BY <2>3, <2>6, <2>7 DEF IndInv, Collected, ScanFindsAll, CheckIsComplete, Waiting
<1> QED
  BY <1>1, <1>2

(* What is read from a file that stays is what the file holds.             *)
LEMMA ScanParseInv == IndInv /\ ScanParse => IndInv'
<1> SUFFICES ASSUME IndInv, ScanParse PROVE IndInv'
  OBVIOUS
<1> DEFINE c == files[wl.path]
<1>1. wl.op = "parse" /\ UNCHANGED <<files, torrents, steady, absent, changes>>
  BY DEF ScanParse
<1>2. wl.path \in TorrentPaths /\ wl.path \in Paths /\ c \in Contents \cup {NoFile}
  BY <1>1, FilesAssumption DEF IndInv, Types, Thread
<1>3. \A q : Found(q)' <=> Found(q)
  BY <1>1 DEF Found, Torrents, Tracks
<1>4. CASE c = NoFile \/ c \in Broken
  <2>1. wl' = [op |-> "scan", seen |-> wl.seen]
    BY <1>4 DEF ScanParse
  <2>2. wl'.op = "scan" /\ wl'.seen = wl.seen
    BY <2>1
  <2>3. Found(wl.path)
    BY <1>2, <1>4, FilesAssumption DEF Found, Torrents
  <2>4. Types' /\ Handled'
    BY <1>1, <1>3, <2>2, <2>3 DEF IndInv, Types, Thread, Adding, Existing, Handled
  <2>5. wl' # Waiting
    BY <2>2 DEF Waiting
  <2> QED
    BY <2>2, <2>4, <2>5 DEF IndInv, Collected, ScanFindsAll, CheckIsComplete, Waiting
<1>5. CASE ~ (c = NoFile \/ c \in Broken)
  <2>1. wl' = [op |-> "add_v1", seen |-> wl.seen, path |-> wl.path, desc |-> c]
    BY <1>5 DEF ScanParse
  <2>2. wl'.op = "add_v1" /\ wl'.seen = wl.seen /\ wl'.path = wl.path /\ wl'.desc = c
    BY <2>1
  <2>3. wl' = [op |-> wl'.op, seen |-> wl'.seen, path |-> wl'.path, desc |-> wl'.desc]
    BY <2>1, <2>2
  <2>4. c \in Good
    BY <1>2, <1>5 DEF Good
  <2>5. Types'
    BY <1>1, <1>2, <2>2, <2>3, <2>4 DEF IndInv, Types, Thread, Adding, Existing
  <2>6. Handled'
    BY <1>1, <1>3, <2>2 DEF IndInv, Handled, Adding
  <2>7. wl' # Waiting
    BY <2>2 DEF Waiting
  <2> QED
    BY <2>2, <2>5, <2>6, <2>7 DEF IndInv, Collected, ScanFindsAll, CheckIsComplete, Waiting
<1> QED
  BY <1>4, <1>5

(* Adding a torrent keeps what is tracked, and tracks one more key.        *)
LEMMA AddTorrentKeeps ==
  ASSUME Types, NEW hash, NEW path \in TorrentPaths,
         \E c \in Good : hash = info_v1(c) \/ hash = info_v2(c),
         AddTorrent(hash, path)
  PROVE  /\ DOMAIN torrents' = DOMAIN torrents \cup {torrentKey(hash)}
         /\ \A k \in DOMAIN torrents' : Entry(torrents'[k], k)
<1>1. DOMAIN torrents' = DOMAIN torrents \cup {torrentKey(hash)}
  BY DEF AddTorrent
<1>2. ASSUME NEW k \in DOMAIN torrents' PROVE Entry(torrents'[k], k)
  <2>1. CASE k \in DOMAIN torrents
    BY <1>2, <2>1 DEF AddTorrent, Types
  <2>2. CASE k \notin DOMAIN torrents
    BY <1>1, <1>2, <2>2 DEF AddTorrent, Entry
  <2> QED
    BY <2>1, <2>2
<1> QED
  BY <1>1, <1>2

(* The first of the two hashes is tracked before the second.               *)
LEMMA ScanAddV1Inv == IndInv /\ ScanAddV1 => IndInv'
<1> SUFFICES ASSUME IndInv, ScanAddV1 PROVE IndInv'
  OBVIOUS
<1>1. /\ wl.op = "add_v1" /\ AddTorrent(info_v1(wl.desc), wl.path)
      /\ wl' = [wl EXCEPT !.op = "add_v2"]
      /\ UNCHANGED <<files, steady, absent, changes>>
  BY DEF ScanAddV1
<1>2. /\ wl = [op |-> wl.op, seen |-> wl.seen, path |-> wl.path, desc |-> wl.desc]
      /\ wl.desc \in Good /\ wl.path \in TorrentPaths
  BY <1>1 DEF IndInv, Types, Thread, Adding
<1>3. wl' = [op |-> "add_v2", seen |-> wl.seen, path |-> wl.path, desc |-> wl.desc]
  BY <1>1, <1>2
<1>4. wl'.op = "add_v2" /\ wl'.seen = wl.seen /\ wl'.path = wl.path /\ wl'.desc = wl.desc
  BY <1>3
<1>5. wl' = [op |-> wl'.op, seen |-> wl'.seen, path |-> wl'.path, desc |-> wl'.desc]
  BY <1>3, <1>4
<1>6. /\ DOMAIN torrents' = DOMAIN torrents \cup {torrentKey(info_v1(wl.desc))}
      /\ \A k \in DOMAIN torrents' : Entry(torrents'[k], k)
  BY <1>1, <1>2, AddTorrentKeeps DEF IndInv
<1>7. Types'
  BY <1>1, <1>2, <1>4, <1>5, <1>6 DEF IndInv, Types, Thread, Adding, Existing
<1>8. \A q : Found(q) => Found(q)'
  BY <1>1, <1>6 DEF Found, Torrents, Tracks
<1>9. Handled'
  BY <1>1, <1>4, <1>6, <1>8 DEF IndInv, Handled, Adding, Tracks
<1>10. wl' # Waiting
  BY <1>4 DEF Waiting
<1> QED
  BY <1>4, <1>7, <1>9, <1>10 DEF IndInv, Collected, ScanFindsAll, CheckIsComplete, Waiting

(* With the second hash the path is handled.                               *)
LEMMA ScanAddV2Inv == IndInv /\ ScanAddV2 => IndInv'
<1> SUFFICES ASSUME IndInv, ScanAddV2 PROVE IndInv'
  OBVIOUS
<1>1. /\ wl.op = "add_v2" /\ AddTorrent(info_v2(wl.desc), wl.path)
      /\ wl' = [op |-> "scan", seen |-> wl.seen]
      /\ UNCHANGED <<files, steady, absent, changes>>
  BY DEF ScanAddV2
<1>2. wl.desc \in Good /\ wl.path \in TorrentPaths
  BY <1>1 DEF IndInv, Types, Thread, Adding
<1>3. wl'.op = "scan" /\ wl'.seen = wl.seen
  BY <1>1
<1>4. /\ DOMAIN torrents' = DOMAIN torrents \cup {torrentKey(info_v2(wl.desc))}
      /\ \A k \in DOMAIN torrents' : Entry(torrents'[k], k)
  BY <1>1, <1>2, AddTorrentKeeps DEF IndInv
<1>5. Types'
  BY <1>1, <1>3, <1>4 DEF IndInv, Types, Thread, Adding, Existing
<1>6. \A q : Found(q) => Found(q)'
  BY <1>1, <1>4 DEF Found, Torrents, Tracks
<1>7. \A q \in steady : q = wl.path => Found(q)'
  BY <1>1, <1>4 DEF IndInv, Handled, Adding, Found, Torrents, Tracks
<1>8. Handled'
  BY <1>1, <1>3, <1>6, <1>7 DEF IndInv, Handled, Adding
<1>9. wl' # Waiting
  BY <1>3 DEF Waiting
<1> QED
  BY <1>3, <1>5, <1>8, <1>9 DEF IndInv, Collected, ScanFindsAll, CheckIsComplete, Waiting

(* A key is collected when its file is missing, and none is passed over.   *)
LEMMA CheckTorrentInv ==
  ASSUME IndInv, NEW k \in DOMAIN torrents, CheckTorrent(k)
  PROVE  IndInv'
<1> DEFINE more == IF files[torrents[k].path] = NoFile
                     THEN wl.keys \cup {bytes(torrents[k].hash)} ELSE wl.keys
<1>1. /\ wl.op = "check" /\ k \in wl.todo
      /\ wl' = [wl EXCEPT !.todo = wl.todo \ {k}, !.keys = more]
      /\ UNCHANGED <<files, torrents, steady, absent, changes>>
  BY DEF CheckTorrent
<1>2. /\ wl = [op |-> "check", todo |-> wl.todo, keys |-> wl.keys, full |-> wl.full]
      /\ wl.todo \subseteq DOMAIN torrents
  BY <1>1 DEF IndInv, Types, Thread
<1>3. wl' = [op |-> "check", todo |-> wl.todo \ {k}, keys |-> more, full |-> wl.full]
  BY <1>1, <1>2
<1>4. wl'.op = "check" /\ wl'.todo = wl.todo \ {k} /\ wl'.keys = more /\ wl'.full = wl.full
  BY <1>3
<1>5. wl' = [op |-> "check", todo |-> wl'.todo, keys |-> wl'.keys, full |-> wl'.full]
  BY <1>3, <1>4
<1>6. Types'
  BY <1>1, <1>2, <1>4, <1>5 DEF IndInv, Types, Thread, Adding, Existing
<1>7. ASSUME NEW x \in DOMAIN torrents, x \in more PROVE torrents[x].path \notin steady
  <2>1. CASE x \in wl.keys
    BY <1>1, <2>1 DEF IndInv, Collected
  <2>2. CASE x \notin wl.keys
    <3>1. files[torrents[k].path] = NoFile /\ x = bytes(torrents[k].hash)
      BY <1>7, <2>2
    <3>2. Entry(torrents[k], k) /\ Entry(torrents[x], x)
      BY DEF IndInv, Types
    <3>3. x = k
      BY <3>1, <3>2, ErasedKey, Sha1Key
    <3> QED
      BY <3>1, <3>3 DEF IndInv, Types, Existing
  <2> QED
    BY <2>1, <2>2
<1>8. ASSUME NEW x \in DOMAIN torrents, torrents[x].hash.type = "SHA1",
             torrents[x].path \in absent
      PROVE  x \in (wl.todo \ {k}) \cup more
  <2>1. x \in wl.todo \cup wl.keys
    BY <1>1, <1>8 DEF IndInv, Collected
  <2>2. CASE x = k
    <3>1. bytes(torrents[k].hash) = k
      BY <1>8, <2>2, Sha1Key DEF IndInv, Types
    <3>2. files[torrents[k].path] = NoFile
      BY <1>8, <2>2 DEF IndInv, Types, Existing
    <3> QED
      BY <2>2, <3>1, <3>2
  <2> QED
    BY <2>1, <2>2
<1>9. Collected'
  BY <1>1, <1>4, <1>7, <1>8 DEF Collected
<1>10. Handled'
  BY <1>4 DEF Handled, Adding
<1>11. ScanFindsAll'
  BY <1>1, <1>4 DEF IndInv, ScanFindsAll, Torrents, Tracks
<1>12. wl' # Waiting
  BY <1>4 DEF Waiting
<1> QED
  BY <1>6, <1>9, <1>10, <1>11, <1>12 DEF IndInv, CheckIsComplete, Waiting

(* After the collected keys are erased, no SHA-1 torrent without its file  *)
(* is left.                                                                *)
LEMMA CheckEraseInv == IndInv /\ CheckErase => IndInv'
<1> SUFFICES ASSUME IndInv, CheckErase PROVE IndInv'
  OBVIOUS
<1>1. /\ wl.op = "check" /\ wl.todo = {}
      /\ torrents' = [x \in DOMAIN torrents \ wl.keys |-> torrents[x]]
      /\ wl' = Waiting
      /\ UNCHANGED <<files, steady, absent, changes>>
  BY DEF CheckErase
<1>2. DOMAIN torrents' = DOMAIN torrents \ wl.keys
      /\ \A k \in DOMAIN torrents' : torrents'[k] = torrents[k]
  BY <1>1
<1>3. wl'.op = "wait"
  BY <1>1 DEF Waiting
<1>4. Types'
  BY <1>1, <1>2, <1>3 DEF IndInv, Types, Thread, Adding, Existing
<1>5. Handled' /\ Collected' /\ ScanFindsAll'
  BY <1>3 DEF Handled, Adding, Collected, ScanFindsAll
<1>6. CheckIsComplete'
  BY <1>1, <1>2 DEF IndInv, Collected, CheckIsComplete
<1> QED
  BY <1>4, <1>5, <1>6 DEF IndInv

(* Every step of the thread and of the users preserves the invariant.      *)
LEMMA NextInv == IndInv /\ [Next]_vars => IndInv'
<1> SUFFICES ASSUME IndInv, [Next]_vars PROVE IndInv'
  OBVIOUS
<1>1. CASE ScanBegin
  <2>1. /\ wl' = [op |-> "scan", seen |-> {}] /\ steady' = Existing
        /\ UNCHANGED <<files, torrents, absent, changes>>
    BY <1>1 DEF ScanBegin
  <2>2. wl'.op = "scan" /\ wl'.seen = {}
    BY <2>1
  <2>3. wl' # Waiting
    BY <2>2 DEF Waiting
  <2>4. Types' /\ Handled'
    BY <2>1, <2>2 DEF IndInv, Types, Thread, Adding, Existing, Handled
  <2> QED
    BY <2>2, <2>3, <2>4 DEF IndInv, Collected, ScanFindsAll, CheckIsComplete, Waiting
<1>2. CASE ScanEnd
  <2>1. \A p \in steady : Found(p)
    BY <1>2 DEF ScanEnd, IndInv, Handled
  <2> QED
    BY <1>2, <2>1, CheckBegins DEF ScanEnd
<1>3. CASE \E p \in Paths : ScanVisit(p)
  BY <1>3, ScanVisitInv
<1>4. CASE \E k \in DOMAIN torrents : CheckTorrent(k)
  BY <1>4, CheckTorrentInv
<1>5. CASE \E p \in Paths, c \in Contents \cup {NoFile} : Change(p, c)
  BY <1>5, ChangeInv
<1>6. CASE UNCHANGED vars
  BY <1>6 DEF vars, IndInv, Types, Thread, Adding, Existing, Handled, Found, Torrents, Tracks,
              Collected, ScanFindsAll, CheckIsComplete, Waiting
<1> QED
  BY <1>1, <1>2, <1>3, <1>4, <1>5, <1>6, ScanParseInv, ScanAddV1Inv, ScanAddV2Inv, CheckEraseInv
     DEF Next, Step

(* The invariant holds always.                                             *)
LEMMA Invariance == Spec => []IndInv
  BY InitInv, NextInv, PTL DEF Spec

-----------------------------------------------------------------------------
(* The trie has 20-byte keys that belong to their torrents' hashes, and    *)
(* the thread is always in one of its states.                              *)
THEOREM TypeCorrect == Spec => []TypeOK
<1>1. IndInv => TypeOK
  BY Sha1Key DEF IndInv, Types, Thread, Entry, TypeOK
<1> QED
  BY <1>1, Invariance, PTL

(* Whatever users do meanwhile, a scan that meets no limit leaves every    *)
(* torrent whose file stayed tracked under both hashes.                    *)
THEOREM ScanIsComplete == Spec => []ScanFindsAll
<1>1. IndInv => ScanFindsAll
  BY DEF IndInv
<1> QED
  BY <1>1, Invariance, PTL

(* When check() has returned, no SHA-1 torrent is left whose file has been *)
(* missing since it began.                                                 *)
THEOREM CheckDropsMissing == Spec => []CheckIsComplete
<1>1. IndInv => CheckIsComplete
  BY DEF IndInv
<1> QED
  BY <1>1, Invariance, PTL

(* A torrent leaves the trie only through check(), and only if its own     *)
(* file was missing: never one whose file stayed since the scan began.     *)
THEOREM OnlyMissingErased == Spec => CheckErasesMissing
<1> DEFINE A == \A k \in DOMAIN torrents \ DOMAIN torrents' : torrents[k].path \notin steady
<1>1. IndInv /\ [Next]_vars => [A]_vars
  <2> SUFFICES ASSUME IndInv, Next PROVE A
    BY DEF vars
  <2>1. CASE CheckErase
    <3>1. /\ wl.op = "check" /\ DOMAIN torrents' = DOMAIN torrents \ wl.keys
      BY <2>1 DEF CheckErase
    <3> QED
      BY <3>1 DEF IndInv, Collected
  <2>2. CASE ScanAddV1 \/ ScanAddV2
    BY <2>2 DEF ScanAddV1, ScanAddV2, AddTorrent
  <2>3. CASE UNCHANGED torrents
    BY <2>3
  <2> QED
    BY <2>1, <2>2, <2>3
       DEF Next, Step, ScanBegin, ScanVisit, ScanParse, ScanEnd, CheckTorrent, Change
<1> QED
  BY <1>1, Invariance, PTL DEF Spec, CheckErasesMissing
============================================================================
