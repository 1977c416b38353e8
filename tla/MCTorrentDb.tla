---------------------------- MODULE MCTorrentDb ----------------------------
(* Small instances of TorrentDb for TLC.                                   *)
EXTENDS TorrentDb

V1 == [type |-> "SHA1", id |-> "one"]
V2 == [type |-> "SHA256", id |-> "two"]

(* A torrent of each version.                                              *)
MCFiles == {[hash |-> V1, path |-> "a.torrent"], [hash |-> V2, path |-> "b.torrent"]}

(* Clients send 20 bytes, which are a whole SHA-1 or the start of a        *)
(* SHA-256.                                                                *)
Asked(h) == [h EXCEPT !.type = "SHA1"]

MCRequests(Ports, Hashes, Evs) ==
  [addr      : [family : {AF_INET}, ip : {1}, port : Ports],
   peerid    : {1},
   left      : {0, 1},
   event     : Evs,
   num_want  : {1},
   skip_ipv6 : {FALSE},
   info_hash : {Asked(h) : h \in Hashes}]

DbRequests    == MCRequests({1, 2}, {V1}, {"none", "completed", "stopped"})
                   \cup {req \in MCRequests({1}, {V2}, {"none"}) : req.left = 1}
PeersRequests == MCRequests({1, 2}, {V1}, {"none"})

(* Tracked, tracked by another length, and unknown.                        *)
MCScrapes == {<<Asked(V1), [V1 EXCEPT !.id = "three"], Asked(V2)>>}
(* Total adds up.                                                          *)
ASSUME TotalIsSum ==
  \A n \in [1..3 -> 0..3] : Total(n) = MapThenSumSet(LAMBDA k : n[k], 1..3)
============================================================================
