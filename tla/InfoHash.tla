------------------------------ MODULE InfoHash ------------------------------
(***************************************************************************)
(* Info hashes and the trie index made of them: class InfoHash, and        *)
(* TorrentDb::torrentKey.                                                  *)
(*                                                                         *)
(* A byte string is a record [id, len]: which bytes, and how many of them. *)
(* Two strings with the same id agree on the bytes both have; different    *)
(* hashes have different ids, so no two of them share a prefix.            *)
(***************************************************************************)
EXTENDS Integers

NoBytes == [id |-> "", len |-> 0]

Substr(b, n) == IF b.len <= n THEN b ELSE [b EXCEPT !.len = n]

(* InfoHash::hashSize                                                      *)
HashTypes == {"NONE", "SHA1", "SHA256"}

hashSize(type) == CASE type = "SHA1"   -> 20
                    [] type = "SHA256" -> 32
                    [] OTHER           -> 0

isValidHashSize(size) == size \in {20, 32}

(* InfoHash::bytes: as many of the 32 bytes as the type says.              *)
bytes(h) == IF hashSize(h.type) = 0 THEN NoBytes
            ELSE [id |-> h.id, len |-> hashSize(h.type)]

(* TorrentDb::torrentKey: 20 bytes also for a SHA-256 hash.                *)
torrentKey(h) == Substr(bytes(h), 20)
============================================================================
