---------------------------- MODULE TorrentTypes ----------------------------
(***************************************************************************)
(* What clients may announce, and what a torrent holds of it: the inputs   *)
(* that the modules Torrent and TorrentDb share.                           *)
(***************************************************************************)
EXTENDS TorrentOps

CONSTANT Requests    \* the announce requests that clients may send

ASSUME RequestsAssumption == \A req \in Requests : IsRequest(req)

(* The keys that peers may have.                                           *)
Keys == {Key(req.addr) : req \in Requests}

(* Each peer has the address and the id of one request.                    *)
FromRequests(t) ==
  \A k \in DOMAIN t.peers :
    \E req \in Requests : t.peers[k].addr = req.addr /\ t.peers[k].peerid = req.peerid
============================================================================
