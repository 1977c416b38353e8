-------------------------------- MODULE Swarm --------------------------------
(***************************************************************************)
(* What a torrent of the tracker promises, without the list, the trie and  *)
(* the counters that implement it: a table of the peers of one torrent, in *)
(* which                                                                   *)
(*   - an announce enters or refreshes exactly the announcing peer, and if *)
(*     the table grows past MAX_PEERS one of the peers that announced      *)
(*     longest ago makes room (manual: "we simply pop the oldest peer, to  *)
(*     push the new one");                                                 *)
(*   - a stop removes exactly the stopping peer;                           *)
(*   - any other peer leaves only once its timeout has passed;             *)
(*   - the completed count grows exactly when a peer that the table holds  *)
(*     as a leecher completes.                                             *)
(***************************************************************************)
EXTENDS Address, Integers, FiniteSets

CONSTANTS
  Requests,   \* the announce requests that may arrive
  MAX_PEERS,  \* bound of the table
  Timeout,    \* life of an entry that is not refreshed
  CountMax    \* the completed count is an unsigned integer up to CountMax

VARIABLES
  swarm,      \* the peers, by address key
  done,       \* how often a leecher completed
  time        \* the clock

vars == <<swarm, done, time>>

-----------------------------------------------------------------------------
Without(s, k) == [x \in DOMAIN s \ {k} |-> s[x]]

With(s, req) ==
  [x \in DOMAIN s \cup {Key(req.addr)} |->
     IF x = Key(req.addr)
       THEN [addr       |-> req.addr,
             left       |-> req.left,
             peerid     |-> req.peerid,
             timeout_ts |-> time + Timeout]
       ELSE s[x]]

Oldest(s) == {k \in DOMAIN s : \A x \in DOMAIN s : s[k].timeout_ts <= s[x].timeout_ts}

IsLeecher(k) == k \in DOMAIN swarm /\ swarm[k].left > 0

-----------------------------------------------------------------------------
Init == /\ swarm = [k \in {} |-> 0]
        /\ done = 0
        /\ time = 0

(* A leecher of the table that reports completion is counted once: from    *)
(* then on the table holds it as a seeder.                                 *)
Tally(req) ==
  done' = IF req.event = "completed" /\ req.left = 0 /\ IsLeecher(Key(req.addr))
            THEN IF done = CountMax THEN 0 ELSE done + 1
            ELSE done

Arrive(req) ==
  /\ req.event # "stopped"
  /\ \/ /\ Cardinality(DOMAIN With(swarm, req)) <= MAX_PEERS
        /\ swarm' = With(swarm, req)
     \/ /\ Cardinality(DOMAIN With(swarm, req)) > MAX_PEERS
        /\ \E k \in Oldest(With(swarm, req)) : swarm' = Without(With(swarm, req), k)
  /\ Tally(req)
  /\ UNCHANGED time

Depart(req) ==
  /\ req.event = "stopped"
  /\ swarm' = Without(swarm, Key(req.addr))
  /\ UNCHANGED <<done, time>>

Expire ==
  /\ \E k \in DOMAIN swarm :
       /\ swarm[k].timeout_ts <= time
       /\ swarm' = Without(swarm, k)
  /\ UNCHANGED <<done, time>>

Tick ==
  /\ time' = time + 1
  /\ UNCHANGED <<swarm, done>>

Next == \/ \E req \in Requests : Arrive(req) \/ Depart(req)
        \/ Expire
        \/ Tick

Spec == Init /\ [][Next]_vars

============================================================================
