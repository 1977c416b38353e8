----------------------------- MODULE UdpServer -----------------------------
(***************************************************************************)
(* The UDP tracker (hefur/udp-server.cc): one thread that polls a socket,  *)
(* renews the secret that connection ids are made of, and answers connect, *)
(* announce and scrape datagrams through a queue of replies.               *)
(*                                                                         *)
(* An address is a record [family, ip, port] whose ip is a sequence of     *)
(* bytes, a secret a sequence of bytes that is longer.  A connection id is *)
(* the number the code computes of a secret and an ip: different addresses *)
(* may have the same one, and a datagram may carry any.  The database is   *)
(* seen through its trie: the set of keys of the tracked torrents.         *)
(***************************************************************************)
EXTENDS InfoHash, Sequences, SequencesExt, FiniteSets

CONSTANTS
  Clients,       \* socket addresses datagrams come from
  Secrets,       \* what gnutls_rnd may fill a secret with
  Ids,           \* the connection ids that datagrams carry
  Hashes,        \* the 20-byte hashes that clients send, as ids
  Tracked,       \* the keys of TorrentDb::torrents_
  SBUFS_MAX,     \* the literal 64 of UdpServer::receive
  MaxDatagrams,  \* bound on the datagrams that arrive
  SECOND,        \* m::second, in ticks of the clock
  MILLI,         \* m::millisecond, in ticks
  COARSE,        \* what the coarse clock is behind at most, in ticks
  MaxTime        \* bound of the clock

ASSUME UdpAssumption ==
  /\ SECOND \in Nat
  /\ MILLI \in Nat \ {0}
  /\ COARSE \in Nat
  /\ MILLI + COARSE <= SECOND
  /\ SBUFS_MAX \in Nat \ {0}
  /\ MaxDatagrams \in Nat
  /\ MaxTime \in Nat

VARIABLES
  now,           \* the coarse monotonic clock, in ticks
  secrets,       \* secrets_, the newest first
  next_timeout,  \* next_timeout_
  sbufs,         \* sbufs_, the replies to send
  pc,            \* where the thread is: "poll" or "receive"
  inbox,         \* datagrams the socket holds
  arrived,       \* the senders of the datagrams that arrived, in order
  issued         \* connection ids given out, to whom and when

vars == <<now, secrets, next_timeout, sbufs, pc, inbox, arrived, issued>>

(* The exclusive or of a product of two bytes and a byte.                  *)
Bit(n, b) == (n \div 2^b) % 2
Xor(m, n) == MapThenSumSet(LAMBDA b : IF Bit(m, b) # Bit(n, b) THEN 2^b ELSE 0, 0..15)

(* UdpServer::connectionId, for 4 or for 16 bytes of ip; the port is not   *)
(* part of it.  A table of all of them, for TLC to compute it once.        *)
ConnectionIds ==
  [s \in Secrets |-> [a \in Clients |->
     IF a.family \in {"AF_INET", "AF_INET6"}
       THEN MapThenSumSet(LAMBDA j : Xor(a.ip[j] * s[j], s[j + 1]), DOMAIN a.ip)
       ELSE 42]]

connectionId(secret, addr) == ConnectionIds[secret][addr]

checkConnectionId(id, addr) ==
  \E i \in DOMAIN secrets : id = connectionId(secrets[i], addr)

-----------------------------------------------------------------------------
(* UdpServer::start generates the secrets and starts the thread.           *)
Init ==
  /\ now = 0
  /\ secrets \in [1..3 -> Secrets]
  /\ next_timeout = SECOND
  /\ sbufs = << >>
  /\ pc = "poll"
  /\ inbox = << >>
  /\ arrived = << >>
  /\ issued = {}

Tick ==
  /\ now < MaxTime
  /\ now' = now + 1
  /\ UNCHANGED <<secrets, next_timeout, sbufs, pc, inbox, arrived, issued>>

(* A datagram arrives: too short or of no known action, or a request with  *)
(* some id, new or old, its own or another's.                              *)
Arrive(from, action, id, hashes) ==
  /\ Len(arrived) < MaxDatagrams
  /\ arrived' = Append(arrived, from)
  /\ inbox' = Append(inbox, [from |-> from, action |-> action, id |-> id,
                             hashes |-> hashes, transaction |-> Len(arrived) + 1])
  /\ UNCHANGED <<now, secrets, next_timeout, sbufs, pc, issued>>

(* run() cuts the time left down to milliseconds and renews at once if     *)
(* none is left.  Otherwise it polls that long, by a clock that may be     *)
(* ahead of the coarse one: a renewal comes EARLY ticks early at most.     *)
EARLY == MILLI - 1 + COARSE

Expired == next_timeout - now < MILLI
PollOver == next_timeout - now <= EARLY

(* Slips: the oldest secret stays; only one of the others is moved on.     *)
GenSecret_KeepAll ==
  /\ pc = "poll"
  /\ PollOver
  /\ \E s \in Secrets : secrets' = <<s>> \o secrets
  /\ next_timeout' = now + SECOND
  /\ UNCHANGED <<now, sbufs, pc, inbox, arrived, issued>>

GenSecret_MoveOne ==
  /\ pc = "poll"
  /\ PollOver
  /\ \E s \in Secrets : secrets' = <<s, secrets[1], secrets[3]>>
  /\ next_timeout' = now + SECOND
  /\ UNCHANGED <<now, sbufs, pc, inbox, arrived, issued>>

(* UdpServer::genSecret.  If gnutls_rnd fails the newest secret stays what *)
(* it was, which is a secret too.                                          *)
GenSecret ==
  /\ pc = "poll"
  /\ PollOver
  /\ \E s \in Secrets : secrets' = <<s, secrets[1], secrets[2]>>
  /\ next_timeout' = now + SECOND
  /\ UNCHANGED <<now, sbufs, pc, inbox, arrived, issued>>

(* poll() reports that the socket is writable: UdpServer::send sends or    *)
(* drops replies from the front until none is left or the socket is full.  *)
Send(n) ==
  /\ pc = "poll"
  /\ ~ Expired
  /\ sbufs # << >>
  /\ n \in 0..Len(sbufs)
  /\ sbufs' = SubSeq(sbufs, n + 1, Len(sbufs))
  /\ UNCHANGED <<now, secrets, next_timeout, pc, inbox, arrived, issued>>

(* poll() reports a datagram and not that the socket is writable.          *)
ReceiveBegin ==
  /\ pc = "poll"
  /\ ~ Expired
  /\ inbox # << >>
  /\ pc' = "receive"
  /\ UNCHANGED <<now, secrets, next_timeout, sbufs, inbox, arrived, issued>>

(* Slip: receive() goes on until there is nothing to read.                 *)
ReceiveEnd_NoLimit ==
  /\ pc = "receive"
  /\ inbox = << >>
  /\ pc' = "poll"
  /\ UNCHANGED <<now, secrets, next_timeout, sbufs, inbox, arrived, issued>>

(* UdpServer::receive returns: nothing to read, or too many replies wait.  *)
ReceiveEnd ==
  /\ pc = "receive"
  /\ inbox = << >> \/ Len(sbufs) >= SBUFS_MAX
  /\ pc' = "poll"
  /\ UNCHANGED <<now, secrets, next_timeout, sbufs, inbox, arrived, issued>>

-----------------------------------------------------------------------------
(* Slip: the reply overtakes those that wait.                              *)
Reply_First(d, kind, data) ==
  sbufs' = <<[to |-> d.from, kind |-> kind, data |-> data,
              transaction |-> d.transaction]>> \o sbufs

Reply(d, kind, data) ==
  sbufs' = Append(sbufs, [to |-> d.from, kind |-> kind, data |-> data,
                          transaction |-> d.transaction])

(* UdpServer::handleConnect                                                *)
HandleConnect(d) ==
  /\ d.action = "connect"
  /\ Reply(d, "connect", << >>)
  /\ issued' = issued \cup {[id |-> connectionId(secrets[1], d.from), to |-> d.from,
                              at |-> now]}

(* UdpServer::handleAnnounce.  It fills in the 20 bytes of info_hash_ and  *)
(* leaves its type_ at NONE.                                               *)
AnnouncedHash(h) == [type |-> "NONE", id |-> h]

HandleAnnounce(d) ==
  /\ d.action = "announce"
  /\ IF ~ checkConnectionId(d.id, d.from)
       THEN UNCHANGED sbufs
       ELSE IF bytes(AnnouncedHash(Head(d.hashes))) \in Tracked
              THEN Reply(d, "announce", d.hashes)
              ELSE Reply(d, "error", << >>)
  /\ UNCHANGED issued

(* UdpServer::handleScrape: the torrents that are tracked, in the order    *)
(* of the request.                                                         *)
ScrapedHash(h) == [type |-> "SHA1", id |-> h]

HandleScrape(d) ==
  /\ d.action = "scrape"
  /\ IF checkConnectionId(d.id, d.from)
       THEN Reply(d, "scrape", SelectSeq(d.hashes, LAMBDA h : bytes(ScrapedHash(h)) \in Tracked))
       ELSE UNCHANGED sbufs
  /\ UNCHANGED issued

(* No reply: the datagram is shorter than its kind, or of no known kind,   *)
(* there is no memory for a reply, or no database any more.                *)
Ignore == UNCHANGED <<sbufs, issued>>

(* Slip: one reply too many.                                               *)
Receive_OneMore ==
  /\ pc = "receive"
  /\ Len(sbufs) <= SBUFS_MAX
  /\ inbox # << >>
  /\ inbox' = Tail(inbox)
  /\ LET d == Head(inbox) IN
       HandleConnect(d) \/ HandleAnnounce(d) \/ HandleScrape(d) \/ Ignore
  /\ UNCHANGED <<now, secrets, next_timeout, pc, arrived>>

(* One round of the loop of UdpServer::receive.                            *)
Receive ==
  /\ pc = "receive"
  /\ Len(sbufs) < SBUFS_MAX
  /\ inbox # << >>
  /\ inbox' = Tail(inbox)
  /\ LET d == Head(inbox) IN
       HandleConnect(d) \/ HandleAnnounce(d) \/ HandleScrape(d) \/ Ignore
  /\ UNCHANGED <<now, secrets, next_timeout, pc, arrived>>

-----------------------------------------------------------------------------
Network ==
  \E from \in Clients :
    \/ \E action \in {"connect", "other"} : Arrive(from, action, 0, << >>)
    \/ \E id \in Ids, h \in Hashes : Arrive(from, "announce", id, <<h>>)
    \/ \E id \in Ids, g, h \in Hashes : Arrive(from, "scrape", id, <<g, h>>)

Thread ==
  \/ GenSecret
  \/ \E n \in 0..Len(sbufs) : Send(n)
  \/ ReceiveBegin
  \/ Receive
  \/ ReceiveEnd

Next == Network \/ Thread \/ Tick

Spec == Init /\ [][Next]_vars

(* The thread runs, and a socket that is reported writable again and again *)
(* takes at least one datagram in the end.                                 *)
FairSpec ==
  /\ Spec
  /\ WF_vars(GenSecret)
  /\ WF_vars(ReceiveBegin)
  /\ WF_vars(Receive)
  /\ WF_vars(ReceiveEnd)
  /\ SF_vars(\E n \in 1..Len(sbufs) : Send(n))

-----------------------------------------------------------------------------
TypeOK ==
  /\ now \in 0..MaxTime
  /\ secrets \in [1..3 -> Secrets]
  /\ next_timeout \in Nat
  /\ pc \in {"poll", "receive"}
  /\ \A i \in DOMAIN sbufs : sbufs[i].to \in Clients
  /\ \A i \in DOMAIN inbox : inbox[i].from \in Clients

(* However many datagrams arrive, at most SBUFS_MAX replies wait.          *)
BoundedReplies == Len(sbufs) <= SBUFS_MAX

(* A connection id is good for two seconds, less what two renewals come    *)
(* early by the truncation and the coarse clock: the secrets are renewed   *)
(* that far apart also when the thread was held up and makes up for it.    *)
IdLastsTwoSeconds ==
  \A i \in issued :
    now < i.at + 2 * (SECOND - EARLY) => checkConnectionId(i.id, i.to)

(* A datagram is answered once at most, to the address it came from and in *)
(* the order of arrival: what waits is older than what is yet to be read,  *)
(* although the thread leaves receive() and send() half way and ids of     *)
(* different addresses may be equal.                                       *)
RepliesInOrder ==
  /\ \A i \in DOMAIN sbufs : sbufs[i].to = arrived[sbufs[i].transaction]
  /\ \A i, j \in DOMAIN sbufs : i < j => sbufs[i].transaction < sbufs[j].transaction
  /\ \A i \in DOMAIN sbufs, j \in DOMAIN inbox :
       sbufs[i].transaction < inbox[j].transaction

(* README.md: "Support HTTP, HTTPS and UDP announce and scrape".  An       *)
(* announce for a torrent that is tracked does not fail.                   *)
AnnounceIsServed ==
  [][Receive
     /\ Head(inbox).action = "announce"
     /\ bytes(ScrapedHash(Head(inbox).hashes[1])) \in Tracked
     => \A i \in DOMAIN sbufs' :
          sbufs'[i].transaction = Head(inbox).transaction => sbufs'[i].kind # "error"]_vars

(* Every datagram is read and every reply leaves in the end, as only so    *)
(* many arrive: a full queue does not stop the thread, nor do renewals.    *)
QueuesDrain == []<>(inbox = << >> /\ sbufs = << >>)
============================================================================
