-------------------------- MODULE UdpServerProofs --------------------------
(***************************************************************************)
(* Proofs about module UdpServer: for any clients and secrets, any number  *)
(* of datagrams and any limit of the queue, the replies that wait are      *)
(* bounded and in order, and an id is good for two seconds.                *)
(***************************************************************************)
EXTENDS UdpServer, TLAPS

Types ==
  /\ now \in 0..MaxTime
  /\ secrets \in [1..3 -> Secrets]
  /\ next_timeout \in Nat
  /\ pc \in {"poll", "receive"}
  /\ arrived \in Seq(Clients)
  /\ \E S : sbufs \in Seq(S)
  /\ \E S : inbox \in Seq(S)

(* Transaction t is of the datagram that came from c.                      *)
From(c, t, senders) == t \in 1..Len(senders) /\ senders[t] = c

Ascending(s) ==
  \A i, j \in 1..Len(s) : i < j => s[i].transaction < s[j].transaction

Before(s, t) ==
  \A i \in 1..Len(s), j \in 1..Len(t) : s[i].transaction < t[j].transaction

Buffers ==
  /\ \A i \in 1..Len(sbufs) : From(sbufs[i].to, sbufs[i].transaction, arrived)
  /\ \A i \in 1..Len(inbox) : From(inbox[i].from, inbox[i].transaction, arrived)
  /\ Ascending(sbufs)
  /\ Ascending(inbox)
  /\ Before(sbufs, inbox)

(* Where the secret of an id is among the three, by the renewals since it  *)
(* was given out, each at most EARLY before it was due.                    *)
Aged(i) ==
  \/ i.id = connectionId(secrets[1], i.to)
  \/ i.id = connectionId(secrets[2], i.to) /\ next_timeout >= i.at + SECOND
  \/ i.id = connectionId(secrets[3], i.to) /\ next_timeout >= i.at + 2 * SECOND - EARLY
  \/ now >= i.at + 2 * (SECOND - EARLY)

Ages == \A i \in issued : i.at \in Nat /\ i.at <= now /\ Aged(i)

IndInv ==
  /\ Types
  /\ Buffers
  /\ Ages
  /\ BoundedReplies

-----------------------------------------------------------------------------
(* Queueing at the back keeps what is there.                               *)
LEMMA AppendOne ==
  ASSUME NEW S, NEW s \in Seq(S), NEW e
  PROVE  /\ Append(s, e) \in Seq(S \cup {e})
         /\ Len(Append(s, e)) = Len(s) + 1
         /\ \A i \in 1..Len(s) : Append(s, e)[i] = s[i]
         /\ Append(s, e)[Len(s) + 1] = e
<1>1. s \in Seq(S \cup {e}) /\ e \in S \cup {e}
  OBVIOUS
<1> QED
  BY <1>1

(* Sending from the front leaves a part of the queue.                      *)
LEMMA DropFront ==
  ASSUME NEW S, NEW s \in Seq(S), NEW n \in 0..Len(s)
  PROVE  /\ SubSeq(s, n + 1, Len(s)) \in Seq(S)
         /\ Len(SubSeq(s, n + 1, Len(s))) = Len(s) - n
         /\ \A i \in 1..(Len(s) - n) : SubSeq(s, n + 1, Len(s))[i] = s[i + n]
  OBVIOUS

(* Reading from the front leaves the rest.                                 *)
LEMMA TakeFirst ==
  ASSUME NEW S, NEW s \in Seq(S), s # << >>
  PROVE  /\ Len(s) \in Nat /\ Len(s) >= 1
         /\ Head(s) = s[1]
         /\ Tail(s) \in Seq(S)
         /\ Len(Tail(s)) = Len(s) - 1
         /\ \A i \in 1..(Len(s) - 1) : Tail(s)[i] = s[i + 1]
  OBVIOUS

(* The times are numbers, and a renewal is not earlier than its second.    *)
LEMMA Times == EARLY \in Nat /\ SECOND \in Nat /\ EARLY <= SECOND
  BY UdpAssumption DEF EARLY

(* The invariant holds when the thread starts.                             *)
LEMMA InitInv == Init => IndInv
<1> SUFFICES ASSUME Init PROVE IndInv
  OBVIOUS
<1> USE UdpAssumption DEF Init
<1>1. << >> \in Seq({}) /\ << >> \in Seq(Clients) /\ Len(<< >>) = 0
  OBVIOUS
<1>2. Types
  BY <1>1 DEF Types
<1>3. Buffers
  BY <1>1 DEF Buffers, Ascending, Before
<1> QED
  BY <1>1, <1>2, <1>3 DEF IndInv, Ages, BoundedReplies

(* A datagram that arrives is the youngest.                                *)
LEMMA ArriveInv ==
  ASSUME IndInv, NEW from \in Clients, NEW action, NEW id, NEW hashes,
         Arrive(from, action, id, hashes)
  PROVE  IndInv'
<1> DEFINE n == Len(arrived)
           d == [from |-> from, action |-> action, id |-> id,
                 hashes |-> hashes, transaction |-> n + 1]
<1>1. inbox' = Append(inbox, d) /\ arrived' = Append(arrived, from)
      /\ UNCHANGED <<now, secrets, next_timeout, sbufs, pc, issued>>
  BY DEF Arrive
<1>2. d.from = from /\ d.transaction = n + 1
  OBVIOUS
<1> HIDE DEF d
<1>3. PICK S : inbox \in Seq(S)
  BY DEF IndInv, Types
<1>4. /\ inbox' \in Seq(S \cup {d}) /\ Len(inbox') = Len(inbox) + 1 /\ Len(inbox) \in Nat
      /\ \A i \in 1..Len(inbox) : inbox'[i] = inbox[i]
      /\ inbox'[Len(inbox) + 1] = d
  BY <1>1, <1>3, AppendOne
<1>5. /\ arrived' \in Seq(Clients) /\ Len(arrived') = n + 1 /\ n \in Nat
      /\ \A i \in 1..n : arrived'[i] = arrived[i]
      /\ arrived'[n + 1] = from
  <2>1. arrived \in Seq(Clients)
    BY DEF IndInv, Types
  <2>2. Append(arrived, from) \in Seq(Clients)
    BY <2>1
  <2> QED
    BY <1>1, <2>1, <2>2, AppendOne
<1>6. Types'
  BY <1>1, <1>4, <1>5 DEF IndInv, Types
<1> HIDE DEF n
<1>7. ASSUME NEW c, NEW t, From(c, t, arrived) PROVE From(c, t, arrived') /\ t \in 1..n
  BY <1>5, <1>7 DEF From, n
<1>8. /\ \A i \in 1..Len(sbufs) : From(sbufs[i].to, sbufs[i].transaction, arrived')
      /\ \A i \in 1..Len(sbufs) : sbufs[i].transaction < n + 1
  BY <1>5, <1>7 DEF IndInv, Buffers
<1>9. /\ \A i \in 1..Len(inbox) : From(inbox[i].from, inbox[i].transaction, arrived')
      /\ \A i \in 1..Len(inbox) : inbox[i].transaction < n + 1
  BY <1>5, <1>7 DEF IndInv, Buffers
<1>10. From(d.from, d.transaction, arrived')
  BY <1>2, <1>5 DEF From
<1>11. \A i \in 1..Len(inbox') : From(inbox'[i].from, inbox'[i].transaction, arrived')
  BY <1>4, <1>9, <1>10
<1>12. Ascending(inbox')
  BY <1>2, <1>4, <1>9 DEF IndInv, Buffers, Ascending
<1>13. Before(sbufs, inbox')
  BY <1>2, <1>4, <1>8 DEF IndInv, Buffers, Before
<1>14. Buffers'
  BY <1>1, <1>8, <1>11, <1>12, <1>13 DEF IndInv, Buffers
<1> QED
  BY <1>1, <1>6, <1>14 DEF IndInv, Ages, Aged, BoundedReplies

(* A renewal moves every secret one place on, a second after the last one. *)
LEMMA GenSecretInv == IndInv /\ GenSecret => IndInv'
<1> SUFFICES ASSUME IndInv, GenSecret PROVE IndInv'
  OBVIOUS
<1>1. PICK s \in Secrets : secrets' = <<s, secrets[1], secrets[2]>>
  BY DEF GenSecret
<1>2. /\ secrets[1] \in Secrets /\ secrets[2] \in Secrets /\ secrets[3] \in Secrets
      /\ next_timeout \in Nat /\ now \in Nat
  BY DEF IndInv, Types
<1>3. secrets'[1] = s /\ secrets'[2] = secrets[1] /\ secrets'[3] = secrets[2]
  BY <1>1
<1>4. /\ next_timeout - now <= EARLY /\ next_timeout' = now + SECOND
      /\ UNCHANGED <<now, sbufs, pc, inbox, arrived, issued>>
  BY DEF GenSecret, PollOver
<1>5. Types'
  BY <1>1, <1>2, <1>4, Times DEF IndInv, Types
<1>6. ASSUME NEW i \in issued PROVE i.at \in Nat /\ i.at <= now /\ Aged(i)'
  <2>1. i.at \in Nat /\ i.at <= now /\ Aged(i)
    BY DEF IndInv, Ages
  <2>2. /\ now + SECOND >= i.at + SECOND
        /\ next_timeout >= i.at + SECOND => now + SECOND >= i.at + 2 * SECOND - EARLY
        /\ next_timeout >= i.at + 2 * SECOND - EARLY => now >= i.at + 2 * (SECOND - EARLY)
    BY ONLY <1>2, <1>4, <2>1, Times
  <2> QED
    BY <2>1, <2>2, <1>3, <1>4 DEF Aged
<1> QED
  BY <1>4, <1>5, <1>6 DEF IndInv, Buffers, Ages, BoundedReplies

(* Handling a datagram queues at most one reply, to its sender; an id is   *)
(* given out under the newest secret.                                      *)
LEMMA ReceiveInv == IndInv /\ Receive => IndInv'
<1> SUFFICES ASSUME IndInv, Receive PROVE IndInv'
  OBVIOUS
<1> DEFINE d == Head(inbox)
<1>1. PICK S : sbufs \in Seq(S)
  BY DEF IndInv, Types
<1>2. PICK T : inbox \in Seq(T)
  BY DEF IndInv, Types
<1>3. /\ inbox' = Tail(inbox) /\ inbox # << >> /\ Len(sbufs) < SBUFS_MAX
      /\ UNCHANGED <<now, secrets, next_timeout, pc, arrived>>
  BY DEF Receive
<1>4. /\ Len(inbox) \in Nat /\ Len(inbox) >= 1 /\ d = inbox[1]
      /\ inbox' \in Seq(T) /\ Len(inbox') = Len(inbox) - 1
      /\ \A i \in 1..Len(inbox') : inbox'[i] = inbox[i + 1]
  BY <1>2, <1>3, TakeFirst
<1>5. /\ From(d.from, d.transaction, arrived)
      /\ \A i \in 1..Len(sbufs) : sbufs[i].transaction < d.transaction
      /\ \A i \in 1..Len(inbox') : d.transaction < inbox'[i].transaction
  <2>1. /\ 1 \in 1..Len(inbox)
        /\ \A i \in 1..Len(inbox') : i + 1 \in 1..Len(inbox) /\ 1 < i + 1
    BY <1>4
  <2>2. \A i \in 1..Len(inbox') : d.transaction < inbox'[i].transaction
    BY <1>4, <2>1 DEF IndInv, Buffers, Ascending
  <2> QED
    BY <1>4, <2>1, <2>2 DEF IndInv, Buffers, Before
<1>6. /\ \A i \in 1..Len(inbox') : From(inbox'[i].from, inbox'[i].transaction, arrived)
      /\ Ascending(inbox')
      /\ Before(sbufs, inbox')
  <2>1. \A i \in 1..Len(inbox') : i + 1 \in 1..Len(inbox)
    BY <1>4
  <2>2. Ascending(inbox')
    BY <1>4, <2>1 DEF IndInv, Buffers, Ascending
  <2> QED
    BY <1>4, <2>1, <2>2 DEF IndInv, Buffers, Before
<1>7. HandleConnect(d) \/ HandleAnnounce(d) \/ HandleScrape(d) \/ Ignore
  BY DEF Receive
<1> HIDE DEF d
<1>8. \A i \in issued' : i.at \in Nat /\ i.at <= now /\ Aged(i)
  <2>1. CASE HandleConnect(d)
    <3> DEFINE j == [id |-> connectionId(secrets[1], d.from), to |-> d.from, at |-> now]
    <3>1. issued' = issued \cup {j}
      BY <2>1 DEF HandleConnect
    <3>2. now \in Nat
      BY DEF IndInv, Types
    <3>3. j.at \in Nat /\ j.at <= now /\ Aged(j)
      BY <3>2 DEF Aged
    <3> QED
      BY <3>1, <3>3 DEF IndInv, Ages
  <2>2. CASE issued' = issued
    BY <2>2 DEF IndInv, Ages
  <2> QED
    BY <1>7, <2>1, <2>2 DEF HandleAnnounce, HandleScrape, Ignore
<1>9. \/ sbufs' = sbufs
      \/ \E r : /\ sbufs' = Append(sbufs, r) /\ r.to = d.from
                /\ r.transaction = d.transaction
  <2>1. CASE HandleConnect(d)
    BY <2>1 DEF HandleConnect, Reply
  <2>2. CASE HandleAnnounce(d)
    BY <2>2 DEF HandleAnnounce, Reply
  <2>3. CASE HandleScrape(d)
    <3>1. CASE ~ checkConnectionId(d.id, d.from)
      BY <2>3, <3>1 DEF HandleScrape
    <3>2. CASE checkConnectionId(d.id, d.from)
      <4> DEFINE data == SelectSeq(d.hashes, LAMBDA h : bytes(ScrapedHash(h)) \in Tracked)
                 r == [to |-> d.from, kind |-> "scrape", data |-> data,
                       transaction |-> d.transaction]
      <4>1. sbufs' = Append(sbufs, r)
        BY <2>3, <3>2 DEF HandleScrape, Reply
      <4> HIDE DEF data
      <4>2. r.to = d.from /\ r.transaction = d.transaction
        OBVIOUS
      <4> QED
        BY <4>1, <4>2
    <3> QED
      BY <3>1, <3>2
  <2> QED
    BY <1>7, <2>1, <2>2, <2>3 DEF Ignore
<1>10. /\ \E U : sbufs' \in Seq(U)
       /\ Len(sbufs') <= SBUFS_MAX
       /\ \A i \in 1..Len(sbufs') : From(sbufs'[i].to, sbufs'[i].transaction, arrived)
       /\ Ascending(sbufs')
       /\ Before(sbufs', inbox')
  <2>1. /\ \A i \in 1..Len(sbufs) : From(sbufs[i].to, sbufs[i].transaction, arrived)
        /\ Ascending(sbufs)
    BY DEF IndInv, Buffers
  <2>2. Len(sbufs) \in Nat /\ SBUFS_MAX \in Nat
    BY <1>1, UdpAssumption
  <2>3. CASE sbufs' = sbufs
    BY <1>1, <1>3, <1>6, <2>1, <2>2, <2>3
  <2>4. ASSUME NEW r, sbufs' = Append(sbufs, r), r.to = d.from, r.transaction = d.transaction
        PROVE  <1>10
    <3>1. /\ sbufs' \in Seq(S \cup {r}) /\ Len(sbufs') = Len(sbufs) + 1
          /\ \A i \in 1..Len(sbufs) : sbufs'[i] = sbufs[i]
          /\ sbufs'[Len(sbufs) + 1] = r
      BY <1>1, <2>4, AppendOne
    <3>2. Len(sbufs') <= SBUFS_MAX
      BY <1>3, <2>2, <3>1
    <3>3. \A i \in 1..Len(sbufs') : From(sbufs'[i].to, sbufs'[i].transaction, arrived)
      BY <1>5, <2>1, <2>2, <2>4, <3>1
    <3>4. Ascending(sbufs')
      BY <1>5, <2>1, <2>2, <2>4, <3>1 DEF Ascending
    <3>5. Before(sbufs', inbox')
      BY <1>5, <1>6, <2>2, <2>4, <3>1 DEF Before
    <3> QED
      BY <3>1, <3>2, <3>3, <3>4, <3>5
  <2> QED
    BY <1>9, <2>3, <2>4
<1>11. Types'
  BY <1>3, <1>4, <1>10 DEF IndInv, Types
<1>12. Buffers'
  BY <1>3, <1>6, <1>10 DEF Buffers
<1> QED
  BY <1>3, <1>8, <1>10, <1>11, <1>12 DEF IndInv, Ages, Aged, BoundedReplies

(* Sending removes replies and nothing else.                               *)
LEMMA SendInv ==
  ASSUME IndInv, NEW n \in 0..Len(sbufs), Send(n)
  PROVE  IndInv'
<1>1. PICK S : sbufs \in Seq(S)
  BY DEF IndInv, Types
<1>2. /\ sbufs' = SubSeq(sbufs, n + 1, Len(sbufs))
      /\ UNCHANGED <<now, secrets, next_timeout, pc, inbox, arrived, issued>>
  BY DEF Send
<1>3. /\ sbufs' \in Seq(S) /\ Len(sbufs') = Len(sbufs) - n
      /\ \A i \in 1..Len(sbufs') : sbufs'[i] = sbufs[i + n]
  BY <1>1, <1>2, DropFront
<1>4. Types'
  BY <1>2, <1>3 DEF IndInv, Types
<1>5. \A i \in 1..Len(sbufs') : i + n \in 1..Len(sbufs)
  BY <1>1, <1>3
<1>6. Buffers'
  <2>1. /\ \A i \in 1..Len(sbufs') : From(sbufs'[i].to, sbufs'[i].transaction, arrived)
        /\ Before(sbufs', inbox)
    BY <1>3, <1>5 DEF IndInv, Buffers, Before
  <2>2. Ascending(sbufs')
    BY <1>1, <1>3, <1>5 DEF IndInv, Buffers, Ascending
  <2> QED
    BY <1>2, <2>1, <2>2 DEF IndInv, Buffers
<1>7. Len(sbufs') <= SBUFS_MAX
  BY <1>1, <1>3, UdpAssumption DEF IndInv, BoundedReplies
<1> QED
  BY <1>2, <1>4, <1>6, <1>7 DEF IndInv, Ages, Aged, BoundedReplies

(* Every step of the network, the thread and the clock preserves it.       *)
LEMMA NextInv == IndInv /\ [Next]_vars => IndInv'
<1> SUFFICES ASSUME IndInv, [Next]_vars PROVE IndInv'
  OBVIOUS
<1>1. CASE Network
  BY <1>1, ArriveInv DEF Network
<1>2. CASE GenSecret
  BY <1>2, GenSecretInv
<1>3. ASSUME NEW n \in 0..Len(sbufs), Send(n) PROVE IndInv'
  BY <1>3, SendInv
<1>4. CASE Receive
  BY <1>4, ReceiveInv
<1>5. CASE ReceiveBegin \/ ReceiveEnd
  BY <1>5 DEF ReceiveBegin, ReceiveEnd, IndInv, Types, Buffers, Ages, Aged, BoundedReplies
<1>6. CASE Tick
  <2>1. /\ now < MaxTime /\ now' = now + 1
        /\ UNCHANGED <<secrets, next_timeout, sbufs, pc, inbox, arrived, issued>>
    BY <1>6 DEF Tick
  <2>2. Types'
    BY <2>1, UdpAssumption DEF IndInv, Types
  <2>3. ASSUME NEW i \in issued PROVE (i.at \in Nat /\ i.at <= now /\ Aged(i))'
    <3>1. i.at \in Nat /\ i.at <= now /\ Aged(i) /\ now \in Nat
      BY DEF IndInv, Types, Ages
    <3>2. i.at <= now' /\ (now >= i.at + 2 * (SECOND - EARLY) => now' >= i.at + 2 * (SECOND - EARLY))
      BY ONLY <2>1, <3>1, Times
    <3> QED
      BY <2>1, <3>1, <3>2 DEF Aged
  <2> QED
    BY <2>1, <2>2, <2>3 DEF IndInv, Buffers, Ages, BoundedReplies
<1>7. CASE UNCHANGED vars
  BY <1>7 DEF vars, IndInv, Types, Buffers, Ages, Aged, BoundedReplies
<1> QED
  BY <1>1, <1>2, <1>3, <1>4, <1>5, <1>6, <1>7 DEF Next, Thread

(* The invariant holds always.                                             *)
LEMMA Invariance == Spec => []IndInv
  BY InitInv, NextInv, PTL DEF Spec

-----------------------------------------------------------------------------
(* The state of the UDP thread is well-typed: three secrets, and replies   *)
(* and datagrams of known clients.                                         *)
THEOREM TypeCorrect == Spec => []TypeOK
<1>1. IndInv => TypeOK
  <2> SUFFICES ASSUME IndInv PROVE TypeOK
    OBVIOUS
  <2>1. arrived \in Seq(Clients)
    BY DEF IndInv, Types
  <2>2. DOMAIN sbufs = 1..Len(sbufs) /\ DOMAIN inbox = 1..Len(inbox)
    BY DEF IndInv, Types
  <2>3. \A c, t : From(c, t, arrived) => c \in Clients
    BY <2>1 DEF From
  <2> QED
    BY <2>2, <2>3 DEF TypeOK, IndInv, Types, Buffers
<1> QED
  BY <1>1, Invariance, PTL

(* receive() stops reading when SBUFS_MAX replies wait, so the queue never *)
(* holds more, whatever arrives and whenever the socket is full.           *)
THEOREM RepliesAreBounded == Spec => []BoundedReplies
<1>1. IndInv => BoundedReplies
  BY DEF IndInv
<1> QED
  BY <1>1, Invariance, PTL

(* genSecret renews the three secrets a second apart, less what run() is   *)
(* early: an id that is younger than two such times is accepted from its   *)
(* address, although the ids are a lossy sum.                              *)
THEOREM IdsLast == Spec => []IdLastsTwoSeconds
<1>1. IndInv => IdLastsTwoSeconds
  <2> SUFFICES ASSUME IndInv, NEW i \in issued, now < i.at + 2 * (SECOND - EARLY)
               PROVE  checkConnectionId(i.id, i.to)
    BY DEF IdLastsTwoSeconds
  <2>1. i.at \in Nat /\ now \in Nat /\ Aged(i)
    BY DEF IndInv, Types, Ages
  <2>2. ~ (now >= i.at + 2 * (SECOND - EARLY))
    BY ONLY <2>1, Times, now < i.at + 2 * (SECOND - EARLY)
  <2>3. PICK k \in 1..3 : i.id = connectionId(secrets[k], i.to)
    BY <2>1, <2>2 DEF Aged
  <2>4. k \in DOMAIN secrets
    BY DEF IndInv, Types
  <2> QED
    BY <2>3, <2>4 DEF checkConnectionId
<1> QED
  BY <1>1, Invariance, PTL

(* receive() and send() keep the order of arrival whenever they stop half  *)
(* way, and every handler answers the address its datagram came from: what *)
(* waits is older than what is yet to be read.                             *)
THEOREM RepliesOrdered == Spec => []RepliesInOrder
<1>1. IndInv => RepliesInOrder
  <2> SUFFICES ASSUME IndInv PROVE RepliesInOrder
    OBVIOUS
  <2>1. DOMAIN sbufs = 1..Len(sbufs) /\ DOMAIN inbox = 1..Len(inbox)
    BY DEF IndInv, Types
  <2> QED
    BY <2>1 DEF RepliesInOrder, IndInv, Buffers, From, Ascending, Before
<1> QED
  BY <1>1, Invariance, PTL
============================================================================
