--------------------------- MODULE FrontEndProofs ---------------------------
(***************************************************************************)
(* Proofs about module FrontEnd: for any clients, connections, queries and *)
(* torrents, the handlers hand well-formed requests to the torrents, the   *)
(* two front ends agree on the number of peers, the links of the page of   *)
(* torrents work, peers are registered at their own address, and clients   *)
(* are told addresses at which other peers can be reached.                 *)
(***************************************************************************)
EXTENDS FrontEnd, TorrentOpsProofs

-----------------------------------------------------------------------------
(* Numbers between int and uint32_t.                                       *)

IsNumWant(m) == m = Absent \/ \E n \in -(INT_MAX + 1) .. INT_MAX : m = <<n>>

UdpNumWant(m) == ToUint(IF m = Absent THEN -1 ELSE m[1])

(* What a client that sends m gets.                                        *)
Want(m) == LET n == IF m = Absent THEN MIN_NUMWANT ELSE m[1]
           IN  IF n < MIN_NUMWANT THEN MIN_NUMWANT
               ELSE IF n > MAX_NUMWANT THEN MAX_NUMWANT ELSE n

(* The conversion to uint32_t and back is the identity on an int.          *)
LEMMA RoundTrip ==
  ASSUME NEW n \in -(INT_MAX + 1) .. INT_MAX
  PROVE  ToUint(n) \in 0..UINT_MAX /\ ToInt(ToUint(n)) = n
  BY OptionsAssumption DEF ToUint, ToInt, UINT_MAX

(* std::min<int> before the conversion does not disturb std::clamp<int>.   *)
LEMMA NumWants ==
  ASSUME NEW m, IsNumWant(m)
  PROVE  /\ HttpNumWant(m) \in 0..UINT_MAX /\ ClampNumWant(HttpNumWant(m)) = Want(m)
         /\ UdpNumWant(m) \in 0..UINT_MAX /\ ClampNumWant(UdpNumWant(m)) = Want(m)
<1>1. CASE m = Absent
  <2>1. /\ HttpNumWant(m) = MIN_NUMWANT /\ UdpNumWant(m) = ToUint(-1) /\ Want(m) = MIN_NUMWANT
    BY <1>1, OptionsAssumption DEF HttpNumWant, UdpNumWant, Want
  <2>2. ToUint(-1) \in 0..UINT_MAX /\ ToInt(ToUint(-1)) = -1
    BY OptionsAssumption, RoundTrip
  <2>3. MIN_NUMWANT \in 0..UINT_MAX /\ ToInt(MIN_NUMWANT) = MIN_NUMWANT
    BY OptionsAssumption DEF ToInt, UINT_MAX
  <2> QED
    BY <2>1, <2>2, <2>3, OptionsAssumption DEF ClampNumWant
<1>2. ASSUME NEW n \in -(INT_MAX + 1) .. INT_MAX, m = <<n>>
      PROVE  /\ HttpNumWant(m) \in 0..UINT_MAX /\ ClampNumWant(HttpNumWant(m)) = Want(m)
             /\ UdpNumWant(m) \in 0..UINT_MAX /\ ClampNumWant(UdpNumWant(m)) = Want(m)
  <2> DEFINE k == IF n < MAX_NUMWANT THEN n ELSE MAX_NUMWANT
             w == IF n < MIN_NUMWANT THEN MIN_NUMWANT ELSE IF n > MAX_NUMWANT THEN MAX_NUMWANT ELSE n
  <2>1. m # Absent /\ m[1] = n
    BY <1>2 DEF Absent
  <2>2. HttpNumWant(m) = ToUint(k) /\ UdpNumWant(m) = ToUint(n) /\ Want(m) = w
    BY <2>1 DEF HttpNumWant, UdpNumWant, Want
  <2>3. k \in -(INT_MAX + 1) .. INT_MAX
    BY OptionsAssumption
  <2>4. /\ ToUint(k) \in 0..UINT_MAX /\ ToInt(ToUint(k)) = k
        /\ ToUint(n) \in 0..UINT_MAX /\ ToInt(ToUint(n)) = n
    BY <2>3, RoundTrip
  <2>5. ClampNumWant(ToUint(n)) = w /\ ClampNumWant(ToUint(k)) = w
    BY <2>4, OptionsAssumption DEF ClampNumWant
  <2> QED
    BY <2>2, <2>4, <2>5
<1> QED
  BY <1>1, <1>2 DEF IsNumWant

-----------------------------------------------------------------------------
(* Addresses.                                                              *)

Kinds == {"v4", "v6", "mapped"}

Unmapped(ip) == IF ip[1] = "mapped" THEN <<"v4", ip[2]>> ELSE ip

(* The family of an address that is not mapped.                            *)
FamilyOf(ip) == IF ip[1] = "v4" THEN AF_INET ELSE AF_INET6

IsAddress(a) == a \in [family : Families, ip : {a.ip}, port : {a.port}]

(* Address::operator= and setPort give one of the families, and store the  *)
(* ip of a sockaddr with its family, and the port.                         *)
LEMMA AddressFrom ==
  ASSUME NEW old, IsAddress(old), NEW ip, NEW port, NEW a, a = setPort(FromSockaddr(old, ip), port)
  PROVE  /\ a.family \in Families
         /\ ip[1] \in Kinds => /\ a.ip = Unmapped(ip)
                              /\ a.family = FamilyOf(a.ip)
                              /\ a.port = port
<1> DEFINE f == FromSockaddr(old, ip)
<1>1. /\ IsAddress(f)
      /\ ip[1] \in Kinds => f.ip = Unmapped(ip) /\ f.family = FamilyOf(f.ip)
  BY DEF IsAddress, FromSockaddr, Unmapped, Kinds, FamilyOf, Families, AF_INET, AF_INET6, AF_UNSPEC
<1> HIDE DEF f
<1>2. \/ a = f /\ f.family \notin {AF_INET, AF_INET6}
      \/ a = [f EXCEPT !.port = port]
  BY DEF setPort, f
<1>3. FamilyOf(f.ip) \in {AF_INET, AF_INET6}
  BY DEF FamilyOf
<1>4. CASE a = [f EXCEPT !.port = port]
  BY <1>1, <1>4 DEF IsAddress
<1>5. CASE a = f /\ f.family \notin {AF_INET, AF_INET6}
  BY <1>1, <1>3, <1>5 DEF IsAddress
<1> QED
  BY <1>2, <1>4, <1>5

(* A new Address object.                                                   *)
LEMMA GarbageIsAddress == \A old \in Garbage \cup {Unset} : IsAddress(old)
  BY FrontEndAssumption DEF IsAddress, Unset, Families

(* What a socket reports is the address, maybe in mapped form.             *)
LEMMA ReportedIp ==
  ASSUME NEW ip, NEW h, h = <<"v4", h[2]>> \/ h = <<"v6", h[2]>>, ip \in Reported(h)
  PROVE  ip[1] \in Kinds /\ Unmapped(ip) = h
  BY DEF Reported, Kinds, Unmapped

-----------------------------------------------------------------------------
(* The inductive invariant.  A connection shows the client that opened it, *)
(* or the proxy as long as no header was taken from it.                    *)
ChannelOK(ch, o) ==
  \/ ch = Closed
  \/ /\ ch \in [open : {TRUE}, client : Clients, direct : BOOLEAN, ip : {ch.ip}]
     /\ ch.ip[1] \in Kinds
     /\ ~ Reuse /\ o.REVERSE_PROXY_FROM # Anywhere =>
          \/ Unmapped(ch.ip) = Home[ch.client]
          \/ ~ ch.direct /\ Unmapped(ch.ip) = Gate

Own(ip, c, o) ==
  \/ ip = Home[c]
  \/ o.REVERSE_PROXY_FROM = Absent /\ ip = Gate

Guarded(o) == ~ Reuse /\ ~ o.ALLOW_PROXY /\ o.REVERSE_PROXY_FROM # Anywhere

(* The client c can be reached at the address a.                           *)
PlaceOK(a, c, o) ==
  /\ c \in Clients
  /\ Own(a.ip, c, o)
  /\ a.family = FamilyOf(a.ip)
  /\ a.port = Port[c]

TorrentOK(t, o) ==
  /\ Healthy(t, 0)
  /\ Guarded(o) => \A x \in DOMAIN t.peers : PlaceOK(t.peers[x].addr, t.peers[x].peerid, o)

TorrentsOK(T, o) ==
  /\ T = [k \in {torrentKey(h) : h \in Hashes} |-> T[k]]
  /\ \A k \in DOMAIN T : TorrentOK(T[k], o)

(* A request that a handler made of a query with the number m.             *)
RequestOK(req, m) ==
  /\ IsRequest(req)
  /\ ClampNumWant(req.num_want) = Want(m)

(* An address of somebody else than c.                                     *)
ToldOK(a, c, o) == \E d \in Clients \ {c} : PlaceOK(a, d, o)

ServedOK(s, o) ==
  /\ s.page = "announce" /\ s.status # "refused" =>
       /\ RequestOK(s.req, s.asked)
       /\ Guarded(o) => \A i \in DOMAIN s.told : ToldOK(s.told[i], s.req.peerid, o)
  /\ s.page = "peers" /\ (\E h \in Hashes : s.hash = bytes(h)) => s.status = "200"

IndInv ==
  /\ options \in Options
  /\ TorrentsOK(torrents, options)
  /\ channel = [n \in Connections |-> channel[n]]
  /\ \A n \in Connections : ChannelOK(channel[n], options)
  /\ ServedOK(served, options)

(* No connection, no peer and no request at first.                         *)
LEMMA InitInv == Init => IndInv
<1> SUFFICES ASSUME Init PROVE IndInv
  OBVIOUS
<1>1. TorrentOK(NewTorrent, options)
  <2>1. Healthy(NewTorrent, 0)
    BY NewTorrentHealthy
  <2>2. DOMAIN NewTorrent.peers = {}
    BY DEF NewTorrent
  <2> QED
    BY <2>1, <2>2 DEF TorrentOK
<1>2. torrents = [k \in {torrentKey(h) : h \in Hashes} |-> NewTorrent]
  BY DEF Init
<1>3. TorrentsOK(torrents, options)
  <2> HIDE DEF Init
  <2> QED
    BY <1>1, <1>2 DEF TorrentsOK
<1>4. channel = [n \in Connections |-> channel[n]] /\ \A n \in Connections : channel[n] = Closed
  BY DEF Init
<1>5. ServedOK(served, options)
  BY DEF Init, Nothing, ServedOK
<1> QED
  BY <1>3, <1>4, <1>5 DEF Init, IndInv, ChannelOK

(* One connection changes.                                                 *)
LEMMA ChannelInv ==
  ASSUME IndInv, NEW n \in Connections, NEW ch, ChannelOK(ch, options),
         channel' = [channel EXCEPT ![n] = ch]
  PROVE  /\ channel' = [x \in Connections |-> channel'[x]]
         /\ \A x \in Connections : ChannelOK(channel'[x], options)
<1>1. /\ channel' = [x \in Connections |-> channel'[x]]
      /\ channel'[n] = ch
      /\ \A x \in Connections : x # n => channel'[x] = channel[x]
  BY DEF IndInv
<1> QED
  BY <1>1 DEF IndInv

(* A client connects, or the proxy for it.                                 *)
LEMMA ConnectInv ==
  ASSUME IndInv, NEW n \in Connections, NEW c \in Clients, NEW direct \in BOOLEAN,
         Connect(n, c, direct)
  PROVE  IndInv'
<1> DEFINE h == IF direct THEN Home[c] ELSE Gate
<1>1. PICK ip \in Reported(h) :
        channel' = [channel EXCEPT ![n] = [open |-> TRUE, client |-> c, direct |-> direct, ip |-> ip]]
  BY DEF Connect
<1>2. UNCHANGED <<options, torrents, served>>
  BY DEF Connect
<1>3. h = <<"v4", h[2]>> \/ h = <<"v6", h[2]>>
  BY FrontEndAssumption, ProxyAssumption
<1>4. ip[1] \in Kinds /\ Unmapped(ip) = h
  BY <1>1, <1>3, ReportedIp
<1> DEFINE ch == [open |-> TRUE, client |-> c, direct |-> direct, ip |-> ip]
<1>5. /\ ch \in [open : {TRUE}, client : Clients, direct : BOOLEAN, ip : {ch.ip}]
      /\ ch.ip = ip /\ ch.client = c /\ ch.direct = direct
  OBVIOUS
<1> HIDE DEF ch
<1>6. ChannelOK(ch, options)
  BY <1>4, <1>5 DEF ChannelOK
<1>7. /\ channel' = [x \in Connections |-> channel'[x]]
      /\ \A x \in Connections : ChannelOK(channel'[x], options)
  BY <1>1, <1>6, ChannelInv DEF ch
<1> QED
  BY <1>2, <1>7 DEF IndInv

(* LogHandler::handle: whoever sends a request, and with which header, the *)
(* channel then shows its address, or that of a proxy nobody has named.    *)
LEMMA RealIpIsOwn ==
  ASSUME IndInv, NEW n \in Connections, channel[n].open,
         NEW c \in Senders(n), NEW header \in Headers(n, c),
         NEW ip, ip = RealIp(channel[n].ip, header)
  PROVE  /\ channel[n] # Closed
         /\ c \in Clients
         /\ ip[1] \in Kinds
         /\ ~ Reuse /\ options.REVERSE_PROXY_FROM # Anywhere =>
              /\ c = channel[n].client
              /\ \/ Unmapped(ip) = Home[c]
                 \/ /\ ~ channel[n].direct /\ Unmapped(ip) = Gate
                    /\ options.REVERSE_PROXY_FROM = Absent
<1> DEFINE ch == channel[n]
<1>1. ch # Closed
  BY DEF Closed
<1>2. /\ ch \in [open : {TRUE}, client : Clients, direct : BOOLEAN, ip : {ch.ip}]
      /\ ch.ip[1] \in Kinds
      /\ ~ Reuse /\ options.REVERSE_PROXY_FROM # Anywhere =>
           \/ Unmapped(ch.ip) = Home[ch.client]
           \/ ~ ch.direct /\ Unmapped(ch.ip) = Gate
  BY <1>1 DEF IndInv, ChannelOK
<1>3. c \in Clients /\ (~ Reuse => c = ch.client)
  BY <1>2 DEF Senders
<1>4. FromSockaddr(Unset, ch.ip).ip = Unmapped(ch.ip)
  BY <1>2 DEF FromSockaddr, Unset, Unmapped, Kinds
<1>5. ip = ch.ip \/ (FromProxy(ch.ip) /\ header[1] \in Kinds /\ ip = Unmapped(header))
  BY DEF RealIp, Kinds, Unmapped
<1>6. ip[1] \in Kinds /\ Unmapped(Unmapped(header)) = Unmapped(header)
  BY <1>2, <1>5 DEF Kinds, Unmapped
<1>7. ASSUME ~ Reuse, options.REVERSE_PROXY_FROM # Anywhere
      PROVE  \/ Unmapped(ip) = Home[c]
             \/ /\ ~ ch.direct /\ Unmapped(ip) = Gate
                /\ options.REVERSE_PROXY_FROM = Absent
  <2>1. options.REVERSE_PROXY_FROM \in {Absent, Gate}
    BY <1>7, ProxyAssumption DEF IndInv
  <2>2. FromProxy(ch.ip) <=> options.REVERSE_PROXY_FROM = Unmapped(ch.ip)
    BY <1>4, <1>7 DEF FromProxy
  <2>3. Home[c] \in {<<"v4", c>>, <<"v6", c>>} /\ Home[c] # Gate /\ Home[c] # Absent /\ Gate # Absent
    <3>1. Home[c] \in {<<"v4", c>>, <<"v6", c>>} /\ Home[c] # Gate
      BY <1>3, FrontEndAssumption, ProxyAssumption
    <3>2. Home[c][1] \in {"v4", "v6"} /\ Gate[1] \in {"v4", "v6"} /\ Absent[1] = "absent"
      <4>1. ASSUME NEW a, NEW b, a \in {<<"v4", b>>, <<"v6", b>>} PROVE a[1] \in {"v4", "v6"}
        BY <4>1
      <4>2. Gate \in {<<"v4", Gate[2]>>, <<"v6", Gate[2]>>}
        BY ProxyAssumption
      <4> QED
        BY <3>1, <4>1, <4>2 DEF Absent
    <3> QED
      BY <3>1, <3>2
  <2>4. CASE Unmapped(ch.ip) = Home[c]
    <3>1. ~ FromProxy(ch.ip)
      BY <2>1, <2>2, <2>3, <2>4
    <3> QED
      BY <1>5, <2>4, <3>1
  <2>5. CASE ~ ch.direct /\ Unmapped(ch.ip) = Gate
    <3>1. header \in Reported(Home[c])
      BY <2>5 DEF Headers
    <3>2. header[1] \in Kinds /\ Unmapped(header) = Home[c]
      BY <2>3, <3>1, ReportedIp
    <3>3. CASE options.REVERSE_PROXY_FROM = Gate
      <4>1. FromProxy(ch.ip) /\ header # Absent
        <5>1. Absent[1] \notin Kinds
          BY DEF Kinds, Absent
        <5> QED
          BY <2>2, <2>5, <3>2, <3>3, <5>1
      <4>2. ip = Unmapped(header)
        BY <3>2, <4>1 DEF RealIp, Kinds, Unmapped
      <4> QED
        BY <1>6, <3>2, <4>2
    <3>4. CASE options.REVERSE_PROXY_FROM = Absent
      <4>1. ~ FromProxy(ch.ip)
        BY <2>2, <2>3, <2>5, <3>4
      <4> QED
        BY <1>5, <2>5, <3>4, <4>1
    <3> QED
      BY <2>1, <3>3, <3>4
  <2> QED
    BY <1>2, <1>3, <1>7, <2>4, <2>5
<1> QED
  BY <1>1, <1>3, <1>6, <1>7

(* The channel keeps what LogHandler::handle stored, or is closed.         *)
LEMMA PassInv ==
  ASSUME IndInv, NEW n \in Connections, channel[n].open,
         NEW c \in Senders(n), NEW header \in Headers(n, c),
         NEW ip, ip = RealIp(channel[n].ip, header), NEW keep \in BOOLEAN, Pass(n, ip, keep)
  PROVE  /\ channel' = [x \in Connections |-> channel'[x]]
         /\ \A x \in Connections : ChannelOK(channel'[x], options)
<1> DEFINE old == channel[n]
           ch == IF keep THEN [old EXCEPT !.ip = ip] ELSE Closed
<1>1. channel' = [channel EXCEPT ![n] = ch]
  BY DEF Pass
<1>2. /\ old # Closed /\ ip[1] \in Kinds
      /\ ~ Reuse /\ options.REVERSE_PROXY_FROM # Anywhere =>
           /\ c = old.client
           /\ Unmapped(ip) = Home[c] \/ (~ old.direct /\ Unmapped(ip) = Gate)
  BY RealIpIsOwn
<1>3. ChannelOK(ch, options)
  <2>1. CASE keep
    <3> DEFINE d == [old EXCEPT !.ip = ip]
    <3>1. old \in [open : {TRUE}, client : Clients, direct : BOOLEAN, ip : {old.ip}]
      BY <1>2 DEF IndInv, ChannelOK
    <3>2. /\ d \in [open : {TRUE}, client : Clients, direct : BOOLEAN, ip : {d.ip}]
          /\ d.ip = ip /\ d.client = old.client /\ d.direct = old.direct
      BY <3>1
    <3> HIDE DEF d
    <3>3. ChannelOK(d, options)
      BY <1>2, <3>2 DEF ChannelOK
    <3> QED
      BY <2>1, <3>3 DEF d
  <2>2. CASE ~ keep
    BY <2>2 DEF ChannelOK
  <2> QED
    BY <2>1, <2>2
<1> HIDE DEF ch
<1> QED
  BY <1>1, <1>3, ChannelInv

(* The addresses of a response are those of other peers.                   *)
LEMMA ResponseNames ==
  ASSUME NEW t, NEW o, Guarded(o), TorrentOK(t, o), NEW req, IsRequest(req),
         PlaceOK(req.addr, req.peerid, o),
         NEW addrs, addrs = AnnounceResponse(t, req, 0).addrs
  PROVE  /\ addrs \in Seq(ToSet(addrs))
         /\ \A i \in DOMAIN addrs :
              /\ ToldOK(addrs[i], req.peerid, o)
              /\ req.skip_ipv6 => addrs[i].family = AF_INET
<1>1. CASE req.event = "stopped"
  <2>1. addrs = << >>
    BY <1>1 DEF AnnounceResponse
  <2>2. addrs \in Seq(ToSet(addrs))
    BY ONLY <2>1
  <2>3. DOMAIN addrs = {}
    BY ONLY <2>1
  <2> QED
    BY ONLY <2>2, <2>3
<1>2. CASE req.event # "stopped"
  <2> DEFINE k == Key(req.addr)
             u == Less(t, k)
             v == CreateOrUpdatePeer(t, req, 0)
  <2>1. Healthy(t, 0) /\ IsTorrent(t)
    BY DEF TorrentOK, Healthy, Sound
  <2>2. Sound(v)
    BY <2>1, CreateOrUpdatePeerSound
  <2>3. /\ DOMAIN u.peers = DOMAIN t.peers \ {k}
        /\ \A x \in DOMAIN u.peers : u.peers[x] = t.peers[x]
        /\ Inserted(v, u, k, req, 0)
    BY <2>1, UpdateIsReinsert
  <2>4. addrs = PeerList(v, req)
    BY <1>2 DEF AnnounceResponse
  <2> HIDE DEF k, u, v
  <2>5. ASSUME NEW x \in DOMAIN v.peers
        PROVE  PlaceOK(v.peers[x].addr, v.peers[x].peerid, o)
    <3>1. \/ x \in DOMAIN t.peers /\ v.peers[x] = t.peers[x]
          \/ v.peers[x].addr = req.addr /\ v.peers[x].peerid = req.peerid
      BY <2>3 DEF Inserted, PeerOf
    <3> QED
      BY <3>1 DEF TorrentOK
  <2>6. PICK n, f : Names(f, n, v, req) /\ addrs = [i \in 1..n |-> v.peers[f[i]].addr]
    BY ONLY IsRequest(req), <2>2, <2>4, PeerListNames
  <2>7. n \in Nat /\ DOMAIN addrs = 1..n /\ addrs = [i \in 1..n |-> addrs[i]]
    BY <2>6 DEF Names
  <2>8. addrs \in Seq(ToSet(addrs))
    BY <2>7 DEF ToSet
  <2>9. ASSUME NEW i \in DOMAIN addrs
        PROVE  /\ ToldOK(addrs[i], req.peerid, o)
               /\ req.skip_ipv6 => addrs[i].family = AF_INET
    <3> DEFINE p == v.peers[f[i]]
    <3>1. f[i] \in DOMAIN v.peers /\ Eligible(req, p) /\ addrs[i] = p.addr
      BY <2>6, <2>7 DEF Names
    <3>2. PlaceOK(p.addr, p.peerid, o)
      BY <2>5, <3>1
    <3> HIDE DEF p
    <3>3. p.peerid # req.peerid
      BY <3>1 DEF Eligible
    <3>4. req.skip_ipv6 => p.addr.family # AF_INET6
      BY <3>1 DEF Eligible
    <3>5. p.addr.family \in {AF_INET, AF_INET6}
      BY <3>2 DEF PlaceOK, FamilyOf
    <3> QED
      BY <3>1, <3>2, <3>3, <3>4, <3>5 DEF ToldOK, PlaceOK
  <2> QED
    BY <2>8, <2>9
<1> QED
  BY <1>1, <1>2

(* A compact answer has the addresses of one family.                       *)
LEMMA FamilyOnly ==
  ASSUME NEW S, NEW addrs \in Seq(S), NEW f
  PROVE  OfFamily(addrs, f) \in Seq(S)
<1> DEFINE P == {i \in DOMAIN addrs : addrs[i].family = f}
<1>1. OfFamily(addrs, f) = At(addrs, P)
  BY DEF OfFamily, Filter
<1>2. P \in SUBSET DOMAIN addrs
  OBVIOUS
<1> HIDE DEF P
<1>3. PICK m : Along(m, P) /\ At(addrs, P) = [n \in 1..Cardinality(P) |-> addrs[m[n]]]
  BY <1>2, WalkInOrder
<1>4. Cardinality(P) \in Nat /\ \A n \in 1..Cardinality(P) : addrs[m[n]] \in S
  BY <1>2, <1>3 DEF Along
<1> QED
  BY <1>1, <1>3, <1>4

(* Each form of an HTTP answer tells nothing but addresses of the response.*)
LEMMA HttpTells ==
  ASSUME NEW addrs, addrs \in Seq(ToSet(addrs)), NEW q
  PROVE  \A i \in DOMAIN HttpTold(q, addrs) :
           \E j \in DOMAIN addrs : HttpTold(q, addrs)[i] = addrs[j]
<1> DEFINE a == OfFamily(addrs, AF_INET)
           b == OfFamily(addrs, AF_INET6)
<1>1. a \in Seq(ToSet(addrs)) /\ b \in Seq(ToSet(addrs))
  BY FamilyOnly
<1>2. HttpTold(q, addrs) = IF q.compact THEN a \o b ELSE addrs
  BY DEF HttpTold
<1> HIDE DEF a, b
<1>3. a \o b \in Seq(ToSet(addrs))
  BY <1>1
<1>4. \A i \in DOMAIN (a \o b) : (a \o b)[i] \in ToSet(addrs)
  BY <1>3
<1>5. \A x \in ToSet(addrs) : \E j \in DOMAIN addrs : x = addrs[j]
  BY DEF ToSet
<1> QED
  BY <1>2, <1>4, <1>5

(* A datagram does so as long as no address is an IPv6 one.                *)
LEMMA UdpTells ==
  ASSUME NEW addrs, \A i \in DOMAIN addrs : addrs[i].family = AF_INET
  PROVE  \A i \in DOMAIN UdpTold(addrs) : \E j \in DOMAIN addrs : UdpTold(addrs)[i] = addrs[j]
  BY DEF UdpTold

(* TorrentDb::announce with a request that a handler has made.             *)
LEMMA TellInv ==
  ASSUME IndInv, NEW req, NEW q, NEW told, Tell(req, q, told), RequestOK(req, q.numwant),
         Guarded(options) => PlaceOK(req.addr, req.peerid, options),
         told = HttpTold(q, Addrs(req)) \/ (req.skip_ipv6 /\ told = UdpTold(Addrs(req)))
  PROVE  /\ TorrentsOK(torrents', options)
         /\ ServedOK(served', options)
<1> DEFINE k == bytes(req.info_hash)
           u == Announce(torrents[k], req, 0)
           addrs == Addrs(req)
<1>1. Found(req) => k \in DOMAIN torrents /\ TorrentOK(torrents[k], options)
  BY DEF Found, IndInv, TorrentsOK
<1>2. IsRequest(req)
  BY DEF RequestOK
<1>3. ASSUME Guarded(options)
      PROVE  \A i \in DOMAIN told : ToldOK(told[i], req.peerid, options)
  <2>1. /\ addrs \in Seq(ToSet(addrs))
        /\ \A i \in DOMAIN addrs : /\ ToldOK(addrs[i], req.peerid, options)
                                   /\ req.skip_ipv6 => addrs[i].family = AF_INET
    <3>1. CASE Found(req)
      <4>1. addrs = AnnounceResponse(torrents[k], req, 0).addrs
        BY <3>1 DEF Addrs
      <4> HIDE DEF addrs
      <4> QED
        BY <1>1, <1>2, <1>3, <3>1, <4>1, ResponseNames
    <3>2. CASE ~ Found(req)
      <4>1. addrs = << >>
        BY <3>2 DEF Addrs
      <4> HIDE DEF addrs
      <4> QED
        BY <4>1
    <3> QED
      BY <3>1, <3>2
  <2> HIDE DEF addrs
  <2>2. \A i \in DOMAIN told : \E j \in DOMAIN addrs : told[i] = addrs[j]
    BY <2>1, HttpTells, UdpTells DEF addrs
  <2> QED
    BY <2>1, <2>2
<1>4. ServedOK(served', options)
  <2>1. /\ served'.page = "announce" /\ served'.req = req /\ served'.asked = q.numwant
        /\ served'.told = told
    BY DEF Tell
  <2> QED
    BY <1>3, <2>1 DEF ServedOK
<1>5. CASE Found(req)
  <2>1. torrents' = [torrents EXCEPT ![k] = u]
    BY <1>5 DEF Tell
  <2>2. k \in DOMAIN torrents /\ TorrentOK(torrents[k], options)
    BY <1>1, <1>5
  <2> HIDE DEF k
  <2>3. Healthy(torrents[k], 0)
    BY <2>2 DEF TorrentOK
  <2>4. Healthy(u, 0)
    BY <1>2, <2>3, AnnounceHealthy
  <2>5. ASSUME NEW x \in DOMAIN u.peers
        PROVE  \/ u.peers[x].addr = req.addr /\ u.peers[x].peerid = req.peerid
               \/ x \in DOMAIN torrents[k].peers /\ u.peers[x] = torrents[k].peers[x]
    BY <1>2, <2>3, AnnounceRegisters
  <2> HIDE DEF u
  <2>6. TorrentOK(u, options)
    BY <2>2, <2>4, <2>5 DEF TorrentOK
  <2>7. torrents = [x \in {torrentKey(h) : h \in Hashes} |-> torrents[x]]
    BY DEF IndInv, TorrentsOK
  <2>8. /\ torrents' = [x \in {torrentKey(h) : h \in Hashes} |-> torrents'[x]]
        /\ DOMAIN torrents' = DOMAIN torrents
        /\ torrents'[k] = u
        /\ \A x \in DOMAIN torrents : x # k => torrents'[x] = torrents[x]
    BY <2>1, <2>2, <2>7
  <2>9. \A j \in DOMAIN torrents' : TorrentOK(torrents'[j], options)
    BY <2>6, <2>8 DEF IndInv, TorrentsOK
  <2> QED
    BY <1>4, <2>8, <2>9 DEF TorrentsOK
<1>6. CASE ~ Found(req)
  <2>1. torrents' = torrents
    BY <1>6 DEF Tell
  <2> QED
    BY <1>4, <2>1 DEF IndInv
<1> QED
  BY <1>5, <1>6

(* AnnounceHandler::handle                                                 *)
LEMMA HttpAnnounceInv ==
  ASSUME IndInv, NEW n \in Connections, NEW q \in Queries, HttpAnnounce(n, q)
  PROVE  IndInv'
<1>1. UNCHANGED options /\ channel[n].open
  BY DEF HttpAnnounce
<1> DEFINE Effect(c, ip) ==
        IF q.info_hash.len = 20
          THEN /\ \E addr \in HttpAddrs(c, q, ip) :
                    LET req == HttpRequest(c, q, addr) IN Tell(req, q, HttpTold(q, Addrs(req)))
               /\ Pass(n, ip, FALSE)
          ELSE /\ served' = [page |-> "announce", status |-> "refused"]
               /\ Pass(n, ip, TRUE)
               /\ UNCHANGED torrents
<1>c. PICK c \in Senders(n) : \E ip \in RealIps(n, c) : Effect(c, ip)
  BY DEF HttpAnnounce
<1>2. PICK ip \in RealIps(n, c) : Effect(c, ip)
  BY <1>c
<1>h. PICK header \in Headers(n, c) : ip = RealIp(channel[n].ip, header)
  BY DEF RealIps
<1>3. CASE q.info_hash.len = 20
  <2>1. PICK addr \in HttpAddrs(c, q, ip) :
          LET req == HttpRequest(c, q, addr) IN Tell(req, q, HttpTold(q, Addrs(req)))
    BY <1>2, <1>3
  <2>2. Pass(n, ip, FALSE)
    BY <1>2, <1>3
  <2> DEFINE req == HttpRequest(c, q, addr)
             from == IF options.ALLOW_PROXY /\ q.ip # Absent THEN q.ip ELSE ip
  <2>3. Tell(req, q, HttpTold(q, Addrs(req)))
    BY <2>1
  <2>4. PICK old \in Garbage : addr = setPort(FromSockaddr(old, from), q.port[c] % 65536)
    BY DEF HttpAddrs
  <2>5. /\ addr.family \in Families
        /\ from[1] \in Kinds => /\ addr.ip = Unmapped(from) /\ addr.family = FamilyOf(addr.ip)
                                /\ addr.port = q.port[c] % 65536
    BY <2>4, GarbageIsAddress, AddressFrom
  <2>6. /\ req.addr = addr /\ req.event = q.event /\ req.peerid = c
        /\ req.num_want = HttpNumWant(q.numwant)
        /\ req.left = 1 /\ req.skip_ipv6 = FALSE
    BY DEF HttpRequest
  <2> HIDE DEF req, from
  <2>7. RequestOK(req, q.numwant)
    <3>1. q.event \in Events /\ IsNumWant(q.numwant)
      BY FrontEndAssumption DEF IsNumWant
    <3>2. req.num_want \in 0..UINT_MAX /\ ClampNumWant(req.num_want) = Want(q.numwant)
      BY <2>6, <3>1, NumWants
    <3>3. req.left \in Nat
      BY ONLY <2>6
    <3>4. req.skip_ipv6 \in BOOLEAN
      BY ONLY <2>6, Zenon
    <3> QED
      BY ONLY <2>5, <2>6, <3>1, <3>2, <3>3, <3>4 DEF RequestOK, IsRequest
  <2>8. Guarded(options) => PlaceOK(req.addr, req.peerid, options)
    <3> SUFFICES ASSUME Guarded(options) PROVE PlaceOK(req.addr, req.peerid, options)
      OBVIOUS
    <3>1. from = ip
      BY DEF Guarded, from
    <3>2. c \in Clients /\ ip[1] \in Kinds /\ Own(Unmapped(ip), c, options)
      BY <1>1, <1>h, RealIpIsOwn DEF Guarded, Own
    <3>3. q.port[c] % 65536 = Port[c]
      BY <3>2, FrontEndAssumption
    <3> QED
      BY <2>5, <2>6, <3>1, <3>2, <3>3 DEF PlaceOK
  <2>9. TorrentsOK(torrents', options) /\ ServedOK(served', options)
    BY <2>3, <2>7, <2>8, TellInv
  <2>10. /\ channel' = [x \in Connections |-> channel'[x]]
         /\ \A x \in Connections : ChannelOK(channel'[x], options)
    BY <1>1, <1>h, <2>2, PassInv
  <2> QED
    BY <1>1, <2>9, <2>10 DEF IndInv
<1>4. CASE q.info_hash.len # 20
  <2>1. /\ served' = [page |-> "announce", status |-> "refused"]
        /\ Pass(n, ip, TRUE)
        /\ UNCHANGED torrents
    BY <1>2, <1>4
  <2>2. ServedOK(served', options)
    BY <2>1 DEF ServedOK
  <2>3. /\ channel' = [x \in Connections |-> channel'[x]]
        /\ \A x \in Connections : ChannelOK(channel'[x], options)
    BY <1>1, <1>h, <2>1, PassInv
  <2> QED
    BY <1>1, <2>1, <2>2, <2>3 DEF IndInv
<1> QED
  BY <1>3, <1>4

(* UdpServer::handleAnnounce                                               *)
LEMMA UdpAnnounceInv ==
  ASSUME IndInv, NEW c \in Clients, NEW q \in Queries, UdpAnnounce(c, q)
  PROVE  IndInv'
<1>1. UNCHANGED <<options, channel>>
  BY DEF UdpAnnounce
<1>2. PICK ip \in Reported(Home[c]) : \E addr \in UdpAddrs(c, q, ip) :
        LET req == UdpRequest(c, q, addr) IN Tell(req, q, UdpTold(Addrs(req)))
  BY DEF UdpAnnounce
<1>3. PICK addr \in UdpAddrs(c, q, ip) :
        LET req == UdpRequest(c, q, addr) IN Tell(req, q, UdpTold(Addrs(req)))
  BY <1>2
<1> DEFINE req == UdpRequest(c, q, addr)
<1>4. Tell(req, q, UdpTold(Addrs(req)))
  BY <1>3
<1>5. Home[c] \in {<<"v4", c>>, <<"v6", c>>}
  BY FrontEndAssumption
<1>6. ip[1] \in Kinds /\ Unmapped(ip) = Home[c]
  BY <1>5, ReportedIp
<1>7. /\ addr.family \in Families
      /\ ~ options.ALLOW_PROXY => /\ addr.ip = Home[c] /\ addr.family = FamilyOf(addr.ip)
                                  /\ addr.port = q.port[c] % 65536
  <2>1. PICK old \in Garbage : addr = setPort(UdpAddr(q, ip, old), q.port[c] % 65536)
    BY DEF UdpAddrs
  <2>2. CASE options.ALLOW_PROXY
    <3> DEFINE v == IF q.ip[1] = "v4" THEN q.ip ELSE Anywhere
               a == [old EXCEPT !.family = AF_INET, !.ip = v]
    <3>1. addr = setPort(a, q.port[c] % 65536)
      BY <2>1, <2>2 DEF UdpAddr
    <3> HIDE DEF v
    <3>2. IsAddress(a)
      BY GarbageIsAddress DEF IsAddress, Families
    <3> HIDE DEF a
    <3>3. addr = a \/ addr = [a EXCEPT !.port = q.port[c] % 65536]
      BY <3>1 DEF setPort
    <3> QED
      BY <2>2, <3>2, <3>3 DEF IsAddress
  <2>3. CASE ~ options.ALLOW_PROXY
    <3>1. addr = setPort(FromSockaddr(old, ip), q.port[c] % 65536)
      BY <2>1, <2>3 DEF UdpAddr
    <3> QED
      BY <1>6, <2>3, <3>1, GarbageIsAddress, AddressFrom
  <2> QED
    BY <2>2, <2>3
<1>8. /\ req.addr = addr /\ req.event = q.event /\ req.peerid = c
      /\ req.num_want = UdpNumWant(q.numwant)
      /\ req.left = 1 /\ req.skip_ipv6 = TRUE
  BY DEF UdpRequest, UdpNumWant
<1> HIDE DEF req
<1>9. RequestOK(req, q.numwant)
  <2>1. q.event \in Events /\ IsNumWant(q.numwant)
    BY FrontEndAssumption DEF IsNumWant
  <2>2. req.num_want \in 0..UINT_MAX /\ ClampNumWant(req.num_want) = Want(q.numwant)
    BY <1>8, <2>1, NumWants
  <2>3. req.left \in Nat
    BY ONLY <1>8
  <2>4. req.skip_ipv6 \in BOOLEAN
    BY ONLY <1>8, Zenon
  <2> QED
    BY ONLY <1>7, <1>8, <2>1, <2>2, <2>3, <2>4 DEF RequestOK, IsRequest
<1>10. Guarded(options) => PlaceOK(req.addr, req.peerid, options)
  <2>1. q.port[c] % 65536 = Port[c]
    BY FrontEndAssumption
  <2> QED
    BY <1>7, <1>8, <2>1 DEF Guarded, Own, PlaceOK
<1>11. TorrentsOK(torrents', options) /\ ServedOK(served', options)
  BY <1>4, <1>8, <1>9, <1>10, TellInv
<1> QED
  BY <1>1, <1>11 DEF IndInv

(* The hash of a tracked torrent, cut to 20 bytes, is in the trie.         *)
LEMMA LinkFinds ==
  ASSUME IndInv, NEW h \in Hashes
  PROVE  PeersStatus(bytes(h)) = "200"
<1>1. h.type \in {"SHA1", "SHA256"}
  BY FrontEndAssumption
<1>2. bytes(h).len \in {20, 32}
  BY <1>1 DEF bytes, hashSize
<1>3. torrentKey(h) \in DOMAIN torrents
  BY DEF IndInv, TorrentsOK
<1> QED
  BY <1>2, <1>3 DEF PeersStatus, isValidHashSize, torrentKey

(* The other pages.                                                        *)
LEMMA HttpPageInv ==
  ASSUME IndInv, NEW n \in Connections, NEW b \in Strings, HttpPage(n, b)
  PROVE  IndInv'
<1>1. UNCHANGED <<options, torrents>> /\ channel[n].open
  BY DEF HttpPage
<1> DEFINE Effect(ip, page) ==
       /\ Pass(n, ip, page # "scrape")
       /\ served' = CASE page = "stat"   -> [page |-> page, status |-> "200"]
                      [] page = "scrape" -> [page |-> page, items |-> ScrapeItems(<<b>>)]
                      [] page = "peers"  -> [page |-> page, hash |-> b, status |-> PeersStatus(b)]
                      [] page = "file"   -> [page |-> page, hash |-> b, status |-> FileStatus(b)]
<1>c. PICK c \in Senders(n) : \E ip \in RealIps(n, c) :
        \E page \in {"stat", "scrape", "peers", "file"} : Effect(ip, page)
  BY DEF HttpPage
<1>2. PICK ip \in RealIps(n, c), page \in {"stat", "scrape", "peers", "file"} :
        Effect(ip, page)
  BY <1>c
<1>h. PICK header \in Headers(n, c) : ip = RealIp(channel[n].ip, header)
  BY DEF RealIps
<1>3. /\ channel' = [x \in Connections |-> channel'[x]]
      /\ \A x \in Connections : ChannelOK(channel'[x], options)
  BY <1>1, <1>2, <1>h, PassInv
<1>4. /\ served'.page = page
      /\ page = "peers" => served'.hash = b /\ served'.status = PeersStatus(b)
  BY <1>2
<1>5. ServedOK(served', options)
  BY <1>4, LinkFinds DEF ServedOK
<1> QED
  BY <1>1, <1>3, <1>5 DEF IndInv

-----------------------------------------------------------------------------
(* Every step of every client keeps the invariant.                         *)
LEMMA NextInv == IndInv /\ [Next]_vars => IndInv'
<1> SUFFICES ASSUME IndInv, [Next]_vars PROVE IndInv'
  OBVIOUS
<1>1. ASSUME NEW n \in Connections, NEW c \in Clients, NEW direct \in BOOLEAN,
             Connect(n, c, direct)
      PROVE  IndInv'
  BY <1>1, ConnectInv
<1>2. ASSUME NEW n \in Connections, NEW q \in Queries, HttpAnnounce(n, q) PROVE IndInv'
  BY <1>2, HttpAnnounceInv
<1>3. ASSUME NEW n \in Connections, NEW b \in Strings, HttpPage(n, b) PROVE IndInv'
  BY <1>3, HttpPageInv
<1>4. ASSUME NEW c \in Clients, NEW q \in Queries, UdpAnnounce(c, q) PROVE IndInv'
  BY <1>4, UdpAnnounceInv
<1>5. CASE UNCHANGED vars
  BY <1>5 DEF vars, IndInv
<1> QED
  BY <1>1, <1>2, <1>3, <1>4, <1>5 DEF Next

(* The invariant holds of every behaviour of clients and proxy.            *)
LEMMA Invariance == Spec => []IndInv
  BY InitInv, NextInv, PTL DEF Spec

(* Whatever clients send, Torrent::announce gets requests of the types     *)
(* that module TorrentTypes assumes.                                       *)
THEOREM TypeCorrect == Spec => []TypeOK
<1>1. IndInv => TypeOK
  <2> SUFFICES ASSUME IndInv PROVE TypeOK
    OBVIOUS
  <2>1. \A n \in Connections : channel[n].open => channel[n].ip[1] \in {"v4", "v6", "mapped"}
    <3> SUFFICES ASSUME NEW n \in Connections, channel[n].open PROVE channel[n].ip[1] \in Kinds
      BY DEF Kinds
    <3>1. channel[n] # Closed
      BY DEF Closed
    <3> QED
      BY <3>1 DEF IndInv, ChannelOK
  <2> QED
    BY <2>1 DEF IndInv, ServedOK, RequestOK, Announced, TypeOK
<1> QED
  BY <1>1, Invariance, PTL

(* The HTTP and the UDP server give a client the same number of peers,     *)
(* whatever int it asks for.                                               *)
THEOREM NumWantAgrees == Spec => []SameNumWant
<1>1. IndInv => SameNumWant
  BY DEF IndInv, ServedOK, RequestOK, Announced, SameNumWant, Want
<1> QED
  BY <1>1, Invariance, PTL

(* The links to /peers find their torrents of either version.              *)
THEOREM LinksWork == Spec => []PeersLinkWorks
<1>1. IndInv => PeersLinkWorks
  BY DEF IndInv, ServedOK, PeersLinkWorks
<1> QED
  BY <1>1, Invariance, PTL

(* If the proxy keeps the requests of different clients on different       *)
(* connections, every peer is registered at its own ip.                    *)
THEOREM OwnIps == ASSUME ~ Reuse PROVE Spec => []PeerHasOwnIp
<1>1. IndInv => PeerHasOwnIp
  BY DEF IndInv, TorrentsOK, TorrentOK, PlaceOK, Guarded, Own, PeerHasOwnIp
<1> QED
  BY <1>1, Invariance, PTL

(* Under the same condition an HTTP client is told, in both forms of the   *)
(* answer, only where other clients can be reached: each address has the   *)
(* ip (or that of a proxy nobody has named), the family and the port of    *)
(* one and the same other client.                                          *)
THEOREM ToldReachable == ASSUME ~ Reuse PROVE Spec => []ToldIsReachable
<1>1. IndInv => ToldIsReachable
  <2> SUFFICES ASSUME IndInv, Announced, Guarded(options), NEW i \in DOMAIN served.told,
                      NEW a, a = served.told[i]
               PROVE  \E c \in Clients \ {served.req.peerid} :
                        /\ a.ip = Home[c] \/ (options.REVERSE_PROXY_FROM = Absent /\ a.ip = Gate)
                        /\ a.family = IF a.ip[1] = "v4" THEN AF_INET ELSE AF_INET6
                        /\ a.port = Port[c]
    BY DEF ToldIsReachable, Guarded
  <2>1. ToldOK(a, served.req.peerid, options)
    BY DEF IndInv, ServedOK, Announced
  <2> QED
    BY <2>1 DEF ToldOK, PlaceOK, Own, FamilyOf
<1> QED
  BY <1>1, Invariance, PTL
=============================================================================
