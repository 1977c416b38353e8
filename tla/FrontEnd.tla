------------------------------ MODULE FrontEnd ------------------------------
(***************************************************************************)
(* The requests of HTTP and UDP clients on their way to the database: the  *)
(* reverse proxy's header (hefur/log-handler.cc), the announce, scrape,    *)
(* peers and file handlers behind it, the announce part of the UDP server, *)
(* and what the answers tell about other peers.                            *)
(*                                                                         *)
(* An ip is a pair of a kind and a host: "v4", "v6", "mapped" (IPv4 in     *)
(* IPv6, as a socket that is bound to IPv6 reports it), or "name" for a    *)
(* text that is not an address.  A host is a client, or the reverse proxy. *)
(* The database is reduced to the torrents, which stand still in time; the *)
(* port of a connection is only logged and is left out.                    *)
(***************************************************************************)
EXTENDS TorrentOps, InfoHash

CONSTANTS
  Home,         \* the ip each client has
  Port,         \* the port each client takes connections of peers at
  Gate,         \* the ip of the reverse proxy
  Connections,  \* HTTP connections
  Options,      \* command lines: [ALLOW_PROXY, REVERSE_PROXY_FROM]
  Hashes,       \* the hashes of the torrents that are tracked
  Queries,      \* announces: [info_hash, port, numwant, event, ip, compact],
                \* the port being the number that each client sends for its own
  Garbage,      \* what a new Address may hold: its family is AF_UNSPEC
  Strings,      \* byte strings sent as info_hash to the other pages
  Reuse         \* the proxy sends requests of different clients over one connection

Clients  == DOMAIN Home
Absent   == <<"absent", "">>    \* a parameter, header or option that is not there
Anywhere == <<"v4", "0.0.0.0">> \* the address that stands for every proxy

(* Events are parsed into an enum and numbers into an int; what a client   *)
(* sends as its port is that in 16 bits.                                   *)
ASSUME FrontEndAssumption ==
  /\ \A c \in Clients : Home[c] \in {<<"v4", c>>, <<"v6", c>>}
  /\ \A h \in Hashes : h.type \in {"SHA1", "SHA256"}
  /\ \A q \in Queries :
       /\ q.event \in Events
       /\ \A c \in Clients : q.port[c] % 65536 = Port[c]
       /\ q.numwant = Absent \/ \E n \in -(INT_MAX + 1) .. INT_MAX : q.numwant = <<n>>
  /\ \A a \in Garbage : a \in [family : {AF_UNSPEC}, ip : {a.ip}, port : {a.port}]
  /\ Reuse \in BOOLEAN

(* The proxy has an address of its own, and --reverse-proxy-from names     *)
(* that or every address if it is given.                                   *)
ASSUME ProxyAssumption ==
  /\ Gate \in {<<"v4", Gate[2]>>, <<"v6", Gate[2]>>}
  /\ \A c \in Clients : Home[c] # Gate
  /\ \A o \in Options : o.REVERSE_PROXY_FROM \in {Absent, Gate, Anywhere}

VARIABLES
  options,   \* the command line of this run of the tracker
  torrents,  \* the trie TorrentDb::torrents_
  channel,   \* of each connection: who opened it, and the remote address
  served     \* the request that was served last, and its answer

vars == <<options, torrents, channel, served>>

Closed == [open |-> FALSE]

Unset == [family |-> AF_UNSPEC, ip |-> Absent, port |-> 0]

-----------------------------------------------------------------------------
(* LogHandler::handle                                                      *)

(* Slip: the header is taken from everybody.                               *)
FromProxy_Anyone(ip) == options.REVERSE_PROXY_FROM # Absent

(* --reverse-proxy-from names every address, or the one of the channel.    *)
FromProxy(ip) ==
  options.REVERSE_PROXY_FROM \in {Anywhere, FromSockaddr(Unset, ip).ip}

(* The remote address of a channel after the header has been looked at.    *)
RealIp(ip, header) ==
  IF FromProxy(ip) /\ header # Absent /\ header[1] \in {"v4", "v6", "mapped"}
    THEN IF header[1] = "mapped" THEN <<"v4", header[2]>> ELSE header
    ELSE ip

-----------------------------------------------------------------------------
(* AnnounceHandler::handle                                                 *)

(* The conversion of an int to uint32_t.                                   *)
ToUint(n) == IF n < 0 THEN n + UINT_MAX + 1 ELSE n

(* Slips: the number stays signed; the minimum is taken of unsigned ones.  *)
HttpNumWant_Signed(numwant) ==
  IF numwant = Absent THEN MIN_NUMWANT
  ELSE IF numwant[1] < MAX_NUMWANT THEN numwant[1] ELSE MAX_NUMWANT

HttpNumWant_Unsigned(numwant) ==
  IF numwant = Absent THEN MIN_NUMWANT
  ELSE IF ToUint(numwant[1]) < MAX_NUMWANT THEN ToUint(numwant[1]) ELSE MAX_NUMWANT

HttpNumWant(numwant) ==
  IF numwant = Absent THEN MIN_NUMWANT
  ELSE ToUint(IF numwant[1] < MAX_NUMWANT THEN numwant[1] ELSE MAX_NUMWANT)

(* The address of the peer: of the channel or, if peers may name theirs,   *)
(* the ip parameter, which is nothing when it is no address.               *)
HttpAddrs(c, q, ip) ==
  {setPort(FromSockaddr(old, IF options.ALLOW_PROXY /\ q.ip # Absent THEN q.ip ELSE ip),
           q.port[c] % 65536) : old \in Garbage}

HttpRequest(c, q, addr) ==
  [info_hash |-> [type |-> "SHA1", id |-> q.info_hash.id],
   peerid    |-> c,
   num_want  |-> HttpNumWant(q.numwant),
   event     |-> q.event,
   left      |-> 1,
   skip_ipv6 |-> FALSE,
   addr      |-> addr]

(* UdpServer::handleAnnounce.  The type of the hash stays NONE.  A datagram*)
(* always has a number and an IPv4 address, -1 and zero for none.          *)
UdpAddr(q, ip, old) ==
  IF options.ALLOW_PROXY
    THEN [old EXCEPT !.family = AF_INET, !.ip = IF q.ip[1] = "v4" THEN q.ip ELSE Anywhere]
    ELSE FromSockaddr(old, ip)

UdpAddrs(c, q, ip) == {setPort(UdpAddr(q, ip, old), q.port[c] % 65536) : old \in Garbage}

UdpRequest(c, q, addr) ==
  [info_hash |-> [type |-> "NONE", id |-> q.info_hash.id],
   peerid    |-> c,
   num_want  |-> ToUint(IF q.numwant = Absent THEN -1 ELSE q.numwant[1]),
   event     |-> q.event,
   left      |-> 1,
   skip_ipv6 |-> TRUE,
   addr      |-> addr]

(* The addresses a client finds in an answer: a list of texts, two strings *)
(* of 6 and 18 bytes per peer, or 6 bytes each of a datagram.              *)
OfFamily(addrs, f) == Filter(addrs, LAMBDA a : a.family = f)

HttpTold(q, addrs) ==
  IF q.compact THEN OfFamily(addrs, AF_INET) \o OfFamily(addrs, AF_INET6) ELSE addrs

UdpTold(addrs) == [i \in DOMAIN addrs |->
                     IF addrs[i].family = AF_INET THEN addrs[i]
                     ELSE [family |-> AF_INET, ip |-> Anywhere, port |-> 0]]

(* TorrentDb::announce: a failure if the trie does not have the bytes of   *)
(* the hash.                                                               *)
Found(req) == bytes(req.info_hash) \in DOMAIN torrents

Addrs(req) == IF Found(req) THEN AnnounceResponse(torrents[bytes(req.info_hash)], req, 0).addrs
                            ELSE << >>

Tell(req, q, told) ==
  /\ served' = [page   |-> "announce", req |-> req, asked |-> q.numwant,
                status |-> IF Found(req) THEN "ok" ELSE "failure", told |-> told]
  /\ torrents' = IF Found(req) THEN [torrents EXCEPT ![bytes(req.info_hash)] = Announce(@, req, 0)]
                              ELSE torrents

-----------------------------------------------------------------------------
Nothing == [page |-> "none"]

Init ==
  /\ options \in Options
  /\ torrents = [k \in {torrentKey(h) : h \in Hashes} |-> NewTorrent]
  /\ channel = [n \in Connections |-> Closed]
  /\ served = Nothing

(* A client connects, or the proxy does so for a client.  A socket that is *)
(* bound to IPv6 reports IPv4 addresses in mapped form.                    *)
Reported(ip) == {ip} \cup (IF ip[1] = "v4" THEN {<<"mapped", ip[2]>>} ELSE {})

Connect(n, c, direct) ==
  /\ channel[n] = Closed
  /\ \E ip \in Reported(IF direct THEN Home[c] ELSE Gate) :
       channel' = [channel EXCEPT ![n] = [open |-> TRUE, client |-> c, direct |-> direct, ip |-> ip]]
  /\ UNCHANGED <<options, torrents, served>>

(* The clients whose requests may come over a connection, and the headers  *)
(* they come with.  The proxy writes the client's address; others send     *)
(* what they like.                                                         *)
Senders(n) == IF channel[n].direct \/ ~ Reuse THEN {channel[n].client} ELSE Clients

Headers(n, c) == IF channel[n].direct THEN {Absent, <<"name", "">>} \cup {Home[d] : d \in Clients}
                                      ELSE Reported(Home[c])

(* What LogHandler::handle may find to be the address of a request of c.   *)
RealIps(n, c) == {RealIp(channel[n].ip, header) : header \in Headers(n, c)}

(* A request passes LogHandler::handle, which stores the real address in   *)
(* the channel; the handler may end the connection.                        *)
Pass(n, ip, keep) ==
  channel' = [channel EXCEPT ![n] = IF keep THEN [channel[n] EXCEPT !.ip = ip] ELSE Closed]

(* Some sender, and its address after LogHandler::handle.                  *)
(* AnnounceHandler::handle does not keep the connection, except where it   *)
(* returns early because of the size of the hash.                          *)
HttpAnnounce(n, q) ==
  /\ channel[n].open
  /\ \E c \in Senders(n) : \E ip \in RealIps(n, c) :
       IF q.info_hash.len = 20
         THEN /\ \E addr \in HttpAddrs(c, q, ip) :
                   LET req == HttpRequest(c, q, addr) IN Tell(req, q, HttpTold(q, Addrs(req)))
              /\ Pass(n, ip, FALSE)
         ELSE /\ served' = [page |-> "announce", status |-> "refused"]
              /\ Pass(n, ip, TRUE)
              /\ UNCHANGED torrents
  /\ UNCHANGED options

UdpAnnounce(c, q) ==
  /\ q.info_hash.len = 20
  /\ \E addr \in UNION {UdpAddrs(c, q, ip) : ip \in Reported(Home[c])} :
       LET req == UdpRequest(c, q, addr) IN Tell(req, q, UdpTold(Addrs(req)))
  /\ UNCHANGED <<options, channel>>

(* ScrapeHandler::handle: hashes of a wrong size are left out.             *)
ScrapeItems(hashes) ==
  LET rq == Filter(hashes, LAMBDA b : b.len = 20 /\ b \in DOMAIN torrents)
  IN  [i \in DOMAIN rq |-> [key |-> rq[i], complete |-> torrents[rq[i]].seeders,
                            incomplete |-> torrents[rq[i]].leechers]]

(* Slip: a SHA-256 hash is looked up as it is.                             *)
PeersStatus_Whole(b) ==
  IF ~ isValidHashSize(b.len) THEN "404"
  ELSE IF b \in DOMAIN torrents THEN "200" ELSE "404"

(* PeersHandler::handle: a hash of either size, cut to 20 bytes.           *)
PeersStatus(b) ==
  IF ~ isValidHashSize(b.len) THEN "404"
  ELSE IF Substr(b, 20) \in DOMAIN torrents THEN "200" ELSE "404"

(* FileHandler::handle: its test refuses the sizes that are valid.         *)
FileStatus(b) ==
  IF isValidHashSize(b.len) THEN "400"
  ELSE IF b \in DOMAIN torrents THEN "200" ELSE "404"

(* A page other than the announce.  Only the scrape ends the connection.   *)
HttpPage(n, b) ==
  /\ channel[n].open
  /\ \E c \in Senders(n) : \E ip \in RealIps(n, c) : \E page \in {"stat", "scrape", "peers", "file"} :
       /\ Pass(n, ip, page # "scrape")
       /\ served' = CASE page = "stat"   -> [page |-> page, status |-> "200"]
                      [] page = "scrape" -> [page |-> page, items |-> ScrapeItems(<<b>>)]
                      [] page = "peers"  -> [page |-> page, hash |-> b, status |-> PeersStatus(b)]
                      [] page = "file"   -> [page |-> page, hash |-> b, status |-> FileStatus(b)]
  /\ UNCHANGED <<options, torrents>>

Next ==
  \/ \E n \in Connections, c \in Clients, direct \in BOOLEAN : Connect(n, c, direct)
  \/ \E n \in Connections, q \in Queries : HttpAnnounce(n, q)
  \/ \E n \in Connections, b \in Strings : HttpPage(n, b)
  \/ \E c \in Clients, q \in Queries : UdpAnnounce(c, q)

Spec == Init /\ [][Next]_vars

-----------------------------------------------------------------------------
Announced == served.page = "announce" /\ served.status # "refused"

(* Whatever a client sends, the handlers give Torrent::announce a request  *)
(* of the types that module TorrentTypes assumes of Requests.              *)
TypeOK ==
  /\ \A n \in Connections : channel[n].open => channel[n].ip[1] \in {"v4", "v6", "mapped"}
  /\ Announced => IsRequest(served.req)

(* Unless peers may name their address, a peer is registered at its own    *)
(* ip: over a direct connection whatever headers it sends, and over the    *)
(* reverse proxy that the options name; an unknown proxy is registered     *)
(* itself.  A client that comes over an IPv6 socket is the same peer.      *)
PeerHasOwnIp ==
  ~ options.ALLOW_PROXY /\ options.REVERSE_PROXY_FROM # Anywhere =>
    \A k \in DOMAIN torrents : \A x \in DOMAIN torrents[k].peers :
      LET p == torrents[k].peers[x] IN
      \/ p.addr.ip = Home[p.peerid]
      \/ options.REVERSE_PROXY_FROM = Absent /\ p.addr.ip = Gate

(* With the same options, an HTTP client is only told where other clients  *)
(* can be reached: the ip of one of them (or of an unknown proxy) with the *)
(* right family and that same client's port, whether the answer is compact *)
(* or not.  The answer of a UDP announce names nobody, see AnnounceIsServed*)
(* of module UdpServer.                                                    *)
ToldIsReachable ==
  Announced /\ ~ options.ALLOW_PROXY /\ options.REVERSE_PROXY_FROM # Anywhere =>
    \A i \in DOMAIN served.told : \E c \in Clients \ {served.req.peerid} :
      LET a == served.told[i] IN
      /\ a.ip = Home[c] \/ (options.REVERSE_PROXY_FROM = Absent /\ a.ip = Gate)
      /\ a.family = IF a.ip[1] = "v4" THEN AF_INET ELSE AF_INET6
      /\ a.port = Port[c]

(* HTTP and UDP clients that want the same number of peers get the same:   *)
(* what they ask for within the limits, and the minimum for no number or a *)
(* negative one, through two conversions between int and uint32_t.         *)
SameNumWant ==
  Announced =>
    LET n == IF served.asked = Absent THEN MIN_NUMWANT ELSE served.asked[1]
    IN  ClampNumWant(served.req.num_want)
          = IF n < MIN_NUMWANT THEN MIN_NUMWANT ELSE IF n > MAX_NUMWANT THEN MAX_NUMWANT ELSE n

(* The links to /peers that the page of torrents prints, with the whole    *)
(* hash of a torrent of either version, find their torrent.                *)
PeersLinkWorks ==
  served.page = "peers" /\ (\E h \in Hashes : served.hash = bytes(h)) => served.status = "200"
=============================================================================
