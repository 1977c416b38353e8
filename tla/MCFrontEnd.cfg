SPECIFICATION Spec
CONSTANTS
  MAX_PEERS = 2
  MIN_NUMWANT = 1
  MAX_NUMWANT = 2
  ANNOUNCE_INTERVAL = 1
  GRACE = 0
  INT_MAX = 3
  Home <- MCHome
  Port <- MCPort
  Gate <- MCGate
  Connections = {n1}
  Options <- MCOptions
  Hashes <- MCHashes
  Queries <- MCQueries
  Garbage <- MCGarbage
  Strings <- MCStrings
  Reuse = FALSE
INVARIANTS TypeOK PeerHasOwnIp ToldIsReachable SameNumWant PeersLinkWorks
