SPECIFICATION Spec
CONSTANTS
  MAX_PEERS = 2
  MIN_NUMWANT = 1
  MAX_NUMWANT = 1
  ANNOUNCE_INTERVAL = 1
  GRACE = 0
  INT_MAX = 1
  Requests <- PeersRequests
  Files <- MCFiles
  Scrapes <- MCScrapes
  Readers = {r1}
  Operations = {"peers"}
  MaxTime = 1
INVARIANT PeersPageReadsLivePeers
