SPECIFICATION FairSpec
CONSTANTS
  MAX_PEERS = 2
  MIN_NUMWANT = 0
  MAX_NUMWANT = 1
  ANNOUNCE_INTERVAL = 1
  GRACE = 1
  INT_MAX = 2
  Requests <- StateRequests
  Questions <- ReplyRequests
  MaxTime = 4
INVARIANTS TypeOK ListIndexAgree CountersAgree SortedByTimeout BoundedPeers ReplyIsMostRecent
PROPERTIES SweepIsComplete ImplementsSwarm ExpiredIsReaped
