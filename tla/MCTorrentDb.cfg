SPECIFICATION FairSpec
CONSTANTS
  MAX_PEERS = 2
  MIN_NUMWANT = 1
  MAX_NUMWANT = 1
  ANNOUNCE_INTERVAL = 1
  GRACE = 0
  INT_MAX = 1
  Requests <- DbRequests
  Files <- MCFiles
  Scrapes <- MCScrapes
  Readers = {r1}
  Operations = {"scrape", "stat", "peers"}
  MaxTime = 1
INVARIANTS TypeOK SwarmsAgree ScrapeListsTracked ScrapeIsRecent TotalsBelowRows StatTotalsBounded
PROPERTIES TorrentsImplementSwarm SilentPeersLeave
