SPECIFICATION FairSpec
CONSTANTS
  Clients <- TwoClients
  Secrets <- TwoSecrets
  Ids <- MCIds
  Hashes <- OneHash
  Tracked <- MCTracked
  SBUFS_MAX = 2
  MaxDatagrams = 3
  SECOND = 3
  MILLI = 2
  COARSE = 1
  MaxTime = 3
INVARIANTS
  TypeOK
  BoundedReplies
  IdLastsTwoSeconds
  
CHECK_DEADLOCK FALSE
PROPERTY QueuesDrain
