SPECIFICATION Spec
CONSTANTS
  Clients <- OneClient
  Secrets <- TwoSecrets
  Ids <- MCIds
  Hashes <- OneHash
  Tracked <- MCTracked
  SBUFS_MAX = 2
  MaxDatagrams = 2
  SECOND = 3
  MILLI = 1
  COARSE = 1
  MaxTime = 1
PROPERTY AnnounceIsServed
CHECK_DEADLOCK FALSE
