SPECIFICATION FairSpec
CONSTANTS
  Paths = {"a"}
  TorrentPaths = {"a"}
  Contents = {"s"}
  Broken = {}
  NoFile = NoFile
  MAX_SCAN_INODES = 1
  MaxChanges = 2
PROPERTY RemovedFileIsDropped
