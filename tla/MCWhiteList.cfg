SPECIFICATION FairSpec
CONSTANTS
  Paths = {"a", "b", "c"}
  TorrentPaths = {"a", "b"}
  Contents = {"s", "t", "junk"}
  Broken = {"junk"}
  NoFile = NoFile
  MAX_SCAN_INODES = 2
  MaxChanges = 4
INVARIANTS TypeOK ScanFindsAll CheckIsComplete
PROPERTIES CheckErasesMissing EventuallyWhiteListed EventuallyBacked
