SPECIFICATION FairSpec
CONSTANTS
  Workers = {w1}
  Fds = {3}
INVARIANTS JoinedFindHefur DbOutlivesUsers ThreadsEndFirst
PROPERTY QuitEnds
