SPECIFICATION Spec
CONSTANTS
  Workers = {w1}
  Fds = {3}
INVARIANT WorkersFindHefur
