SPECIFICATION DemuxSpec
CONSTANTS
  Socks = {s1, s2}
  MaxFd = 2
  MaxMoves = 3
INVARIANTS
  LockHeldAfterPoll
CHECK_DEADLOCK FALSE
