SPECIFICATION MCSpec
CONSTANTS
  MaxDgrams = 2
  MaxOps = 2
  MaxDCalls = 1
  Socks = {s1, s2}
  MaxFd = 2
  MaxMoves = 3
  MaxDescCalls = 5
  DescKinds <- EveryKind
INVARIANTS
  
  
  DescriptorOwned
CHECK_DEADLOCK FALSE
