CONSTANTS
    UringWorkers = {w1, w2}
    UringKinds = {"tcp", "local", "udp", "local_dgram", "file", "raf"}
    SqEntries = 2
    MaxUringCalls <- MCCalls
    MaxUringStarts <- MCStarts
    MaxRefusals = 1
    MaxReadFailures = 1
    Runners = {r1, r2}
    RunModes = {"run", "poll", "wait_one"}
    MaxMade = 3
    MaxConns = 2
    MaxAccepts = 3
    MaxErrors = 1
    MaxOpens = 1
SPECIFICATION MCSpec
SYMMETRY Symmetry
INVARIANTS
  
  UringReaches
  UringLoop
  
CHECK_DEADLOCK FALSE
