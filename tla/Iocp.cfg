CONSTANTS
    Workers = {w1, w2}
    Kinds = {"tcp", "tcp_acceptor", "local", "local_acceptor", "udp", "file", "raf"}
    MaxCalls = 2
    MaxStarts = 1
    Runners = {r1, r2}
    Handlers = {h1}
    MaxFails = 2
    MaxStops = 1
    MaxRestarts = 1
    Horizon = 1
SPECIFICATION MCSpec
SYMMETRY Symmetry
INVARIANTS
  IocpLedger
  
  
