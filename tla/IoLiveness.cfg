SPECIFICATION MCSpec
CONSTANTS
  Kinds = {"read"}
  Stops = {"read"}
  Calls = {"cancel", "assign"}
  Peer = {"send"}
  Timers = {t1}
  Waiters = {w1, w2}
  TimerOf <- SharedTimer
  Stoppable = {w1}
  Expiries = {1, 9}
  MaxTime = 1
  None = None
INVARIANTS
  SocketLedger
  WaitLedger
PROPERTIES
  NeverEarly
  
  ReadEnds
  AskedEnds
