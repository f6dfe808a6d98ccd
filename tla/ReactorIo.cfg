SPECIFICATION MCSpec
CONSTANTS
  Kinds = {"connect", "write"}
  Stops = {}
  Calls = {"open", "destroy"}
  Peer = {"drain", "reset"}
  t1 = t1
  t2 = t2
  w1 = w1
  w2 = w2
  Timers = {t1, t2}
  Waiters = {w1, w2}
  TimerOf <- OwnTimers
  Stoppable = {}
  Expiries = {1, 2}
  MaxTime = 1
  None = None
  MaxConns = 2
  MaxAwaits = 2
  MaxCalls = 1
INVARIANTS
  SocketLedger
  AcceptLedger
  TimersArmed
