SPECIFICATION MCSpec
CONSTANTS
  Timers = {t1, t2, t3, t4, t5, t6}
  Times = {1, 2, 3, 4}
  None = None
  Depth = 2
  Horizon = 5
  Slice = 2
  MaxEndpoints = 3
  MaxHandlers = 2
  Words = {0, 4096}
  Octets = {0, 255}
  PortNumbers = {0, 65535}
  Insertable = {0, 6, 10, 16, 17, 19}
  MaxEdits = 1
  MaxPathLen = 3
  SunPath = 4
  Workers = {v1, v2, v3}
  Ports = {p1, p2}
  Nil = Nil
  MaxSessions = 2
  MaxAccepts = 3
  Lanes = 2
  Fan = 3
  Subs = 1
  Capacity = 2
  MaxBreaks = 1
  Threads = 3
  Batch = 2
  MaxPosted = 3
VIEW MCView
INVARIANTS
  HeapSound
  TimeoutRight
  HelpersKeepFaith
  EndpointText
  ServerSound
  
  PostLoopsSound
PROPERTIES
  ImplementsQueue
CHECK_DEADLOCK FALSE
