SPECIFICATION Spec
CONSTANTS
  Threads = {h1, h2}
  Posters = {p1}
  Posts = {a}
  IoOps = {}
  Timers = {w}
  Modes = {"run", "wait_one", "poll"}
  OneThread = FALSE
  Task = Task
  Desc = Desc
  None = None
INVARIANTS
  SentinelOnce
  LockDiscipline
  WaiterCount
  QueueLedger
