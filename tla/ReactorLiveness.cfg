SPECIFICATION FairSpec
CONSTANTS
  Threads = {t1, t2}
  Posters = {p1}
  Posts = {}
  IoOps = {r}
  Timers = {}
  Modes = {"run"}
  OneThread = FALSE
  Task = Task
  Desc = Desc
  None = None
PROPERTIES
  PostedRuns
  StopReturns
  RunServesIo
