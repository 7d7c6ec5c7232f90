SPECIFICATION FairSpec
CONSTANTS
  p1 = p1
  p2 = p2
  r1 = r1
  r2 = r2
  Process = {p1}
  Runs = {r1, r2}
  Waiters = {r1, r2}
  NoOne = NoOne
  Jobs = {1}
  Steps = 2
  Gated = {2}
  Keys <- GatedKeys
  Concurrency = 2
  MaxRestarts = 1
  Pauses = FALSE
  LateRestart = FALSE
PROPERTIES
  EveryJobEnds
CHECK_DEADLOCK FALSE
