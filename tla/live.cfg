\* What is queued is handled, under fair scheduling of the loop and its coroutines.
SPECIFICATION FairSpec
CONSTANTS
  Coros = {c1, c2}
  Orders = {}
  Instruments = {i1}
  Vars = {v1}
  Vals = {x1}
  Reports = {}
  Kinds = {"message", "quit"}
  Awaited = {i1}
  Calls = {"interrupt", "operation", "throw", "var"}
  LateLaunch = FALSE
  MaxPush = 3
  MaxTime = 1
  MaxTimer = 2
  MaxRestart = 0
  None = None
INVARIANTS NoLostWakeup
PROPERTIES QueuedCoroRuns QueueDrains
CHECK_DEADLOCK FALSE
