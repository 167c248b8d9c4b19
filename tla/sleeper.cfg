\* A sleeper and no event.
SPECIFICATION FairSpec
CONSTANTS
  Coros = {c1}
  Orders = {o1}
  Instruments = {i1}
  Vars = {}
  Vals = {}
  Reports = {"open", "filled"}
  Kinds = {}
  Awaited = {i1}
  Calls = {"sleep"}
  LateLaunch = FALSE
  MaxPush = 3
  MaxTime = 2
  MaxTimer = 0
  MaxRestart = 0
  None = None
PROPERTIES SleeperWakes
CHECK_DEADLOCK FALSE
