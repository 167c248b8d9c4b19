\* Two events in the queue at once.
SPECIFICATION Spec
CONSTANTS
  Coros = {c1}
  Orders = {o1}
  Instruments = {i1}
  Vars = {}
  Vals = {}
  Reports = {"open", "filled"}
  Kinds = {"market", "message"}
  Awaited = {i1}
  Calls = {}
  LateLaunch = FALSE
  MaxPush = 3
  MaxTime = 2
  MaxTimer = 0
  MaxRestart = 0
  None = None
PROPERTIES PopTakesHead
CHECK_DEADLOCK FALSE
