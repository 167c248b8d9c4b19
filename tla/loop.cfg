\* Two coroutines that wait, sleep, interrupt and place an order, its record and fill, and a restart at any point.
SPECIFICATION Spec
CONSTANTS
  Coros = {c1, c2}
  Orders = {o1}
  Instruments = {i1}
  Vars = {v1}
  Vals = {x1}
  Reports = {"open", "filled"}
  Kinds = {"market", "order", "update", "quit"}
  Awaited = {o1, "event", "idle"}
  Calls = {"order", "sleep", "interrupt", "operation"}
  LateLaunch = TRUE
  MaxPush = 3
  MaxTime = 0
  MaxTimer = 1
  MaxRestart = 1
  None = None
SYMMETRY SymCoros
INVARIANTS TypeOK HeldOnce QuitEndsService NoWaiterOnFinalOrder RecordFollowsState SettledTogether
CHECK_DEADLOCK FALSE
