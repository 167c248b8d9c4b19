\* The only subscriber of an instrument asks for no events.
SPECIFICATION Spec
CONSTANTS
  Instruments = {i1}
  Targets = {t1}
  Flags <- MCFlags
  Threads = {th1}
INVARIANTS Unsubscribes
