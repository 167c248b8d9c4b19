\* Three targets and two threads of the exchange that subscribe, broadcast and clear.
SPECIFICATION Spec
CONSTANTS
  Instruments = {i1}
  Targets = {t1, t2, t3}
  Flags <- MCFlags
  Threads = {th1, th2}
SYMMETRY Symmetric
INVARIANTS TypeOK UniqueTargets FeedCoversSubscriptions SubscriptionsInForce BroadcastTellsSubscribers
