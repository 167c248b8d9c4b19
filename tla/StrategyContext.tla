-------------------------- MODULE StrategyContext --------------------------
(***************************************************************************)
(* StrategyContextImpl (src/src/impl/context.cpp): the event loop of one   *)
(* strategy.  Exchanges, the message queue and finished asynchronous calls *)
(* push events into a queue; main_loop pops them, stores orders and fills, *)
(* and resumes the strategy's coroutines, which wait on distributors or on *)
(* timers and call the context back while they run.                        *)
(*                                                                         *)
(* Everything runs on the loop's thread, one coroutine at a time.  Other   *)
(* code gets control while the loop is suspended in sleep_until_alertable  *)
(* or when a running coroutine calls it.                                   *)
(***************************************************************************)
EXTENDS Integers, Sequences, FiniteSets

CONSTANTS
  Coros,        \* coroutines of the strategy
  Orders,       \* order objects; the order's closing fill has its name
  Instruments,
  Vars, Vals,   \* names and values of the strategy's stored variables
  Reports,      \* the order states an exchange reports in an OrderUpdate
  Kinds,        \* the event kinds other code pushes
  Awaited,      \* the distributors the coroutines wait on
  Calls,        \* the other members of StrategyContext they use
  LateLaunch,   \* may a coroutine be started, outside any event, while the loop sleeps
  MaxPush,      \* bound: events ever appended to the queue
  MaxTime,      \* bound: the clock
  MaxTimer,     \* bound: interruptible sleeps
  MaxRestart,   \* bound: restarts of the process
  None

General == {"event", "idle", "exception", "messages", "orders", "markets"}

Dists == General \cup Orders \cup Instruments

OrderState ==
  {"unknown", "associated", "pending_new", "open", "filled", "cancelled", "rejected",
   "expired", "pending_cancel", "pending_replace", "replaced", "failed", "restored"}

ASSUME NamesDiffer ==
  /\ General \cap (Orders \cup Instruments) = {}
  /\ Orders \cap Instruments = {}
  /\ None \notin Coros \cup Orders \cup Instruments \cup Vals \cup OrderState \cup {"whole", "set", "erase"}

ASSUME ConstantTypes ==
  /\ Reports \subseteq OrderState
  /\ LateLaunch \in BOOLEAN
  /\ MaxPush \in Nat /\ MaxTime \in Nat /\ MaxTimer \in Nat /\ MaxRestart \in Nat

(* An event; arg = None is what a move leaves behind (an empty handle).    *)
Events ==
  [kind: {"coro"}, arg: Coros \cup {None}, state: {None}]
    \cup [kind: {"market"}, arg: Instruments \cup {None}, state: {None}]
    \cup [kind: {"order"}, arg: Orders \cup {None}, state: {None}]
    \cup [kind: {"update"}, arg: Orders \cup {None}, state: OrderState]
    \cup [kind: {"message", "exception", "quit"}, arg: {"whole", None}, state: {None}]

Event(kind, arg) == [kind |-> kind, arg |-> arg, state |-> None]

Timers == [coro: Coros, at: 0..MaxTime, id: 0..MaxTimer]

VARIABLES
  pc,          \* where main_loop is
  ev,          \* Event ev, the event being processed
  todo,        \* the distributors still to be broadcast for it
  quit,        \* _quit_flag
  eventTime,   \* _event_time
  queue,       \* _queue
  alert,       \* _alert
  pushes,      \* events ever appended
  life,        \* is a coroutine fresh, live or done
  cur,         \* the coroutine that runs now
  resuming,    \* coroutines a broadcast or a call has prepared to resume
  ops,         \* coroutines waiting for an asynchronous call of other code
  waiters,     \* the awaiters of every distributor
  timers,      \* _internal_scheduler
  nextTimer,   \* _next_timer_id
  ostate,      \* the state of the strategy's order objects, None: no such object
  exchange,    \* what became of each order at the exchange
  batches,     \* _batch_place and _batch_cancel
  db,          \* what the database holds
  batch,       \* _batch: what has been written and not committed
  mxLocks,     \* does locking _mx block (a thread runtime) or do nothing
  held,        \* _mx: the calls that have locked it and not yet unlocked it
  now,         \* the scheduler's clock
  restarts

loopVars  == <<pc, ev, todo, quit, eventTime>>
queueVars == <<queue, alert, pushes>>
coroVars  == <<life, cur, resuming, ops, waiters, timers, nextTimer>>
orderVars == <<ostate, exchange, batches>>
storeVars == <<db, batch>>
envVars   == <<mxLocks, held, now, restarts>>
otherVars == <<orderVars, storeVars, envVars>>
vars      == <<loopVars, queueVars, coroVars, otherVars>>

(* A step of the loop that only moves on, and may lock or unlock _mx.      *)
GoHolding(p, locks) ==
  /\ pc' = p
  /\ held' = locks
  /\ UNCHANGED <<ev, todo, quit, eventTime, queueVars, coroVars, orderVars, storeVars, mxLocks,
                 now, restarts>>

GoTo(p) == GoHolding(p, held)

EmptyBatch == [orders |-> [o \in Orders |-> None], fills |-> {}, vars |-> [v \in Vars |-> None]]

Delivering == {"event out", "timer out", "idle out"}

TypeOK ==
  /\ pc \in {"start", "top", "drain", "popping", "process", "timers", "rest", "asleep",
             "quit", "hung", "crashed"} \cup Delivering
  /\ ev \in Events
  /\ todo \in Seq(Dists)
  /\ quit \in BOOLEAN
  /\ eventTime \in 0..MaxTime
  /\ queue \in Seq(Events)
  /\ alert \in BOOLEAN
  /\ pushes \in 0..MaxPush
  /\ life \in [Coros -> {"fresh", "live", "done"}]
  /\ cur \in Coros \cup {None}
  /\ resuming \subseteq Coros
  /\ ops \subseteq Coros
  /\ waiters \in [Dists -> SUBSET Coros]
  /\ timers \subseteq Timers
  /\ nextTimer \in 1..MaxTimer + 1
  /\ ostate \in [Orders -> OrderState \cup {None}]
  /\ exchange \in [Orders -> {"none", "open", "closed"}]
  /\ batches \in [place: SUBSET Orders, cancel: SUBSET Orders]
  /\ db \in [orders: SUBSET Orders, fills: SUBSET Orders, vars: [Vars -> Vals \cup {None}]]
  /\ batch \in [orders: [Orders -> {"set", "erase", None}], fills: SUBSET Orders,
                vars: [Vars -> Vals \cup {None}]]
  /\ mxLocks \in BOOLEAN
  /\ held \subseteq {"main_loop", "pop_event"}
  /\ now \in 0..MaxTime
  /\ restarts \in 0..MaxRestart

Init ==
  /\ pc = "start" /\ ev = Event("quit", None) /\ todo = <<>> /\ quit = FALSE /\ eventTime = 0
  /\ queue = <<>> /\ alert = FALSE /\ pushes = 0
  /\ life = [c \in Coros |-> "fresh"] /\ cur = None /\ resuming = {} /\ ops = {}
  /\ waiters = [d \in Dists |-> {}] /\ timers = {} /\ nextTimer = 1
  /\ ostate = [o \in Orders |-> None] /\ exchange = [o \in Orders |-> "none"]
  /\ batches = [place |-> {}, cancel |-> {}]
  /\ db = [orders |-> {}, fills |-> {}, vars |-> [v \in Vars |-> None]]
  /\ batch = EmptyBatch
  /\ mxLocks \in BOOLEAN /\ held = {}
  /\ now = 0 /\ restarts = 0

-----------------------------------------------------------------------------
(* Orders and what is stored of them *)

IsFinal(s) == s \notin {"pending_new", "open", "pending_cancel", "pending_replace"}

(* A faulty variant: the record of a done order is kept.                   *)
StoreOrderKeeps(b, o, s, fills) ==
  [b EXCEPT !.orders[o] = "set", !.fills = @ \cup fills]

(* process_event(Order): the fills are stored, the record is stored or, if *)
(* the order is done, erased.                                              *)
StoreOrder(b, o, s, fills) ==
  [b EXCEPT !.orders[o] = IF IsFinal(s) THEN "erase" ELSE "set", !.fills = @ \cup fills]

(* The database once a batch is committed; later writes of a key win.      *)
Committed(d, b) ==
  [orders |-> {o \in Orders : b.orders[o] = "set" \/ (b.orders[o] = None /\ o \in d.orders)},
   fills |-> d.fills \cup b.fills,
   vars |-> [v \in Vars |-> IF b.vars[v] = None THEN d.vars[v] ELSE b.vars[v]]]

-----------------------------------------------------------------------------
(* The queue *)

(* A lock_guard or unique_lock of _mx gets it: nobody has it locked, which *)
(* can only be the one thread itself, or locking does nothing.             *)
CanLock == mxLocks => held = {}

(* A faulty variant: the queue is looked at after the push.                *)
PushEventAlertsLate(e) ==
  /\ queue' = Append(queue, e)
  /\ alert' = (alert \/ queue' = <<>>)
  /\ pushes' = pushes + 1

(* push_event: the first event of an empty queue alerts the sleeping loop. *)
PushEvent(e) ==
  /\ queue' = Append(queue, e)
  /\ alert' = (alert \/ queue = <<>>)
  /\ pushes' = pushes + 1

(* Code outside the strategy runs while the loop has not started, while it *)
(* sleeps, or when a coroutine calls it.                                   *)
OthersRun == pc \in {"start", "asleep"} \/ cur # None

(* push_event locks _mx for the time of the push.                          *)
MayPush == pushes < MaxPush /\ OthersRun /\ CanLock

(* push_event waits for the lock its own thread has.                       *)
PushEventHangs ==
  pc # "crashed" /\ pushes < MaxPush /\ OthersRun /\ ~CanLock /\ GoTo("hung")

Push(kind) ==
  /\ MayPush /\ kind \in Kinds
  /\ \/ kind = "market" /\ \E i \in Instruments : PushEvent(Event("market", i))
     \/ kind = "order" /\ \E o \in Orders : ostate[o] # None /\ PushEvent(Event("order", o))
     \/ kind \in {"message", "exception", "quit"} /\ PushEvent(Event(kind, "whole"))
  /\ UNCHANGED <<loopVars, coroVars, otherVars>>

(* An asynchronous call completes: its awaiter comes back as an event.     *)
Complete(c) ==
  /\ MayPush /\ c \in ops
  /\ ops' = ops \ {c}
  /\ PushEvent(Event("coro", c))
  /\ UNCHANGED <<loopVars, life, cur, resuming, waiters, timers, nextTimer, otherVars>>

(* The exchange reports a state of a live order as an OrderUpdate, or, if  *)
(* no object of this process is attached to the order, to nobody.          *)
Report(o, s) ==
  /\ "update" \in Kinds /\ exchange[o] = "open"
  /\ exchange' = [exchange EXCEPT ![o] = IF IsFinal(s) THEN "closed" ELSE "open"]
  /\ IF ostate[o] = None
     THEN UNCHANGED queueVars
     ELSE MayPush /\ PushEvent([kind |-> "update", arg |-> o, state |-> s])
  /\ UNCHANGED <<loopVars, coroVars, ostate, batches, storeVars, envVars>>

-----------------------------------------------------------------------------
(* main_loop *)

(* main_loop locks _mx with its first line, and keeps it until it returns. *)
StartLoop == pc = "start" /\ cur = None /\ GoHolding("top", {"main_loop"})

Top ==
  /\ pc = "top"
  /\ eventTime' = now
  /\ pc' = IF queue = <<>> THEN "rest" ELSE "drain"
  /\ UNCHANGED <<ev, todo, quit, queueVars, coroVars, otherVars>>

(* pop_event locks _mx too.                                                *)
PopEventHangs == pc = "drain" /\ ~CanLock /\ GoTo("hung")

(* The event dropped by pop_back is destroyed, and a coroutine it carries  *)
(* is resumed there and then.                                              *)
DroppedCoro ==
  LET last == queue[Len(queue)]
  IN  IF Len(queue) > 1 /\ last.kind = "coro" THEN {last.arg} \ {None} ELSE {}

(* What pop_event leaves of the queue: front is moved from, back is gone.  *)
Popped ==
  [i \in 1..Len(queue) - 1 |-> IF i = 1 THEN [queue[1] EXCEPT !.arg = None] ELSE queue[i]]

(* A faulty variant: the destroyed event takes its coroutine with it.      *)
PopEventForgets ==
  /\ pc = "drain" /\ CanLock /\ queue # <<>>
  /\ ev' = Head(queue)
  /\ queue' = Popped
  /\ resuming' = {}
  /\ pc' = "process"
  /\ UNCHANGED <<todo, quit, eventTime, alert, pushes, life, cur, ops, waiters, timers,
                 nextTimer, otherVars>>

(* A faulty variant: the popped event stays in the queue.                  *)
PopEventKeeps ==
  /\ pc = "drain" /\ CanLock /\ queue # <<>>
  /\ ev' = Head(queue)
  /\ queue' = [queue EXCEPT ![1].arg = None]
  /\ pc' = "process"
  /\ UNCHANGED <<todo, quit, eventTime, alert, pushes, coroVars, otherVars>>

(* The coroutine of a dropped event runs with _mx still locked.            *)
PopEvent ==
  /\ pc = "drain" /\ CanLock /\ queue # <<>>
  /\ ev' = Head(queue)
  /\ queue' = Popped
  /\ resuming' = DroppedCoro
  /\ IF DroppedCoro = {} THEN pc' = "process" /\ UNCHANGED held
                         ELSE pc' = "popping" /\ held' = held \cup {"pop_event"}
  /\ UNCHANGED <<todo, quit, eventTime, alert, pushes, life, cur, ops, waiters, timers,
                 nextTimer, orderVars, storeVars, mxLocks, now, restarts>>

PopEventReturns ==
  pc = "popping" /\ resuming = {} /\ cur = None /\ GoHolding("process", held \ {"pop_event"})

(* A push from the coroutine resumed inside pop_back is constructed in the *)
(* slot that is being destroyed.  The event survives (the ordinary push),  *)
(* or what follows is undefined.                                           *)
PushIntoDyingSlot ==
  /\ pc = "popping" /\ cur # None /\ pushes < MaxPush
  /\ GoTo("crashed")

(* A faulty variant: the flag is not looked at.                            *)
QueueEmptyIgnoresQuit == pc = "drain" /\ CanLock /\ queue = <<>> /\ GoTo("timers")

(* pop_event returns false; then the quit check, and co_return unlocks.    *)
QueueEmpty ==
  /\ pc = "drain" /\ CanLock /\ queue = <<>>
  /\ IF quit THEN GoHolding("quit", {}) ELSE GoTo("timers")

(* process_event: one action per overload.                                 *)
Process(kind, dists) ==
  /\ pc = "process" /\ ev.kind = kind
  /\ todo' = dists
  /\ pc' = "event out"

ProcessCoro ==
  /\ Process("coro", <<>>)
  /\ resuming' = {ev.arg} \ {None}
  /\ ev' = [ev EXCEPT !.arg = None]
  /\ UNCHANGED <<quit, eventTime, queueVars, life, cur, ops, waiters, timers, nextTimer,
                 otherVars>>

(* A faulty variant: the result of find() is used unchecked.               *)
ProcessMarketUnchecked ==
  /\ Process("market", <<ev.arg, "markets", "event">>)
  /\ UNCHANGED <<ev, quit, eventTime, queueVars, coroVars, otherVars>>

(* No distributor is found for the null instrument of a moved-from event.  *)
ProcessMarket ==
  /\ Process("market", IF ev.arg = None THEN <<"markets", "event">>
                                        ELSE <<ev.arg, "markets", "event">>)
  /\ UNCHANGED <<ev, quit, eventTime, queueVars, coroVars, otherVars>>

ProcessOrder ==
  /\ ev.arg # None
  /\ Process("order", <<ev.arg, "orders", "event">>)
  /\ batch' = StoreOrder(batch, ev.arg, ostate[ev.arg], {})
  /\ UNCHANGED <<ev, quit, eventTime, queueVars, coroVars, orderVars, db, envVars>>

(* apply_update, then the same handling of the order it returns.           *)
ProcessUpdate ==
  /\ ev.arg # None
  /\ Process("update", <<ev.arg, "orders", "event">>)
  /\ ostate' = [ostate EXCEPT ![ev.arg] = ev.state]
  /\ batch' = StoreOrder(batch, ev.arg, ev.state, IF ev.state = "filled" THEN {ev.arg} ELSE {})
  /\ UNCHANGED <<ev, quit, eventTime, queueVars, coroVars, exchange, batches, db, envVars>>

ProcessMessage ==
  /\ Process("message", <<"messages", "event">>)
  /\ UNCHANGED <<ev, quit, eventTime, queueVars, coroVars, otherVars>>

ProcessException ==
  /\ ev.arg # None
  /\ Process("exception", <<"exception">>)
  /\ UNCHANGED <<ev, quit, eventTime, queueVars, coroVars, otherVars>>

ProcessQuit ==
  /\ Process("quit", <<>>)
  /\ quit' = TRUE
  /\ UNCHANGED <<ev, eventTime, queueVars, coroVars, otherVars>>

(* Through the null pointer of a moved-from order, update or exception.    *)
ProcessNull ==
  /\ pc = "process" /\ ev.arg = None /\ ev.kind \in {"order", "update", "exception"}
  /\ GoTo("crashed")

(* distributor::broadcast: all who wait now are resumed, one by one; who   *)
(* awaits again waits for the next broadcast.                              *)
Broadcast ==
  /\ pc \in Delivering /\ todo # <<>> /\ resuming = {} /\ cur = None
  /\ resuming' = waiters[Head(todo)]
  /\ waiters' = [waiters EXCEPT ![Head(todo)] = {}]
  /\ todo' = Tail(todo)
  /\ UNCHANGED <<pc, ev, quit, eventTime, queueVars, life, cur, ops, timers, nextTimer,
                 otherVars>>

(* A faulty variant: fills are committed first, and the orders written     *)
(* with them left for the next commit.                                     *)
FlushBatchesPartly ==
  /\ pc \in Delivering /\ todo = <<>> /\ resuming = {} /\ cur = None
  /\ batches' = [place |-> {}, cancel |-> {}]
  /\ db' = IF batch.fills = {} THEN Committed(db, batch) ELSE [db EXCEPT !.fills = @ \cup batch.fills]
  /\ batch' = IF batch.fills = {} THEN EmptyBatch ELSE [batch EXCEPT !.fills = {}]
  /\ pc' = CASE pc = "event out" -> "drain"
             [] pc = "timer out" -> "timers"
             [] pc = "idle out" -> IF queue = <<>> THEN "rest" ELSE "drain"
  /\ UNCHANGED <<ev, todo, quit, eventTime, queueVars, coroVars, ostate, exchange, envVars>>

(* flush_batches after an event, a timer or the idle broadcast; then the   *)
(* next turn of the loop it stands in.                                     *)
FlushBatches ==
  /\ pc \in Delivering /\ todo = <<>> /\ resuming = {} /\ cur = None
  /\ batches' = [place |-> {}, cancel |-> {}]
  /\ db' = Committed(db, batch)
  /\ batch' = EmptyBatch
  /\ pc' = CASE pc = "event out" -> "drain"
             [] pc = "timer out" -> "timers"
             [] pc = "idle out" -> IF queue = <<>> THEN "rest" ELSE "drain"
  /\ UNCHANGED <<ev, todo, quit, eventTime, queueVars, coroVars, ostate, exchange, envVars>>

Due == {t \in timers : t.at < eventTime}

FireTimer ==
  /\ pc = "timers"
  /\ \E t \in Due :
       /\ \A u \in timers : t.at <= u.at
       /\ timers' = timers \ {t}
       /\ resuming' = {t.coro}
  /\ pc' = "timer out"
  /\ UNCHANGED <<ev, todo, quit, eventTime, queueVars, life, cur, ops, waiters, nextTimer,
                 otherVars>>

TimersDone ==
  /\ pc = "timers" /\ Due = {}
  /\ IF queue = <<>>
     THEN pc' = "idle out" /\ todo' = <<"idle">>
     ELSE pc' = "drain" /\ UNCHANGED todo
  /\ UNCHANGED <<ev, quit, eventTime, queueVars, coroVars, otherVars>>

(* The loop suspends only if no coroutine waits for idle.                  *)
Rest == pc = "rest" /\ GoTo(IF waiters["idle"] = {} THEN "asleep" ELSE "top")

(* sleep_until_alertable returns: on an alert, or at the first timer.      *)
Wake ==
  /\ pc = "asleep" /\ cur = None
  /\ alert \/ \E t \in timers : t.at <= now
  /\ alert' = FALSE
  /\ pc' = "top"
  /\ UNCHANGED <<ev, todo, quit, eventTime, queue, pushes, coroVars, otherVars>>

-----------------------------------------------------------------------------
(* The strategy's coroutines *)

Launch(c) ==
  /\ life[c] = "fresh" /\ cur = None
  /\ pc = "start" \/ (LateLaunch /\ pc = "asleep")
  /\ life' = [life EXCEPT ![c] = "live"]
  /\ cur' = c
  /\ UNCHANGED <<loopVars, queueVars, resuming, ops, waiters, timers, nextTimer, otherVars>>

Resume(c) ==
  /\ c \in resuming /\ cur = None
  /\ cur' = c
  /\ resuming' = resuming \ {c}
  /\ UNCHANGED <<loopVars, queueVars, life, ops, waiters, timers, nextTimer, otherVars>>

(* A faulty variant: the state of the order is not looked at.              *)
AwaitAny(d) ==
  /\ cur # None /\ d \in Awaited
  /\ d \in Orders => ostate[d] # None
  /\ waiters' = [waiters EXCEPT ![d] = @ \cup {cur}]
  /\ cur' = None
  /\ UNCHANGED <<loopVars, queueVars, life, resuming, ops, timers, nextTimer, otherVars>>

(* co_await of on_event(), on_order_update(), on_market() and the others.  *)
(* on_order_update(o) of a done order returns at once: no step.            *)
Await(d) ==
  /\ cur # None /\ d \in Awaited
  /\ d \in Orders => ostate[d] # None /\ ~IsFinal(ostate[d])
  /\ waiters' = [waiters EXCEPT ![d] = @ \cup {cur}]
  /\ cur' = None
  /\ UNCHANGED <<loopVars, queueVars, life, resuming, ops, timers, nextTimer, otherVars>>

(* co_await of sleep_until(at) and sleep_for: not interruptible, id 0.     *)
Sleep(at) ==
  /\ cur # None /\ "sleep" \in Calls
  /\ timers' = timers \cup {[coro |-> cur, at |-> at, id |-> 0]}
  /\ cur' = None
  /\ UNCHANGED <<loopVars, queueVars, life, resuming, ops, waiters, nextTimer, otherVars>>

(* co_await of sleep_until(at, id) and sleep_for(d, id).                   *)
SleepWithId(at) ==
  /\ cur # None /\ "interrupt" \in Calls /\ nextTimer <= MaxTimer
  /\ timers' = timers \cup {[coro |-> cur, at |-> at, id |-> nextTimer]}
  /\ nextTimer' = nextTimer + 1
  /\ cur' = None
  /\ UNCHANGED <<loopVars, queueVars, life, resuming, ops, waiters, otherVars>>

(* interrupt(id) puts the sleeper into the queue itself: no lock, no alert.*)
(* If the id is unknown, the event it pushes carries no coroutine.         *)
Interrupt(id) ==
  /\ cur # None /\ "interrupt" \in Calls /\ pushes < MaxPush
  /\ LET found == {t \in timers : t.id = id}
     IN  \/ \E t \in found : /\ timers' = timers \ {t}
                             /\ queue' = Append(queue, Event("coro", t.coro))
         \/ /\ found = {}
            /\ queue' = Append(queue, Event("coro", None))
            /\ UNCHANGED timers
  /\ pushes' = pushes + 1
  /\ UNCHANGED <<loopVars, alert, life, cur, resuming, ops, waiters, nextTimer, otherVars>>

(* co_await of update_account, update_instrument and the like: the awaiter *)
(* is with the exchange until it pushes its completion.                    *)
AwaitOperation ==
  /\ cur # None /\ "operation" \in Calls
  /\ ops' = ops \cup {cur}
  /\ cur' = None
  /\ UNCHANGED <<loopVars, queueVars, life, resuming, waiters, timers, nextTimer, otherVars>>

Finish ==
  /\ cur # None
  /\ life' = [life EXCEPT ![cur] = "done"]
  /\ cur' = None
  /\ UNCHANGED <<loopVars, queueVars, resuming, ops, waiters, timers, nextTimer, otherVars>>

(* handle_exception of a coroutine that ends by an exception.  The handler *)
(* is installed when the loop starts.                                      *)
Throw ==
  /\ cur # None /\ "throw" \in Calls
  /\ life' = [life EXCEPT ![cur] = "done"]
  /\ cur' = None
  /\ IF pc = "start" THEN UNCHANGED queueVars
                     ELSE MayPush /\ PushEvent(Event("exception", "whole"))
  /\ UNCHANGED <<loopVars, resuming, ops, waiters, timers, nextTimer, otherVars>>

(* place_order, and replace() of a prepared order (EventOrderPlace).       *)
PlaceOrder(o) ==
  /\ cur # None /\ "order" \in Calls /\ ostate[o] = None /\ exchange[o] = "none"
  /\ ostate' = [ostate EXCEPT ![o] = "pending_new"]
  /\ exchange' = [exchange EXCEPT ![o] = "open"]
  /\ batches' = [batches EXCEPT !.place = @ \cup {o}]
  /\ UNCHANGED <<loopVars, queueVars, coroVars, storeVars, envVars>>

(* cancel() of an order comes back as EventOrderCancel.                    *)
CancelOrder(o) ==
  /\ cur # None /\ "order" \in Calls /\ ostate[o] # None /\ ~IsFinal(ostate[o])
  /\ batches' = [batches EXCEPT !.cancel = @ \cup {o}]
  /\ UNCHANGED <<loopVars, queueVars, coroVars, ostate, exchange, storeVars, envVars>>

(* One turn of restore_open_orders: the exchange rebuilds an order from    *)
(* its record, attaches it and posts its state.  The order may be any that *)
(* has a record; Storage has the iteration that comes to it.               *)
RestoreOrder(o) ==
  /\ cur # None /\ "order" \in Calls /\ MayPush /\ o \in db.orders /\ ostate[o] = None
  /\ ostate' = [ostate EXCEPT ![o] = "restored"]
  /\ PushEvent([kind |-> "update", arg |-> o,
                state |-> IF exchange[o] = "open" THEN "open" ELSE "filled"])
  /\ UNCHANGED <<loopVars, coroVars, exchange, batches, storeVars, envVars>>

VarSet(v, x) ==
  /\ cur # None /\ "var" \in Calls
  /\ batch' = [batch EXCEPT !.vars[v] = x]
  /\ UNCHANGED <<loopVars, queueVars, coroVars, orderVars, db, envVars>>

-----------------------------------------------------------------------------
Tick ==
  /\ now < MaxTime
  /\ now' = now + 1
  /\ UNCHANGED <<loopVars, queueVars, coroVars, orderVars, storeVars, mxLocks, held, restarts>>

(* The process dies, at any point, and is started again on its database.   *)
Restart ==
  /\ restarts < MaxRestart /\ pc # "start"
  /\ restarts' = restarts + 1
  /\ pc' = "start" /\ ev' = Event("quit", None) /\ todo' = <<>> /\ quit' = FALSE /\ eventTime' = 0
  /\ queue' = <<>> /\ alert' = FALSE
  /\ life' = [c \in Coros |-> "fresh"] /\ cur' = None /\ resuming' = {} /\ ops' = {}
  /\ waiters' = [d \in Dists |-> {}] /\ timers' = {} /\ nextTimer' = 1
  /\ ostate' = [o \in Orders |-> None] /\ batches' = [place |-> {}, cancel |-> {}]
  /\ batch' = EmptyBatch /\ held' = {}
  /\ UNCHANGED <<pushes, exchange, db, mxLocks, now>>

Loop ==
  \/ StartLoop \/ Top \/ PopEventHangs \/ PopEvent \/ PopEventReturns \/ QueueEmpty
  \/ ProcessCoro \/ ProcessMarket \/ ProcessOrder \/ ProcessUpdate \/ ProcessMessage
  \/ ProcessException \/ ProcessQuit \/ ProcessNull
  \/ Broadcast \/ FlushBatches \/ FireTimer \/ TimersDone \/ Rest \/ Wake

Suspend ==
  \/ \E d \in Dists : Await(d)
  \/ \E at \in 0..MaxTime : Sleep(at) \/ SleepWithId(at)
  \/ AwaitOperation \/ Finish

Call ==
  \/ Throw \/ PushIntoDyingSlot \/ PushEventHangs
  \/ \E id \in 0..MaxTimer : Interrupt(id)
  \/ \E o \in Orders : PlaceOrder(o) \/ CancelOrder(o) \/ RestoreOrder(o)
  \/ \E v \in Vars, x \in Vals : VarSet(v, x)

Outside ==
  \/ \E k \in Kinds : Push(k)
  \/ \E c \in Coros : Complete(c) \/ Launch(c)
  \/ \E o \in Orders, s \in Reports : Report(o, s)
  \/ Tick \/ Restart

ResumeNext == \E c \in Coros : Resume(c)

Next == Loop \/ ResumeNext \/ Suspend \/ Call \/ Outside

Spec == Init /\ [][Next]_vars

(* The loop and the coroutine it runs make progress, time passes, and a    *)
(* coroutine runs to its next suspension.                                  *)
FairSpec == Spec /\ WF_vars(Loop) /\ WF_vars(ResumeNext) /\ WF_vars(Suspend) /\ WF_vars(Tick)

-----------------------------------------------------------------------------
(* Properties *)

(* Everything that holds the handle of coroutine c.                        *)
Holders(c) ==
  {<<"life", s>> : s \in {life[c]} \ {"live"}}
    \cup {<<"running", x>> : x \in {cur} \cap {c}}
    \cup {<<"resuming", x>> : x \in resuming \cap {c}}
    \cup {<<"operation", x>> : x \in ops \cap {c}}
    \cup {<<"waits", d>> : d \in {d \in Dists : c \in waiters[d]}}
    \cup {<<"sleeps", t>> : t \in {t \in timers : t.coro = c}}
    \cup {<<"queued", i>> : i \in {i \in 1..Len(queue) : queue[i].kind = "coro" /\ queue[i].arg = c}}
    \cup {<<"event", e>> : e \in {e \in {ev} : e.kind = "coro" /\ e.arg = c}}

(* A coroutine is never lost and never resumed twice: as long as the       *)
(* process lives exactly one place holds it, whatever pop_event drops,     *)
(* interrupt moves or a broadcast takes.                                   *)
HeldOnce == pc # "crashed" => \A c \in Coros : Cardinality(Holders(c)) = 1

(* push_event alerts only for the first event and pop_event never does, so *)
(* a loop asleep on a non-empty queue must have an alert on its way.  It   *)
(* holds if coroutines run only inside the loop: interrupt sends no alert. *)
NoLostWakeup == ~LateLaunch /\ pc = "asleep" /\ queue # <<>> => alert

(* No coroutine waits for an update of an order that is already final, but *)
(* for the moment between apply_update and the broadcast it is due for.    *)
NoWaiterOnFinalOrder ==
  \A o \in Orders :
    (ostate[o] = None \/ IsFinal(ostate[o])) /\ waiters[o] # {}
      => pc = "event out" /\ todo # <<>> /\ Head(todo) = o

(* Once quit has been dispatched no timer and no idle waiter is served.    *)
QuitEndsService == quit => pc \in {"drain", "popping", "process", "event out", "quit", "crashed"}

(* The order records, once everything written is committed: an order that  *)
(* the strategy knows as final has none, one reported open has one.        *)
RecordFollowsState ==
  LET stored == Committed(db, batch).orders
  IN  \A o \in Orders : /\ o \in stored /\ ostate[o] # None =>
                             ostate[o] = "restored" \/ ~IsFinal(ostate[o])
                        /\ ostate[o] # None /\ ostate[o] # "pending_new" /\ ~IsFinal(ostate[o]) =>
                             o \in stored

(* What one event writes becomes durable together: at every point the      *)
(* process may die, an order whose closing fill is stored has no record    *)
(* left from which it would be restored as open.                           *)
SettledTogether == db.fills \cap db.orders = {}

(* A coroutine whose completion or interruption is queued does run, even   *)
(* if its event is dropped from the back of the queue.                     *)
QueuedCoro(c) == \E i \in 1..Len(queue) : queue[i].kind = "coro" /\ queue[i].arg = c
QueuedCoroRuns == \A c \in Coros : QueuedCoro(c) ~> (cur = c \/ pc \in {"crashed", "hung"})

(* A queue that is not empty is emptied.                                   *)
QueueDrains == queue # <<>> ~> (queue = <<>> \/ pc \in {"crashed", "hung"})

(* Every event of the queue is dispatched in its turn: a pop takes the     *)
(* head and nothing else.                                                  *)
PopTakesHead ==
  [][pc = "drain" /\ pc' \in {"process", "popping"} => queue' = Tail(queue)]_vars

(* A sleeper wakes once its time has passed.                               *)
SleeperWakes ==
  \A c \in Coros :
    (\E t \in timers : t.coro = c /\ t.at < MaxTime)
      ~> (cur = c \/ QueuedCoro(c) \/ pc \in {"crashed", "hung", "quit"})
=============================================================================
