------------------------ MODULE StrategyContextProofs ------------------------
(* Theorems about StrategyContext, for every value of its constants: the   *)
(* loop, what it stores of orders, and who holds the coroutines.           *)
EXTENDS StrategyContext, TLAPS, FiniteSetTheorems

(* Typing of what the actions build. *)

\* An event whose argument was moved out is still an event.
LEMMA MovedFromIsEvent ==
  ASSUME NEW e \in Events
  PROVE  [e EXCEPT !.arg = None] \in Events
BY DEF Events

\* The events the handlers build are events.
LEMMA PlainEvents ==
  /\ \A c \in Coros \cup {None} : Event("coro", c) \in Events
  /\ \A i \in Instruments : Event("market", i) \in Events
  /\ \A o \in Orders : Event("order", o) \in Events
  /\ \A k \in {"message", "exception", "quit"} : Event(k, "whole") \in Events /\ Event(k, None) \in Events
BY DEF Events, Event

\* What pop_event leaves of a queue is a queue.
LEMMA PoppedIsQueue ==
  ASSUME queue \in Seq(Events), queue # <<>>
  PROVE  Popped \in Seq(Events)
<1>1. Len(queue) \in Nat /\ Len(queue) > 0
  OBVIOUS
<1>2. \A i \in 1..Len(queue) : queue[i] \in Events
  OBVIOUS
<1>3. \A i \in 1..Len(queue) - 1 : Popped[i] \in Events
  BY <1>1, <1>2, MovedFromIsEvent DEF Popped
<1>4. Popped \in [1..Len(queue) - 1 -> Events]
  BY <1>1, <1>3 DEF Popped
<1> QED
  BY <1>1, <1>4

\* A push keeps the types of what it changes.
LEMMA PushEventType ==
  ASSUME TypeOK, NEW e \in Events, pushes < MaxPush, PushEvent(e)
  PROVE  queue' \in Seq(Events) /\ alert' \in BOOLEAN /\ pushes' \in 0..MaxPush
BY ConstantTypes DEF TypeOK, PushEvent

\* General channels, orders and instruments all name distributors.
LEMMA DistNames == General \subseteq Dists /\ Orders \subseteq Dists /\ Instruments \subseteq Dists
BY DEF Dists

\* The lists of broadcasts the handlers set up are sequences of distributors.
LEMMA TodoTypes ==
  /\ \A d \in Dists : <<d, "markets", "event">> \in Seq(Dists) /\ <<d, "orders", "event">> \in Seq(Dists)
  /\ <<"markets", "event">> \in Seq(Dists) /\ <<"messages", "event">> \in Seq(Dists)
  /\ <<"exception">> \in Seq(Dists) /\ <<"idle">> \in Seq(Dists) /\ <<>> \in Seq(Dists)
BY DistNames DEF General

\* The argument of an event has the type its kind asks for.
LEMMA EventArgs ==
  ASSUME NEW e \in Events, e.arg # None
  PROVE  /\ e.kind = "coro" => e.arg \in Coros
         /\ e.kind = "market" => e.arg \in Instruments
         /\ e.kind \in {"order", "update"} => e.arg \in Orders
         /\ e.kind = "update" => e.state \in OrderState
BY DEF Events

\* Storing an order yields a batch.
LEMMA StoreOrderType ==
  ASSUME TypeOK, NEW o \in Orders, NEW s, NEW fills \in SUBSET Orders
  PROVE  StoreOrder(batch, o, s, fills) \in
           [orders: [Orders -> {"set", "erase", None}], fills: SUBSET Orders,
            vars: [Vars -> Vals \cup {None}]]
BY DEF TypeOK, StoreOrder

\* Committing a batch yields a database.
LEMMA CommittedType ==
  ASSUME TypeOK
  PROVE  Committed(db, batch) \in
           [orders: SUBSET Orders, fills: SUBSET Orders, vars: [Vars -> Vals \cup {None}]]
BY DEF TypeOK, Committed

\* The empty batch is a batch.
LEMMA EmptyBatchType ==
  EmptyBatch \in [orders: [Orders -> {"set", "erase", None}], fills: SUBSET Orders,
                  vars: [Vars -> Vals \cup {None}]]
BY DEF EmptyBatch

-----------------------------------------------------------------------------
(* Type correctness: every reachable state has the types the code declares.*)

\* The initial states are well typed.
LEMMA TypeInit == Init => TypeOK
<1> SUFFICES ASSUME Init PROVE TypeOK
  OBVIOUS
<1>1. ev \in Events
  BY PlainEvents DEF Init
<1>2. batch \in [orders: [Orders -> {"set", "erase", None}], fills: SUBSET Orders,
                 vars: [Vars -> Vals \cup {None}]]
  BY EmptyBatchType DEF Init
<1>3. queue \in Seq(Events) /\ todo \in Seq(Dists)
  BY DEF Init
<1>4. /\ eventTime \in 0..MaxTime /\ now \in 0..MaxTime /\ pushes \in 0..MaxPush
      /\ restarts \in 0..MaxRestart /\ nextTimer \in 1..MaxTimer + 1
  BY ConstantTypes DEF Init
<1>5. /\ life \in [Coros -> {"fresh", "live", "done"}] /\ waiters \in [Dists -> SUBSET Coros]
      /\ ostate \in [Orders -> OrderState \cup {None}]
      /\ exchange \in [Orders -> {"none", "open", "closed"}]
  BY DEF Init
<1>6. /\ db \in [orders: SUBSET Orders, fills: SUBSET Orders, vars: [Vars -> Vals \cup {None}]]
      /\ batches \in [place: SUBSET Orders, cancel: SUBSET Orders]
  BY DEF Init
<1>7. /\ pc = "start" /\ quit \in BOOLEAN /\ alert \in BOOLEAN /\ mxLocks \in BOOLEAN /\ held = {}
      /\ cur = None /\ resuming = {} /\ ops = {} /\ timers = {}
  BY DEF Init
<1> QED
  BY <1>1, <1>2, <1>3, <1>4, <1>5, <1>6, <1>7 DEF TypeOK

\* The steps of the event loop keep the types.
LEMMA LoopTypes ==
  ASSUME TypeOK, Loop
  PROVE  TypeOK'
<1> USE DEF loopVars, queueVars, coroVars, orderVars, storeVars, envVars, otherVars
<1>1. CASE StartLoop
  BY <1>1 DEF TypeOK, StartLoop, GoTo, GoHolding
<1>2. CASE Top
  BY <1>2 DEF TypeOK, Top
<1>3. CASE PopEventHangs
  BY <1>3 DEF TypeOK, PopEventHangs, GoTo, GoHolding
<1>4. CASE PopEventReturns
  BY <1>4 DEF TypeOK, PopEventReturns, GoTo, GoHolding
<1>5. CASE QueueEmpty
  BY <1>5 DEF TypeOK, QueueEmpty, GoTo, GoHolding
<1>6. CASE ProcessNull
  BY <1>6 DEF TypeOK, ProcessNull, GoTo, GoHolding
<1>7. CASE Rest
  BY <1>7 DEF TypeOK, Rest, GoTo, GoHolding
<1>8. CASE Wake
  BY <1>8 DEF TypeOK, Wake
<1>9. CASE PopEvent
  <2>1. queue' \in Seq(Events)
    BY <1>9, PoppedIsQueue DEF TypeOK, PopEvent
  <2>2. queue[Len(queue)] \in Events /\ Head(queue) \in Events
    BY <1>9 DEF TypeOK, PopEvent
  <2>3. DroppedCoro \subseteq Coros
    BY <2>2, EventArgs DEF DroppedCoro
  <2> QED
    BY <1>9, <2>1, <2>2, <2>3 DEF TypeOK, PopEvent
<1>10. CASE ProcessCoro
  <2>1. ev' \in Events /\ resuming' \subseteq Coros
    BY <1>10, EventArgs, MovedFromIsEvent DEF TypeOK, ProcessCoro, Process
  <2> QED
    BY <1>10, <2>1, TodoTypes DEF TypeOK, ProcessCoro, Process, Delivering
<1>11. CASE ProcessMarket
  <2>1. todo' \in Seq(Dists)
    BY <1>11, EventArgs, TodoTypes, DistNames DEF TypeOK, ProcessMarket, Process
  <2> QED
    BY <1>11, <2>1 DEF TypeOK, ProcessMarket, Process, Delivering
<1>12. CASE ProcessMessage
  <2>1. todo' \in Seq(Dists)
    BY <1>12, EventArgs, TodoTypes, DistNames DEF TypeOK, ProcessMessage, Process
  <2> QED
    BY <1>12, <2>1 DEF TypeOK, ProcessMessage, Process, Delivering
<1>13. CASE ProcessException
  <2>1. todo' \in Seq(Dists)
    BY <1>13, EventArgs, TodoTypes, DistNames DEF TypeOK, ProcessException, Process
  <2> QED
    BY <1>13, <2>1 DEF TypeOK, ProcessException, Process, Delivering
<1>14. CASE ProcessQuit
  <2>1. todo' \in Seq(Dists)
    BY <1>14, EventArgs, TodoTypes, DistNames DEF TypeOK, ProcessQuit, Process
  <2> QED
    BY <1>14, <2>1 DEF TypeOK, ProcessQuit, Process, Delivering
<1>15. CASE ProcessOrder
  <2>1. ev.arg \in Orders
    BY <1>15, EventArgs DEF TypeOK, ProcessOrder, Process
  <2>2. todo' \in Seq(Dists)
    BY <1>15, <2>1, TodoTypes, DistNames DEF ProcessOrder, Process
  <2>3. batch' \in [orders: [Orders -> {"set", "erase", None}], fills: SUBSET Orders,
                   vars: [Vars -> Vals \cup {None}]]
    BY <1>15, <2>1, StoreOrderType DEF ProcessOrder
  <2> QED
    BY <1>15, <2>2, <2>3 DEF TypeOK, ProcessOrder, Process, Delivering
<1>16. CASE ProcessUpdate
  <2>1. ev.arg \in Orders /\ ev.state \in OrderState
    BY <1>16, EventArgs DEF TypeOK, ProcessUpdate, Process
  <2>2. todo' \in Seq(Dists)
    BY <1>16, <2>1, TodoTypes, DistNames DEF ProcessUpdate, Process
  <2>3. batch' \in [orders: [Orders -> {"set", "erase", None}], fills: SUBSET Orders,
                   vars: [Vars -> Vals \cup {None}]]
    BY <1>16, <2>1, StoreOrderType DEF ProcessUpdate
  <2>4. ostate' \in [Orders -> OrderState \cup {None}]
    BY <1>16, <2>1 DEF TypeOK, ProcessUpdate
  <2> QED
    BY <1>16, <2>2, <2>3, <2>4 DEF TypeOK, ProcessUpdate, Process, Delivering
<1>17. CASE Broadcast
  <2>1. Head(todo) \in Dists /\ todo' \in Seq(Dists)
    BY <1>17 DEF TypeOK, Broadcast
  <2> QED
    BY <1>17, <2>1 DEF TypeOK, Broadcast
<1>18. CASE FlushBatches
  <2>1. pc' \in {"drain", "timers", "rest"}
    BY <1>18 DEF FlushBatches, Delivering
  <2> QED
    BY <1>18, <2>1, CommittedType, EmptyBatchType DEF TypeOK, FlushBatches
<1>19. CASE FireTimer
  BY <1>19 DEF TypeOK, FireTimer, Due, Timers, Delivering
<1>20. CASE TimersDone
  <2>1. todo' \in Seq(Dists)
    BY <1>20, TodoTypes DEF TypeOK, TimersDone
  <2> QED
    BY <1>20, <2>1 DEF TypeOK, TimersDone, Delivering
<1> QED
  BY <1>1, <1>2, <1>3, <1>4, <1>5, <1>6, <1>7, <1>8, <1>9, <1>10, <1>11, <1>12, <1>13, <1>14, <1>15, <1>16, <1>17, <1>18, <1>19, <1>20 DEF Loop

\* Resuming and suspending coroutines keeps the types.
LEMMA CoroutineTypes ==
  ASSUME TypeOK, ResumeNext \/ Suspend
  PROVE  TypeOK'
<1> USE DEF loopVars, queueVars, coroVars, orderVars, storeVars, envVars, otherVars
<1>1. CASE ResumeNext
  BY <1>1 DEF TypeOK, ResumeNext, Resume
<1>2. ASSUME NEW d \in Dists, Await(d) PROVE TypeOK'
  BY <1>2 DEF TypeOK, Await
<1>3. ASSUME NEW at \in 0..MaxTime, Sleep(at) PROVE TypeOK'
  BY <1>3, ConstantTypes DEF TypeOK, Sleep, Timers
<1>4. ASSUME NEW at \in 0..MaxTime, SleepWithId(at) PROVE TypeOK'
  BY <1>4, ConstantTypes DEF TypeOK, SleepWithId, Timers
<1>5. CASE AwaitOperation
  BY <1>5 DEF TypeOK, AwaitOperation
<1>6. CASE Finish
  BY <1>6 DEF TypeOK, Finish
<1> QED
  BY <1>1, <1>2, <1>3, <1>4, <1>5, <1>6 DEF Suspend

\* The calls of the strategy keep the types.
LEMMA CallTypes ==
  ASSUME TypeOK, Call
  PROVE  TypeOK'
<1> USE DEF loopVars, queueVars, coroVars, orderVars, storeVars, envVars, otherVars
<1>1. CASE Throw
  <2>1. CASE pc = "start"
    BY <1>1, <2>1 DEF TypeOK, Throw
  <2>2. CASE pc # "start"
    <3>1. queue' \in Seq(Events) /\ alert' \in BOOLEAN /\ pushes' \in 0..MaxPush
      BY <1>1, <2>2, PlainEvents, PushEventType DEF Throw, MayPush
    <3> QED
      BY <1>1, <3>1 DEF TypeOK, Throw
  <2> QED
    BY <2>1, <2>2
<1>2. CASE PushIntoDyingSlot \/ PushEventHangs
  BY <1>2 DEF TypeOK, PushIntoDyingSlot, PushEventHangs, GoTo, GoHolding
<1>3. ASSUME NEW id \in 0..MaxTimer, Interrupt(id) PROVE TypeOK'
  <2>1. pushes' \in 0..MaxPush
    BY <1>3, ConstantTypes DEF TypeOK, Interrupt
  <2>2. PICK c \in Coros \cup {None} : queue' = Append(queue, Event("coro", c))
    BY <1>3 DEF TypeOK, Interrupt, Timers
  <2>3. queue' \in Seq(Events)
    BY <2>2, PlainEvents DEF TypeOK
  <2>4. timers' \subseteq Timers
    BY <1>3 DEF TypeOK, Interrupt
  <2> QED
    BY <1>3, <2>1, <2>3, <2>4 DEF TypeOK, Interrupt
<1>4. ASSUME NEW o \in Orders, PlaceOrder(o) PROVE TypeOK'
  BY <1>4 DEF TypeOK, PlaceOrder, OrderState
<1>5. ASSUME NEW o \in Orders, CancelOrder(o) PROVE TypeOK'
  BY <1>5 DEF TypeOK, CancelOrder
<1>6. ASSUME NEW o \in Orders, RestoreOrder(o) PROVE TypeOK'
  <2> DEFINE e == [kind |-> "update", arg |-> o,
                   state |-> IF exchange[o] = "open" THEN "open" ELSE "filled"]
  <2>1. e \in Events
    BY DEF Events, OrderState
  <2>2. queue' \in Seq(Events) /\ alert' \in BOOLEAN /\ pushes' \in 0..MaxPush
    BY <1>6, <2>1, PushEventType DEF RestoreOrder, MayPush
  <2>3. ostate' \in [Orders -> OrderState \cup {None}]
    BY <1>6 DEF TypeOK, RestoreOrder, OrderState
  <2> QED
    BY <1>6, <2>2, <2>3 DEF TypeOK, RestoreOrder
<1>7. ASSUME NEW v \in Vars, NEW x \in Vals, VarSet(v, x) PROVE TypeOK'
  BY <1>7 DEF TypeOK, VarSet
<1> QED
  BY <1>1, <1>2, <1>3, <1>4, <1>5, <1>6, <1>7 DEF Call

\* The threads outside the loop keep the types.
LEMMA OutsideTypes ==
  ASSUME TypeOK, Outside
  PROVE  TypeOK'
<1> USE DEF loopVars, queueVars, coroVars, orderVars, storeVars, envVars, otherVars
<1>1. ASSUME NEW k \in Kinds, Push(k) PROVE TypeOK'
  <2>1. PICK e \in Events : PushEvent(e)
    BY <1>1, PlainEvents DEF Push
  <2>2. queue' \in Seq(Events) /\ alert' \in BOOLEAN /\ pushes' \in 0..MaxPush
    BY <1>1, <2>1, PushEventType DEF Push, MayPush, OthersRun
  <2> QED
    BY <1>1, <2>2 DEF TypeOK, Push
<1>2. ASSUME NEW c \in Coros, Complete(c) PROVE TypeOK'
  <2>1. queue' \in Seq(Events) /\ alert' \in BOOLEAN /\ pushes' \in 0..MaxPush
    BY <1>2, PlainEvents, PushEventType DEF Complete, MayPush, OthersRun
  <2> QED
    BY <1>2, <2>1 DEF TypeOK, Complete
<1>3. ASSUME NEW c \in Coros, Launch(c) PROVE TypeOK'
  BY <1>3 DEF TypeOK, Launch
<1>4. ASSUME NEW o \in Orders, NEW s \in Reports, Report(o, s) PROVE TypeOK'
  <2>1. [kind |-> "update", arg |-> o, state |-> s] \in Events
    BY ConstantTypes DEF Events
  <2>2. queue' \in Seq(Events) /\ alert' \in BOOLEAN /\ pushes' \in 0..MaxPush
    BY <1>4, <2>1, PushEventType DEF Report, MayPush, TypeOK
  <2>3. exchange' \in [Orders -> {"none", "open", "closed"}]
    BY <1>4 DEF TypeOK, Report
  <2> QED
    BY <1>4, <2>2, <2>3 DEF TypeOK, Report
<1>5. CASE Tick
  BY <1>5, ConstantTypes DEF TypeOK, Tick
<1>6. CASE Restart
  <2>1. restarts' \in 0..MaxRestart /\ eventTime' \in 0..MaxTime /\ nextTimer' \in 1..MaxTimer + 1
    BY <1>6, ConstantTypes DEF TypeOK, Restart
  <2>2. ev' \in Events /\ queue' \in Seq(Events) /\ todo' \in Seq(Dists)
    BY <1>6, PlainEvents DEF Restart
  <2>3. /\ life' \in [Coros -> {"fresh", "live", "done"}] /\ waiters' \in [Dists -> SUBSET Coros]
        /\ ostate' \in [Orders -> OrderState \cup {None}]
        /\ batches' \in [place: SUBSET Orders, cancel: SUBSET Orders]
    BY <1>6 DEF Restart
  <2>4. batch' \in [orders: [Orders -> {"set", "erase", None}], fills: SUBSET Orders,
                    vars: [Vars -> Vals \cup {None}]]
    BY <1>6, EmptyBatchType DEF Restart
  <2> QED
    BY <1>6, <2>1, <2>2, <2>3, <2>4 DEF TypeOK, Restart
<1> QED
  BY <1>1, <1>2, <1>3, <1>4, <1>5, <1>6 DEF Outside

\* Every step keeps the types.
LEMMA TypeStep == TypeOK /\ [Next]_vars => TypeOK'
<1> SUFFICES ASSUME TypeOK, [Next]_vars PROVE TypeOK'
  OBVIOUS
<1>1. CASE UNCHANGED vars
  BY <1>1 DEF TypeOK, vars, loopVars, queueVars, coroVars, orderVars, storeVars, envVars, otherVars, otherVars
<1> QED
  BY <1>1, LoopTypes, CoroutineTypes, CallTypes, OutsideTypes DEF Next

(* The state of main_loop and of everything it calls keeps its types.      *)
THEOREM TypeCorrect == Spec => []TypeOK
BY TypeInit, TypeStep, PTL DEF Spec

-----------------------------------------------------------------------------
(* What runs beside the loop. *)

PushFails == PushIntoDyingSlot \/ PushEventHangs

Beside == ResumeNext \/ Suspend \/ (Call /\ ~PushFails) \/ (Outside /\ ~Restart)

\* The steps fall into the loop, what happens beside it, the pushes that fail and the restart.
LEMMA NextCases == Next => Loop \/ Beside \/ PushFails \/ Restart
BY DEF Next, Beside

(* Coroutines and other code leave main_loop where it is.                  *)
LEMMA BesideLeavesLoop == Beside => UNCHANGED <<loopVars, mxLocks, held>>
BY DEF Beside, PushFails, ResumeNext, Resume, Suspend, Await, Sleep, SleepWithId, AwaitOperation, Finish,
       Call, Throw, Interrupt, PlaceOrder, CancelOrder, RestoreOrder, VarSet,
       Outside, Push, Complete, Launch, Report, Tick, loopVars, otherVars, envVars

-----------------------------------------------------------------------------
(* With a mutex that locks, main_loop has it from its first line on, so it *)
(* gets no further than its first pop_event.                               *)
LoopHolds ==
  mxLocks => /\ pc \in {"start", "top", "drain", "rest", "asleep", "hung"}
             /\ held = IF pc = "start" THEN {} ELSE {"main_loop"}

\* Every step leaves the mutex with main_loop.
LEMMA LoopHoldsStep == LoopHolds /\ [Next]_vars => LoopHolds'
<1> SUFFICES ASSUME LoopHolds, [Next]_vars
             PROVE  LoopHolds'
  OBVIOUS
<1> USE DEF LoopHolds
<1>1. CASE Loop
  BY <1>1 DEF Loop, StartLoop, Top, PopEventHangs, PopEvent, PopEventReturns, QueueEmpty, CanLock,
              Process, ProcessCoro, ProcessMarket, ProcessOrder, ProcessUpdate, ProcessMessage,
              ProcessException, ProcessQuit, ProcessNull, Broadcast, FlushBatches, FireTimer,
              TimersDone, Rest, Wake, GoTo, GoHolding, Delivering, otherVars, envVars
<1>2. CASE Beside
  BY <1>2, BesideLeavesLoop DEF loopVars
<1>3. CASE PushFails
  BY <1>3 DEF PushFails, PushIntoDyingSlot, PushEventHangs, CanLock, GoTo, GoHolding
<1>4. CASE Restart
  BY <1>4 DEF Restart
<1>5. CASE UNCHANGED vars
  BY <1>5 DEF vars, loopVars, otherVars, envVars
<1> QED
  BY <1>1, <1>2, <1>3, <1>4, <1>5, NextCases

\* In every reachable state.
LEMMA LoopHoldsAlways == Spec => []LoopHolds
<1>1. Init => LoopHolds
  BY DEF Init, LoopHolds
<1> QED
  BY <1>1, LoopHoldsStep, PTL DEF Spec

(* Only process_event(EventQuit) sets _quit_flag, only a restart clears it.*)
LEMMA QuitSet == [Next]_vars => ProcessQuit \/ quit' = FALSE \/ UNCHANGED quit
<1> SUFFICES ASSUME [Next]_vars PROVE ProcessQuit \/ quit' = FALSE \/ UNCHANGED quit
  OBVIOUS
<1>1. CASE Loop
  BY <1>1 DEF Loop, StartLoop, Top, PopEventHangs, PopEvent, PopEventReturns, QueueEmpty,
              ProcessCoro, ProcessMarket, ProcessOrder, ProcessUpdate, ProcessMessage,
              ProcessException, ProcessNull, Broadcast, FlushBatches, FireTimer,
              TimersDone, Rest, Wake, GoTo, GoHolding
<1>2. CASE Beside
  BY <1>2, BesideLeavesLoop DEF loopVars
<1>3. CASE PushFails
  BY <1>3 DEF PushFails, PushIntoDyingSlot, PushEventHangs, GoTo, GoHolding
<1>4. CASE Restart
  BY <1>4 DEF Restart
<1>5. CASE UNCHANGED vars
  BY <1>5 DEF vars, loopVars
<1> QED
  BY <1>1, <1>2, <1>3, <1>4, <1>5, NextCases

\* No step changes which mutexes the loop locks.
LEMMA LocksStay == [Next]_vars => UNCHANGED mxLocks
<1> SUFFICES ASSUME [Next]_vars PROVE UNCHANGED mxLocks
  OBVIOUS
<1>1. CASE Loop
  BY <1>1 DEF Loop, StartLoop, Top, PopEventHangs, PopEvent, PopEventReturns, QueueEmpty,
              ProcessCoro, ProcessMarket, ProcessOrder, ProcessUpdate, ProcessMessage,
              ProcessException, ProcessQuit, ProcessNull, Broadcast, FlushBatches, FireTimer,
              TimersDone, Rest, Wake, GoTo, GoHolding, otherVars, envVars
<1>2. CASE Beside
  BY <1>2, BesideLeavesLoop
<1>3. CASE PushFails
  BY <1>3 DEF PushFails, PushIntoDyingSlot, PushEventHangs, GoTo, GoHolding, otherVars, envVars
<1>4. CASE Restart
  BY <1>4 DEF Restart
<1>5. CASE UNCHANGED vars
  BY <1>5 DEF vars, otherVars, envVars
<1> QED
  BY <1>1, <1>2, <1>3, <1>4, <1>5, NextCases

(* Once the quit event has been processed, no timer and no idle waiter is  *)
(* served: main_loop looks at _quit_flag between the two inner loops.  By  *)
(* itself that is not inductive, a loop whose mutex locks would hang with  *)
(* the flag set; but such a loop never sets it.                            *)
LoopKeepsFlag == mxLocks => ~quit

QuitInv == LoopHolds /\ LoopKeepsFlag /\ QuitEndsService

\* The theorem of this invariant: once quit has been dispatched no timer and no idle waiter is served.
THEOREM QuitService == Spec => []QuitEndsService
<1>1. Init => QuitInv
  BY DEF Init, QuitInv, LoopHolds, LoopKeepsFlag, QuitEndsService
<1>2. QuitInv /\ [Next]_vars => LoopKeepsFlag'
  <2> SUFFICES ASSUME QuitInv, [Next]_vars
               PROVE  LoopKeepsFlag'
    OBVIOUS
  <2>1. UNCHANGED mxLocks
    BY LocksStay
  <2>2. CASE ProcessQuit
    BY <2>1, <2>2 DEF ProcessQuit, Process, QuitInv, LoopHolds, LoopKeepsFlag
  <2>3. CASE quit' = FALSE
    BY <2>3, Zenon DEF LoopKeepsFlag
  <2>4. CASE UNCHANGED quit
    BY <2>1, <2>4, Zenon DEF QuitInv, LoopKeepsFlag
  <2> QED
    BY <2>2, <2>3, <2>4, QuitSet
<1>3. QuitInv /\ [Next]_vars => QuitEndsService'
  <2> SUFFICES ASSUME QuitInv, [Next]_vars
               PROVE  QuitEndsService'
    OBVIOUS
  <2>0. LoopKeepsFlag /\ QuitEndsService
    BY DEF QuitInv
  <2> USE <2>0 DEF QuitEndsService
  <2>1. CASE Loop
    <3>1. CASE FlushBatches
      BY <3>1 DEF FlushBatches, Delivering
    <3>2. CASE StartLoop \/ Top \/ PopEvent \/ PopEventReturns
      BY <3>2 DEF StartLoop, Top, PopEvent, PopEventReturns, GoTo, GoHolding
    <3>3. CASE PopEventHangs
      BY <3>3 DEF PopEventHangs, GoTo, GoHolding, LoopKeepsFlag, CanLock
    <3>4. CASE QueueEmpty
      <4>1. CASE quit
        BY <3>4, <4>1, Zenon DEF QueueEmpty, GoTo, GoHolding
      <4>2. CASE ~quit
        BY <3>4, <4>2, Zenon DEF QueueEmpty, GoTo, GoHolding
      <4> QED
        BY <4>1, <4>2
    <3>5. CASE Broadcast \/ FireTimer \/ TimersDone \/ Rest \/ Wake \/ ProcessNull
      BY <3>5 DEF Broadcast, FireTimer, TimersDone, Rest, Wake, ProcessNull, GoTo, GoHolding
    <3> QED
      BY <2>1, <3>1, <3>2, <3>3, <3>4, <3>5 DEF Loop, Process, ProcessCoro, ProcessMarket,
         ProcessOrder, ProcessUpdate, ProcessMessage, ProcessException, ProcessQuit
  <2>2. CASE Beside
    BY <2>2, BesideLeavesLoop DEF loopVars
  <2>3. CASE PushFails
    BY <2>3 DEF PushFails, PushIntoDyingSlot, PushEventHangs, GoTo, GoHolding, LoopKeepsFlag, CanLock
  <2>4. CASE Restart
    BY <2>4 DEF Restart
  <2>5. CASE UNCHANGED vars
    BY <2>5 DEF vars, loopVars
  <2> QED
    BY <2>1, <2>2, <2>3, <2>4, <2>5, NextCases
<1>4. QuitInv /\ [Next]_vars => QuitInv'
  BY <1>2, <1>3, LoopHoldsStep DEF QuitInv
<1>5. QuitInv => QuitEndsService
  BY DEF QuitInv
<1> QED
  BY <1>1, <1>4, <1>5, PTL DEF Spec

-----------------------------------------------------------------------------
(* Waiting for an order. *)

\* The first broadcast of an order's list is the order's own distributor.
LEMMA FirstTodo ==
  ASSUME NEW d
  PROVE  <<d, "orders", "event">> # <<>> /\ Head(<<d, "orders", "event">>) = d
OBVIOUS

\* The head of a sequence is one of its members.
LEMMA HeadOfSeq ==
  ASSUME NEW S, NEW s \in Seq(S), s # <<>>
  PROVE  Head(s) \in S
OBVIOUS

(* What leaves the orders and their waiters alone.                         *)
LEMMA OrdersFrame ==
  ASSUME \/ StartLoop \/ Top \/ PopEventHangs \/ PopEvent \/ PopEventReturns \/ QueueEmpty
         \/ ProcessCoro \/ ProcessMarket \/ ProcessOrder \/ ProcessMessage
         \/ ProcessException \/ ProcessQuit \/ ProcessNull \/ FlushBatches
         \/ FireTimer \/ TimersDone \/ Rest \/ Wake
  PROVE  UNCHANGED <<ostate, waiters>> /\ (pc # "event out" \/ (FlushBatches /\ todo = <<>>))
BY DEF StartLoop, Top, PopEventHangs, PopEvent, PopEventReturns, QueueEmpty,
       ProcessCoro, ProcessMarket, ProcessOrder, ProcessMessage, ProcessException, ProcessQuit,
       ProcessNull, Process, FlushBatches, FireTimer, TimersDone, Rest, Wake, GoTo, GoHolding,
       coroVars, otherVars, orderVars

(* No coroutine waits in vain for an order that is done: on_order_update   *)
(* looks at is_final before it suspends, and apply_update is followed by   *)
(* the broadcast to the order's waiters before anything else runs.         *)
LEMMA NoWaiterStep ==
  ASSUME TypeOK, LoopHolds, NoWaiterOnFinalOrder, [Next]_vars
  PROVE  NoWaiterOnFinalOrder'
<1> USE DEF NoWaiterOnFinalOrder
<1>1. CASE Loop
  <2>1. CASE ProcessUpdate
    <3>1. ev.arg \in Orders
      BY <2>1, EventArgs DEF TypeOK, ProcessUpdate, Process
    <3>2. \A o \in Orders : o # ev.arg => ostate'[o] = ostate[o]
      BY <2>1 DEF TypeOK, ProcessUpdate
    <3>3. /\ UNCHANGED waiters /\ pc = "process" /\ pc' = "event out"
          /\ todo' = <<ev.arg, "orders", "event">>
      BY <2>1 DEF ProcessUpdate, Process, coroVars
    <3>4. todo' # <<>> /\ Head(todo') = ev.arg
      BY <3>3, FirstTodo
    <3> QED
      BY <3>1, <3>2, <3>3, <3>4
  <2>2. CASE Broadcast
    <3>1. todo \in Seq(Dists) /\ todo # <<>>
      BY <2>2 DEF TypeOK, Broadcast
    <3>2. Head(todo) \in Dists
      BY <3>1, HeadOfSeq
    <3>3. waiters'[Head(todo)] = {}
      BY <2>2, <3>2 DEF TypeOK, Broadcast
    <3>4. \A o \in Orders : o # Head(todo) => waiters'[o] = waiters[o]
      BY <2>2, DistNames DEF TypeOK, Broadcast
    <3>5. UNCHANGED <<pc, ostate>>
      BY <2>2 DEF Broadcast, otherVars, orderVars
    <3> QED
      BY <3>3, <3>4, <3>5
  <2> QED
    BY <1>1, <2>1, <2>2, OrdersFrame DEF Loop
<1>2. CASE Beside
  <2>1. UNCHANGED <<pc, todo>>
    BY <1>2, BesideLeavesLoop DEF loopVars
  <2>2. CASE \E d \in Dists : Await(d)
    <3>1. PICK d \in Dists : Await(d)
      BY <2>2
    <3>2. \A o \in Orders : o # d => waiters'[o] = waiters[o]
      BY <3>1, DistNames DEF TypeOK, Await
    <3>3. UNCHANGED ostate
      BY <3>1 DEF Await, otherVars, orderVars
    <3>4. d \in Orders => ostate[d] # None /\ ~IsFinal(ostate[d])
      BY <3>1 DEF Await
    <3> QED
      BY <2>1, <3>2, <3>3, <3>4
  <2>3. CASE \E o \in Orders : PlaceOrder(o)
    <3>1. PICK p \in Orders : PlaceOrder(p)
      BY <2>3
    <3>2. ostate'[p] = "pending_new" /\ \A o \in Orders : o # p => ostate'[o] = ostate[o]
      BY <3>1 DEF TypeOK, PlaceOrder
    <3>3. UNCHANGED waiters
      BY <3>1 DEF PlaceOrder, coroVars
    <3> QED
      BY <2>1, <3>2, <3>3, NamesDiffer DEF IsFinal, OrderState
  <2>4. CASE \E o \in Orders : RestoreOrder(o)
    <3>1. PICK p \in Orders : RestoreOrder(p)
      BY <2>4
    <3>2. ostate[p] = None /\ \A o \in Orders : o # p => ostate'[o] = ostate[o]
      BY <3>1 DEF TypeOK, RestoreOrder
    <3>3. UNCHANGED waiters
      BY <3>1 DEF RestoreOrder, coroVars
    <3> QED
      BY <2>1, <3>2, <3>3
  <2>5. \/ UNCHANGED <<ostate, waiters>>
        \/ \E d \in Dists : Await(d)
        \/ \E o \in Orders : PlaceOrder(o)
        \/ \E o \in Orders : RestoreOrder(o)
    BY <1>2 DEF Beside, PushFails, ResumeNext, Resume, Suspend, Sleep, SleepWithId, AwaitOperation,
       Finish, Call, Throw, Interrupt, CancelOrder, VarSet, Outside, Push, Complete, Launch, Report,
       Tick, coroVars, orderVars, otherVars
  <2> QED
    BY <2>1, <2>2, <2>3, <2>4, <2>5
<1>3. CASE PushFails
  BY <1>3 DEF PushFails, PushIntoDyingSlot, PushEventHangs, GoTo, GoHolding, coroVars,
              otherVars, orderVars, LoopHolds, CanLock
<1>4. CASE Restart
  BY <1>4, DistNames DEF Restart
<1>5. CASE UNCHANGED vars
  BY <1>5 DEF vars, loopVars, coroVars, otherVars, orderVars
<1> QED
  BY <1>1, <1>2, <1>3, <1>4, <1>5, NextCases

(* No coroutine waits for an order that is already final, but for the      *)
(* moment between apply_update and the broadcast it is due for.            *)
THEOREM NoWaiter == Spec => []NoWaiterOnFinalOrder
<1>1. Init => NoWaiterOnFinalOrder
  BY DistNames DEF Init, NoWaiterOnFinalOrder
<1>2. TypeOK /\ LoopHolds /\ NoWaiterOnFinalOrder /\ [Next]_vars => NoWaiterOnFinalOrder'
  BY NoWaiterStep
<1> QED
  BY <1>1, <1>2, TypeCorrect, LoopHoldsAlways, PTL DEF Spec

-----------------------------------------------------------------------------
(* The alert. *)

(* Where coroutines run, if none is started while the loop sleeps; the     *)
(* loop goes to rest with an empty queue, so that whatever is in it while  *)
(* the loop sleeps was pushed meanwhile, by push_event.                    *)
RunsInsideLoop ==
  /\ cur # None => pc \in {"start", "popping", "hung", "crashed"} \cup Delivering
  /\ resuming # {} => pc \in {"popping", "hung", "crashed"} \cup Delivering

RestsOnEmptyQueue == pc = "rest" => queue = <<>>

WakeInv == ~LateLaunch => RunsInsideLoop /\ RestsOnEmptyQueue /\ NoLostWakeup

\* Without a late launch coroutines run only inside the loop.
LEMMA RunsInsideLoopStep ==
  ASSUME ~LateLaunch, RunsInsideLoop, [Next]_vars
  PROVE  RunsInsideLoop'
<1> USE DEF RunsInsideLoop, Delivering
<1>1. CASE Loop
  <2>1. CASE PopEvent
    BY <2>1 DEF PopEvent
  <2>2. CASE FlushBatches
    BY <2>2 DEF FlushBatches, coroVars
  <2>3. CASE \/ StartLoop \/ Top \/ PopEventHangs \/ PopEventReturns
             \/ TimersDone \/ Rest \/ Wake \/ ProcessNull
    BY <2>3 DEF StartLoop, Top, PopEventHangs, PopEventReturns, TimersDone, Rest,
                Wake, ProcessNull, GoTo, GoHolding, coroVars
  <2>4. CASE QueueEmpty
    BY <2>4 DEF QueueEmpty, GoTo, GoHolding, coroVars
  <2> QED
    BY <1>1, <2>1, <2>2, <2>3, <2>4 DEF Loop, Process, ProcessCoro, ProcessMarket, ProcessOrder,
       ProcessUpdate, ProcessMessage, ProcessException, ProcessQuit, Broadcast, FireTimer
<1>2. CASE Beside
  <2>1. UNCHANGED pc
    BY <1>2, BesideLeavesLoop DEF loopVars
  <2>2. CASE \E c \in Coros : Launch(c)
    BY <2>1, <2>2 DEF Launch
  <2>3. \/ \E c \in Coros : Launch(c)
        \/ \E c \in Coros : c \in resuming /\ resuming' = resuming \ {c}
        \/ cur' \in {cur, None} /\ UNCHANGED resuming
    BY <1>2 DEF Beside, PushFails, ResumeNext, Resume, Suspend, Await, Sleep, SleepWithId,
       AwaitOperation, Finish, Call, Throw, Interrupt, PlaceOrder, CancelOrder, RestoreOrder, VarSet, Outside,
       Push, Complete, Report, Tick, coroVars
  <2> QED
    BY <2>1, <2>2, <2>3
<1>3. CASE PushFails
  BY <1>3 DEF PushFails, PushIntoDyingSlot, PushEventHangs, GoTo, GoHolding, coroVars
<1>4. CASE Restart
  BY <1>4 DEF Restart
<1>5. CASE UNCHANGED vars
  BY <1>5 DEF vars, loopVars, coroVars
<1> QED
  BY <1>1, <1>2, <1>3, <1>4, <1>5, NextCases

\* Every step keeps the two halves of the wake-up invariant: rest on an empty queue, and alert when it is not.
LEMMA WakeStep ==
  ASSUME ~LateLaunch, RunsInsideLoop, RestsOnEmptyQueue, NoLostWakeup, [Next]_vars
  PROVE  RestsOnEmptyQueue' /\ NoLostWakeup'
<1> USE DEF RestsOnEmptyQueue, NoLostWakeup
<1>1. CASE Loop
  <2>1. CASE PopEvent
    BY <2>1 DEF PopEvent
  <2>2. CASE FlushBatches
    BY <2>2 DEF FlushBatches, Delivering, queueVars
  <2>3. CASE Top
    BY <2>3 DEF Top, queueVars
  <2>4. CASE Rest
    BY <2>4 DEF Rest, GoTo, GoHolding, queueVars
  <2>5. CASE QueueEmpty
    BY <2>5 DEF QueueEmpty, GoTo, GoHolding
  <2>6. CASE TimersDone
    BY <2>6 DEF TimersDone
  <2>7. CASE \/ StartLoop \/ PopEventHangs \/ PopEventReturns \/ Broadcast
             \/ FireTimer \/ Wake \/ ProcessNull
    BY <2>7 DEF StartLoop, PopEventHangs, PopEventReturns, Broadcast, FireTimer,
                Wake, ProcessNull, GoTo, GoHolding, Delivering
  <2> QED
    BY <1>1, <2>1, <2>2, <2>3, <2>4, <2>5, <2>6, <2>7 DEF Loop, Process, ProcessCoro,
       ProcessMarket, ProcessOrder, ProcessUpdate, ProcessMessage, ProcessException, ProcessQuit
<1>2. CASE Beside
  <2>1. UNCHANGED pc
    BY <1>2, BesideLeavesLoop DEF loopVars
  <2>2. CASE UNCHANGED queueVars
    BY <2>1, <2>2 DEF queueVars
  <2>3. CASE pc = "asleep" /\ cur = None /\ \E e : PushEvent(e)
    BY <2>1, <2>3 DEF PushEvent
  <2>4. CASE pc = "start" \/ cur # None
    BY <2>1, <2>4 DEF RunsInsideLoop, Delivering
  <2>5. \/ UNCHANGED queueVars
        \/ pc = "start" \/ cur # None
        \/ pc = "asleep" /\ cur = None /\ \E e : PushEvent(e)
    <3>1. CASE \E k \in Kinds : Push(k)
      BY <3>1 DEF Push, MayPush, OthersRun
    <3>2. CASE \E c \in Coros : Complete(c)
      BY <3>2 DEF Complete, MayPush, OthersRun
    <3>3. CASE \E o \in Orders, s \in Reports : Report(o, s)
      BY <3>3 DEF Report, MayPush, OthersRun
    <3> QED
      BY <1>2, <3>1, <3>2, <3>3 DEF Beside, PushFails, ResumeNext, Resume, Suspend, Await, Sleep,
         SleepWithId, AwaitOperation, Finish, Call, Throw, Interrupt, PlaceOrder, CancelOrder,
         RestoreOrder, VarSet, Outside, Launch, Tick
  <2> QED
    BY <2>2, <2>3, <2>4, <2>5
<1>3. CASE PushFails
  BY <1>3 DEF PushFails, PushIntoDyingSlot, PushEventHangs, GoTo, GoHolding
<1>4. CASE Restart
  BY <1>4 DEF Restart
<1>5. CASE UNCHANGED vars
  BY <1>5 DEF vars, loopVars, queueVars
<1> QED
  BY <1>1, <1>2, <1>3, <1>4, <1>5, NextCases

(* A loop asleep on a non-empty queue has an alert on its way, although    *)
(* push_event alerts only for the first event of an empty queue and        *)
(* interrupt pushes with no alert at all.                                  *)
THEOREM NoLostWakeups == Spec => []NoLostWakeup
<1>1. Init => WakeInv
  BY DEF Init, WakeInv, RunsInsideLoop, RestsOnEmptyQueue, NoLostWakeup
<1>2. WakeInv /\ [Next]_vars => WakeInv'
  BY RunsInsideLoopStep, WakeStep DEF WakeInv
<1>3. WakeInv => NoLostWakeup
  BY DEF WakeInv, NoLostWakeup
<1> QED
  BY <1>1, <1>2, <1>3, PTL DEF Spec

-----------------------------------------------------------------------------
(* Order records. *)

(* Everything written, committed or not.                                   *)
LEMMA CommitKeepsOrders ==
  ASSUME NEW d, NEW b
  PROVE  Committed(Committed(d, b), EmptyBatch).orders = Committed(d, b).orders
<1>1. \A o \in Orders : EmptyBatch.orders[o] = None
  BY DEF EmptyBatch
<1>2. Committed(d, b).orders \subseteq Orders
  BY DEF Committed
<1>3. \A e : Committed(e, EmptyBatch).orders = {o \in Orders : o \in e.orders}
  BY <1>1, NamesDiffer DEF Committed
<1> QED
  BY <1>2, <1>3

\* What a batch with one more order record commits.
LEMMA StoredOrder ==
  ASSUME TypeOK, NEW o \in Orders, NEW s, NEW fills
  PROVE  Committed(db, StoreOrder(batch, o, s, fills)).orders =
           IF IsFinal(s) THEN Committed(db, batch).orders \ {o}
                         ELSE Committed(db, batch).orders \cup {o}
<1>1. /\ StoreOrder(batch, o, s, fills).orders[o] = IF IsFinal(s) THEN "erase" ELSE "set"
      /\ \A p \in Orders \ {o} : StoreOrder(batch, o, s, fills).orders[p] = batch.orders[p]
  BY DEF TypeOK, StoreOrder
<1>2. \A b : Committed(db, b).orders
               = {p \in Orders : b.orders[p] = "set" \/ (b.orders[p] = None /\ p \in db.orders)}
  BY DEF Committed
<1>3. \A p \in Orders \ {o} : p \in Committed(db, StoreOrder(batch, o, s, fills)).orders
                              <=> p \in Committed(db, batch).orders
  BY <1>1, <1>2
<1>4. o \in Committed(db, StoreOrder(batch, o, s, fills)).orders <=> ~IsFinal(s)
  <2>1. CASE IsFinal(s)
    BY <1>1, <1>2, <2>1, NamesDiffer
  <2>2. CASE ~IsFinal(s)
    BY <1>1, <1>2, <2>2
  <2> QED
    BY <2>1, <2>2
<1>5. \A b : Committed(db, b).orders \subseteq Orders
  BY <1>2
<1> QED
  BY <1>3, <1>4, <1>5

(* What leaves the records alone: the batch and the database, or, between  *)
(* them, what is stored.                                                   *)
Stored == Committed(db, batch).orders

\* Only the two handlers of order updates, and a restart, change what will be stored.
LEMMA StoredFrame ==
  ASSUME TypeOK, [Next]_vars, ~ProcessOrder, ~ProcessUpdate
  PROVE  Restart \/ Stored' = Stored
<1> USE DEF Stored
<1>1. CASE FlushBatches
  BY <1>1, CommitKeepsOrders DEF FlushBatches
<1>2. CASE \E v \in Vars, x \in Vals : VarSet(v, x)
  <2>1. UNCHANGED db /\ batch'.orders = batch.orders
    BY <1>2 DEF TypeOK, VarSet
  <2> QED
    BY <2>1 DEF Committed
<1>3. CASE UNCHANGED storeVars
  BY <1>3 DEF storeVars
<1> QED
  BY <1>1, <1>2, <1>3 DEF Next, vars, Loop, StartLoop, Top, PopEventHangs, PopEvent,
     PopEventReturns, QueueEmpty, ProcessCoro, ProcessMarket, ProcessMessage, ProcessException,
     ProcessQuit, ProcessNull, Broadcast, FireTimer, TimersDone, Rest, Wake, ResumeNext, Resume,
     Suspend, Await, Sleep, SleepWithId, AwaitOperation, Finish, Call, Throw, PushIntoDyingSlot, PushEventHangs,
     Interrupt, PlaceOrder, CancelOrder, RestoreOrder, Outside, Push, Complete, Launch, Report,
     Tick, GoTo, GoHolding, otherVars

\* Every step keeps the record in line with the state of the order.
LEMMA RecordStep ==
  ASSUME TypeOK, RecordFollowsState, [Next]_vars
  PROVE  RecordFollowsState'
<1> USE DEF Stored
<1>1. RecordFollowsState =
        \A o \in Orders : /\ o \in Stored /\ ostate[o] # None =>
                               ostate[o] = "restored" \/ ~IsFinal(ostate[o])
                          /\ ostate[o] # None /\ ostate[o] # "pending_new" /\ ~IsFinal(ostate[o]) =>
                               o \in Stored
  BY DEF RecordFollowsState
<1>2. RecordFollowsState' =
        \A o \in Orders : /\ o \in Stored' /\ ostate'[o] # None =>
                               ostate'[o] = "restored" \/ ~IsFinal(ostate'[o])
                          /\ ostate'[o] # None /\ ostate'[o] # "pending_new" /\ ~IsFinal(ostate'[o]) =>
                               o \in Stored'
  BY DEF RecordFollowsState
<1> HIDE DEF Stored
<1>3. CASE ProcessOrder
  <2>1. ev.arg \in Orders
    BY <1>3, EventArgs DEF TypeOK, ProcessOrder, Process
  <2>2. UNCHANGED ostate
    BY <1>3 DEF ProcessOrder, orderVars
  <2>3. Stored' = IF IsFinal(ostate[ev.arg]) THEN Stored \ {ev.arg} ELSE Stored \cup {ev.arg}
    BY <1>3, <2>1, StoredOrder DEF ProcessOrder, Stored
  <2> QED
    BY <1>1, <1>2, <2>2, <2>3
<1>4. CASE ProcessUpdate
  <2>1. ev.arg \in Orders
    BY <1>4, EventArgs DEF TypeOK, ProcessUpdate, Process
  <2>2. ostate'[ev.arg] = ev.state /\ \A o \in Orders \ {ev.arg} : ostate'[o] = ostate[o]
    BY <1>4, <2>1 DEF TypeOK, ProcessUpdate
  <2>3. Stored' = IF IsFinal(ev.state) THEN Stored \ {ev.arg} ELSE Stored \cup {ev.arg}
    BY <1>4, <2>1, StoredOrder DEF ProcessUpdate, Stored
  <2> QED
    BY <1>1, <1>2, <2>2, <2>3
<1>5. CASE Restart
  <2>1. \A o \in Orders : ostate'[o] = None
    BY <1>5 DEF Restart
  <2> QED
    BY <1>2, <2>1
<1>6. CASE ~ProcessOrder /\ ~ProcessUpdate /\ ~Restart
  <2>1. Stored' = Stored
    BY <1>6, StoredFrame
  <2>2. CASE UNCHANGED ostate
    BY <1>1, <1>2, <2>1, <2>2
  <2>3. CASE \E o \in Orders : PlaceOrder(o)
    <3>1. PICK p \in Orders : PlaceOrder(p)
      BY <2>3
    <3>2. ostate'[p] = "pending_new" /\ \A o \in Orders \ {p} : ostate'[o] = ostate[o]
      BY <3>1 DEF TypeOK, PlaceOrder
    <3>3. ~IsFinal("pending_new")
      BY DEF IsFinal
    <3> QED
      BY <1>1, <1>2, <2>1, <3>2, <3>3
  <2>4. CASE \E o \in Orders : RestoreOrder(o)
    <3>1. PICK p \in Orders : RestoreOrder(p)
      BY <2>4
    <3>2. ostate'[p] = "restored" /\ \A o \in Orders \ {p} : ostate'[o] = ostate[o]
      BY <3>1 DEF TypeOK, RestoreOrder
    <3>3. IsFinal("restored")
      BY DEF IsFinal
    <3> QED
      BY <1>1, <1>2, <2>1, <3>2, <3>3
  <2>5. \/ UNCHANGED ostate
        \/ \E o \in Orders : PlaceOrder(o)
        \/ \E o \in Orders : RestoreOrder(o)
    BY <1>6 DEF Next, vars, Loop, StartLoop, Top, PopEventHangs, PopEvent, PopEventReturns,
       QueueEmpty, ProcessCoro, ProcessMarket, ProcessMessage, ProcessException, ProcessQuit,
       ProcessNull, Broadcast, FlushBatches, FireTimer, TimersDone, Rest, Wake, ResumeNext,
       Resume, Suspend, Await, Sleep, SleepWithId, AwaitOperation, Finish, Call, Throw,
       PushIntoDyingSlot, PushEventHangs, Interrupt, CancelOrder, VarSet, Outside, Push, Complete, Launch,
       Report, Tick, GoTo, GoHolding, otherVars, orderVars
  <2> QED
    BY <2>2, <2>3, <2>4, <2>5
<1> QED
  BY <1>3, <1>4, <1>5, <1>6

(* Once everything written is committed, an order the strategy knows as    *)
(* final has no record and one reported open has one, at whatever point    *)
(* between a write and its commit the loop stands.                         *)
THEOREM RecordsFollowStates == Spec => []RecordFollowsState
<1>1. Init => RecordFollowsState
  BY DEF Init, RecordFollowsState
<1>2. TypeOK /\ RecordFollowsState /\ [Next]_vars => RecordFollowsState'
  BY RecordStep
<1> QED
  BY <1>1, <1>2, TypeCorrect, PTL DEF Spec

-----------------------------------------------------------------------------
(* What StrategyContext stores of an order that is done: for every value   *)
(* of its constants, the closing fill and the erasure of the record become *)
(* durable together, and nothing that is still under way brings the record *)
(* back.                                                                   *)

(* The updates of order o that are still to be processed: the event that   *)
(* has been popped, at position 0, and those of the queue.                 *)
Slots == (IF pc \in {"popping", "process"} THEN {0} ELSE {}) \cup 1..Len(queue)
PendingAt(i) == IF i = 0 THEN ev ELSE queue[i]
Updates(o) == {i \in Slots : PendingAt(i).kind = "update" /\ PendingAt(i).arg = o}
FinalAt(i) == IsFinal(PendingAt(i).state)

Fills == db.fills \cup batch.fills

(* Nothing is known of an order before it is placed.                       *)
Unplaced(o) ==
  exchange[o] = "none" =>
    ostate[o] = None /\ o \notin Stored /\ o \notin db.orders /\ o \notin Fills /\ Updates(o) = {}

(* A final update is the last one: the exchange has closed the order, and  *)
(* the updates that follow it, made by restore_open_orders, are final too. *)
FinalIsLast(o) ==
  /\ \A i \in Updates(o) : FinalAt(i) => exchange[o] = "closed"
  /\ \A i, j \in Updates(o) : i < j /\ FinalAt(i) => FinalAt(j)

(* An order whose closing fill has been written has no record any more,    *)
(* and nothing pending or known of it would write one.                     *)
FillClosed(o) ==
  /\ o \in Fills => /\ exchange[o] = "closed" /\ IsFinal(ostate[o]) /\ o \notin Stored
                    /\ \A i \in Updates(o) : FinalAt(i)
  /\ o \in db.fills => o \notin db.orders

Closing(o) == Unplaced(o) /\ FinalIsLast(o) /\ FillClosed(o)

SettledInv == \A o \in Orders : Closing(o)

-----------------------------------------------------------------------------
\* Which order states settle an order, and which leave it open.
LEMMA FinalStates ==
  /\ IsFinal("filled") /\ IsFinal("restored") /\ IsFinal(None)
  /\ ~IsFinal("open") /\ ~IsFinal("pending_new")
BY NamesDiffer DEF IsFinal, OrderState

(* A step after which no update of o is pending that was not, and those    *)
(* that are left are in the same order.                                    *)
Fewer(o) ==
  /\ \A i \in Updates(o)' : \E k \in Updates(o) : PendingAt(i)' = PendingAt(k)
  /\ \A i, j \in Updates(o)' : i < j =>
       \E k, l \in Updates(o) : k < l /\ PendingAt(i)' = PendingAt(k) /\ PendingAt(j)' = PendingAt(l)

\* A step that leaves queue and event alone adds no pending update.
LEMMA SamePending ==
  ASSUME UNCHANGED <<ev, queue>>, pc' \in {"popping", "process"} => pc \in {"popping", "process"}, NEW o
  PROVE  Fewer(o)
<1>1. \A i : PendingAt(i)' = PendingAt(i)
  BY DEF PendingAt
<1>2. Updates(o)' \subseteq Updates(o)
  BY <1>1 DEF Updates, Slots
<1> QED
  BY <1>1, <1>2 DEF Fewer

\* A step out of the processing of an event adds no pending update.
LEMMA TakenPending ==
  ASSUME UNCHANGED queue, queue \in Seq(Events), pc' \notin {"popping", "process"}, NEW o
  PROVE  Fewer(o)
<1>1. \A i \in 1..Len(queue) : i # 0 /\ PendingAt(i)' = PendingAt(i)
  BY DEF PendingAt
<1>2. Updates(o)' \subseteq Updates(o) /\ Updates(o)' \subseteq 1..Len(queue)
  BY <1>1 DEF Updates, Slots
<1> QED
  BY <1>1, <1>2 DEF Fewer

\* A push adds at most one pending update, behind the ones already queued.
LEMMA AppendedUpdates ==
  ASSUME UNCHANGED <<pc, ev>>, queue \in Seq(Events), NEW e, queue' = Append(queue, e), NEW o,
         NEW n \in Nat, n = Len(queue)
  PROVE  /\ e.kind = "update" /\ e.arg = o => Updates(o)' = Updates(o) \cup {n + 1}
         /\ ~(e.kind = "update" /\ e.arg = o) => Updates(o)' = Updates(o)
         /\ \A i \in Updates(o) : PendingAt(i)' = PendingAt(i) /\ i \in 0..n
         /\ PendingAt(n + 1)' = e
<1>1. Len(queue') = n + 1
  OBVIOUS
<1>2. queue'[n + 1] = e /\ \A i \in 1..n : queue'[i] = queue[i]
  OBVIOUS
<1>3. Slots' = Slots \cup {n + 1} /\ \A i \in Slots : i \in 0..n
  <2>1. 1..n + 1 = 1..n \cup {n + 1}
    OBVIOUS
  <2> QED
    BY <1>1, <2>1 DEF Slots
<1>4. PendingAt(n + 1)' = e /\ \A i \in 0..n : PendingAt(i)' = PendingAt(i)
  BY <1>2 DEF PendingAt
<1>5. \A i \in Updates(o) : PendingAt(i)' = PendingAt(i) /\ i \in 0..n
  BY <1>3, <1>4 DEF Updates
<1>6. \A i : i \in Updates(o)' <=>
             i \in Updates(o) \/ (i = n + 1 /\ e.kind = "update" /\ e.arg = o)
  BY <1>3, <1>4 DEF Updates
<1> QED
  BY <1>4, <1>5, <1>6

\* Pushing anything but an update of an order adds no pending update of it.
LEMMA AppendedOther ==
  ASSUME UNCHANGED <<pc, ev>>, queue \in Seq(Events), NEW e, queue' = Append(queue, e), NEW o,
         ~(e.kind = "update" /\ e.arg = o)
  PROVE  Fewer(o)
<1>1. PICK n \in Nat : n = Len(queue)
  OBVIOUS
<1>2. Updates(o)' = Updates(o) /\ \A i \in Updates(o) : PendingAt(i)' = PendingAt(i)
  BY <1>1, AppendedUpdates
<1> QED
  BY <1>2 DEF Fewer

\* Popping shifts the pending updates and adds none.
LEMMA PoppedUpdates ==
  ASSUME TypeOK, PopEvent, NEW o \in Orders
  PROVE  Fewer(o)
<1>1. /\ queue \in Seq(Events) /\ queue # <<>> /\ ev' = queue[1] /\ queue' = Popped /\ pc = "drain"
  BY DEF TypeOK, PopEvent
<1>2. Len(queue) \in Nat /\ Len(queue) >= 1 /\ \A i \in 1..Len(queue) : queue[i] \in Events
  BY <1>1
<1>3. PICK n \in Nat : n = Len(queue) - 1
  BY <1>2
<1>4. queue' = [i \in 1..n |-> IF i = 1 THEN [queue[1] EXCEPT !.arg = None] ELSE queue[i]]
  BY <1>1, <1>3 DEF Popped
<1>5. Len(queue') = n
  <2>1. queue' \in Seq(Events)
    BY <1>1, PoppedIsQueue
  <2>2. DOMAIN queue' = 1..n /\ DOMAIN queue' = 1..Len(queue') /\ Len(queue') \in Nat
    BY <1>4, <2>1
  <2> QED
    BY <2>2
<1>6. n >= 1 => queue'[1].arg # o
  <2>1. [queue[1] EXCEPT !.arg = None].arg = None
    BY <1>2 DEF Events
  <2>2. n >= 1 => queue'[1] = [queue[1] EXCEPT !.arg = None]
    BY <1>4
  <2>3. None # o
    BY NamesDiffer
  <2> QED
    BY <2>1, <2>2, <2>3
<1>7. \A i \in 2..n : queue'[i] = queue[i]
  BY <1>4
<1>8. Slots = 1..Len(queue) /\ Slots' \subseteq 0..n
  BY <1>1, <1>2, <1>5 DEF Slots
<1>9. \A i \in Updates(o)' : \/ i = 0 /\ 1 \in Updates(o) /\ PendingAt(0)' = PendingAt(1)
                             \/ i \in 2..n /\ i \in Updates(o) /\ PendingAt(i)' = PendingAt(i)
  <2> SUFFICES ASSUME NEW i \in 0..n, PendingAt(i)'.kind = "update", PendingAt(i)'.arg = o
               PROVE  \/ i = 0 /\ 1 \in Updates(o) /\ PendingAt(0)' = PendingAt(1)
                      \/ i \in 2..n /\ i \in Updates(o) /\ PendingAt(i)' = PendingAt(i)
    BY <1>8 DEF Updates
  <2>1. CASE i = 0
    BY <1>1, <1>2, <1>8, <2>1 DEF PendingAt, Updates
  <2>2. CASE i = 1
    BY <1>6, <2>2 DEF PendingAt
  <2>3. CASE i \in 2..n
    <3>1. PendingAt(i)' = PendingAt(i)
      BY <1>7, <2>3 DEF PendingAt
    <3>2. i \in Slots
      BY <1>2, <1>3, <1>8, <2>3
    <3> QED
      BY <2>3, <3>1, <3>2 DEF Updates
  <2> QED
    BY <2>1, <2>2, <2>3
<1> QED
  BY <1>9 DEF Fewer

(* The part of the invariant that is about one order, as what it reads.    *)
LEMMA ClosingFrame ==
  ASSUME NEW o \in Orders, Closing(o), Fewer(o),
         exchange'[o] = exchange[o], ostate'[o] = ostate[o],
         o \in Stored' <=> o \in Stored,
         o \in db'.orders => o \in db.orders \/ o \in Stored,
         o \in db'.fills => o \in db.fills \/ (o \in Fills /\ (o \in db'.orders => o \in Stored)),
         o \in Fills' => o \in Fills
  PROVE  Closing(o)'
<1>1. \A i \in Updates(o)' : \E k \in Updates(o) : FinalAt(i)' = FinalAt(k)
  BY DEF Fewer, FinalAt
<1>2. \A i, j \in Updates(o)' : i < j =>
        \E k, l \in Updates(o) : k < l /\ FinalAt(i)' = FinalAt(k) /\ FinalAt(j)' = FinalAt(l)
  BY DEF Fewer, FinalAt
<1>3. Unplaced(o)'
  BY <1>1 DEF Closing, Unplaced
<1>4. FinalIsLast(o)'
  BY <1>1, <1>2 DEF Closing, FinalIsLast
<1>5. FillClosed(o)'
  BY <1>1 DEF Closing, FillClosed, Fills
<1> QED
  BY <1>3, <1>4, <1>5 DEF Closing

-----------------------------------------------------------------------------
(* The steps that neither write a record nor change what is known of an    *)
(* order. *)

Aside ==
  \/ Loop /\ ~ProcessOrder /\ ~ProcessUpdate
  \/ ResumeNext \/ Suspend \/ Throw \/ PushIntoDyingSlot \/ PushEventHangs
  \/ \E id \in 0..MaxTimer : Interrupt(id)
  \/ \E o \in Orders : CancelOrder(o)
  \/ \E v \in Vars, x \in Vals : VarSet(v, x)
  \/ \E k \in Kinds : Push(k)
  \/ \E c \in Coros : Complete(c) \/ Launch(c)
  \/ Tick \/ UNCHANGED vars

\* The steps aside from orders change neither the exchange nor the known states.
LEMMA AsideKnows ==
  ASSUME Aside
  PROVE  UNCHANGED <<exchange, ostate>>
BY DEF Aside, Loop, StartLoop, Top, PopEventHangs, PopEvent, PopEventReturns, QueueEmpty,
   ProcessCoro, ProcessMarket, ProcessMessage, ProcessException, ProcessQuit, ProcessNull,
   Broadcast, FlushBatches, FireTimer, TimersDone, Rest, Wake, GoTo, GoHolding, ResumeNext, Resume, Suspend,
   Await, Sleep, SleepWithId, AwaitOperation, Finish, Throw, PushIntoDyingSlot, PushEventHangs, Interrupt,
   CancelOrder, VarSet, Push, Complete, Launch, Tick, vars, otherVars, orderVars

\* The steps aside from orders make durable only what was stored or batched, record and fill together.
LEMMA AsideStores ==
  ASSUME TypeOK, Aside, NEW o \in Orders
  PROVE  /\ o \in db'.orders => o \in db.orders \/ o \in Stored
         /\ o \in db'.fills => o \in db.fills \/ (o \in Fills /\ (o \in db'.orders => o \in Stored))
         /\ o \in Fills' => o \in Fills
<1>1. CASE FlushBatches
  BY <1>1 DEF FlushBatches, Committed, EmptyBatch, Stored, Fills
<1>2. CASE \E v \in Vars, x \in Vals : VarSet(v, x)
  <2>1. UNCHANGED db /\ batch'.fills = batch.fills
    BY <1>2 DEF VarSet, TypeOK
  <2> QED
    BY <2>1 DEF Fills
<1>3. CASE UNCHANGED storeVars
  BY <1>3 DEF storeVars, Fills
<1> QED
  BY <1>1, <1>2, <1>3
  DEF Aside, Loop, StartLoop, Top, PopEventHangs, PopEvent, PopEventReturns, QueueEmpty,
      ProcessCoro, ProcessMarket, ProcessMessage, ProcessException, ProcessQuit, ProcessNull,
      Broadcast, FireTimer, TimersDone, Rest, Wake, GoTo, GoHolding, ResumeNext, Resume, Suspend,
      Await, Sleep, SleepWithId, AwaitOperation, Finish, Throw, PushIntoDyingSlot, PushEventHangs, Interrupt,
      CancelOrder, Push, Complete, Launch, Tick, vars, otherVars

\* The steps aside from orders add no pending update.
LEMMA AsideFewer ==
  ASSUME TypeOK, Aside, NEW o \in Orders
  PROVE  Fewer(o)
<1>1. queue \in Seq(Events)
  BY DEF TypeOK
<1>2. CASE Loop /\ ~ProcessOrder /\ ~ProcessUpdate
  <2>1. CASE PopEvent
    BY <2>1, PoppedUpdates
  <2>2. CASE ProcessCoro \/ ProcessMarket \/ ProcessMessage \/ ProcessException \/ ProcessQuit
    BY <1>1, <2>2, TakenPending
    DEF ProcessCoro, ProcessMarket, ProcessMessage, ProcessException, ProcessQuit, Process, queueVars
  <2>3. CASE \/ StartLoop \/ Top \/ PopEventHangs \/ PopEventReturns \/ QueueEmpty \/ ProcessNull
             \/ Broadcast \/ FlushBatches \/ FireTimer \/ TimersDone \/ Rest \/ Wake
    <3>1. UNCHANGED <<ev, queue>>
      BY <2>3 DEF StartLoop, Top, PopEventHangs, PopEventReturns, QueueEmpty, ProcessNull,
         Broadcast, FlushBatches, FireTimer, TimersDone, Rest, Wake, GoTo, GoHolding, queueVars
    <3>2. pc' \in {"popping", "process"} => pc \in {"popping", "process"}
      BY <2>3 DEF StartLoop, Top, PopEventHangs, PopEventReturns, QueueEmpty, ProcessNull,
         Broadcast, FlushBatches, FireTimer, TimersDone, Rest, Wake, GoTo, GoHolding, Delivering
    <3> QED
      BY <3>1, <3>2, SamePending
  <2> QED
    BY <1>2, <2>1, <2>2, <2>3 DEF Loop
<1>3. CASE \/ ResumeNext \/ Suspend \/ (\E p \in Orders : CancelOrder(p)) \/ PushIntoDyingSlot \/ PushEventHangs
           \/ (\E v \in Vars, x \in Vals : VarSet(v, x)) \/ (\E c \in Coros : Launch(c))
           \/ Tick \/ UNCHANGED vars
  <2>1. UNCHANGED <<ev, queue>>
    BY <1>3 DEF ResumeNext, Resume, Suspend, Await, Sleep, SleepWithId, AwaitOperation, Finish,
       CancelOrder, PushIntoDyingSlot, PushEventHangs, VarSet, Launch, Tick, GoTo, GoHolding, vars, loopVars, queueVars
  <2>2. pc' = pc \/ pc' \in {"hung", "crashed"}
    BY <1>3 DEF ResumeNext, Resume, Suspend, Await, Sleep, SleepWithId, AwaitOperation, Finish,
       CancelOrder, PushIntoDyingSlot, PushEventHangs, VarSet, Launch, Tick, GoTo, GoHolding, vars, loopVars
  <2> QED
    BY <2>1, <2>2, SamePending
<1>4. CASE Throw \/ (\E id \in 0..MaxTimer : Interrupt(id)) \/ (\E k \in Kinds : Push(k))
           \/ (\E c \in Coros : Complete(c))
  <2>1. UNCHANGED <<pc, ev>>
    BY <1>4 DEF Throw, Interrupt, Push, Complete, loopVars
  <2>2. queue' = queue \/ \E kind, arg :
                            /\ kind \in {"coro", "market", "order", "message", "exception", "quit"}
                            /\ queue' = Append(queue, Event(kind, arg))
    BY <1>4 DEF Throw, Interrupt, Push, Complete, PushEvent, queueVars
  <2>3. CASE queue' = queue
    BY <2>1, <2>3, SamePending
  <2>4. ASSUME NEW kind \in {"coro", "market", "order", "message", "exception", "quit"}, NEW arg,
               queue' = Append(queue, Event(kind, arg))
        PROVE  Fewer(o)
    <3>1. Event(kind, arg).kind # "update"
      BY DEF Event
    <3> QED
      BY <1>1, <2>1, <2>4, <3>1, AppendedOther
  <2> QED
    BY <2>2, <2>3, <2>4
<1> QED
  BY <1>2, <1>3, <1>4 DEF Aside

\* So the steps aside from orders keep the invariant.
LEMMA ClosingByAside ==
  ASSUME TypeOK, SettledInv, Aside
  PROVE  SettledInv'
<1>1. Stored' = Stored
  <2>1. [Next]_vars /\ ~ProcessOrder /\ ~ProcessUpdate /\ ~Restart
    <3>1. [Next]_vars
      BY DEF Aside, Next, Call, Outside
    <3>2. ~ProcessOrder /\ ~ProcessUpdate
      BY DEF Aside, ProcessOrder, ProcessUpdate, Process, ResumeNext, Resume, Suspend, Await, Sleep,
         SleepWithId, AwaitOperation, Finish, Throw, PushIntoDyingSlot, PushEventHangs, Interrupt, CancelOrder, VarSet,
         Push, Complete, Launch, Tick, GoTo, GoHolding, vars, loopVars
    <3>3. restarts' = restarts
      BY DEF Aside, Loop, StartLoop, Top, PopEventHangs, PopEvent, PopEventReturns, QueueEmpty,
         ProcessCoro, ProcessMarket, ProcessMessage, ProcessException, ProcessQuit, ProcessNull,
         Broadcast, FlushBatches, FireTimer, TimersDone, Rest, Wake, ResumeNext, Resume, Suspend,
         Await, Sleep, SleepWithId, AwaitOperation, Finish, Throw, PushIntoDyingSlot, PushEventHangs, Interrupt,
         CancelOrder, VarSet, Push, Complete, Launch, Tick, GoTo, GoHolding, vars, otherVars, envVars
    <3>4. ~Restart
      BY <3>3 DEF Restart, TypeOK
    <3> QED
      BY <3>1, <3>2, <3>4
  <2> QED
    BY <2>1, StoredFrame
<1> QED
  BY <1>1, AsideKnows, AsideStores, AsideFewer, ClosingFrame DEF SettledInv

-----------------------------------------------------------------------------
(* The steps that do. *)

\* Pending updates are numbered by their slots in the queue.
LEMMA UpdatesAreSlots ==
  ASSUME TypeOK, NEW o
  PROVE  Updates(o) \subseteq Nat
BY DEF TypeOK, Updates, Slots

\* Storing an update with its fills keeps the invariant: record and fill go into one batch.
LEMMA ClosingByProcessOrder ==
  ASSUME TypeOK, SettledInv, ProcessOrder
  PROVE  SettledInv'
<1>1. PICK p \in Orders : p = ev.arg
  BY EventArgs DEF TypeOK, ProcessOrder, Process
<1>2. UNCHANGED <<exchange, ostate, db, queue>> /\ pc' = "event out"
  BY DEF ProcessOrder, Process, orderVars, queueVars
<1>3. batch' = StoreOrder(batch, p, ostate[p], {})
  BY <1>1 DEF ProcessOrder
<1>4. Fills' = Fills
  BY <1>2, <1>3 DEF StoreOrder, Fills, TypeOK
<1>5. Stored' = IF IsFinal(ostate[p]) THEN Stored \ {p} ELSE Stored \cup {p}
  BY <1>2, <1>3, StoredOrder DEF Stored
<1>6. \A o \in Orders : Fewer(o)
  BY <1>2, TakenPending DEF TypeOK
<1>7. \A o \in Orders \ {p} : Closing(o)'
  BY <1>2, <1>4, <1>5, <1>6, ClosingFrame DEF SettledInv
<1>8. Closing(p) /\ Fewer(p)
  BY <1>6 DEF SettledInv
<1>9. Unplaced(p)'
  BY <1>2, <1>4, <1>5, <1>8, FinalStates DEF Closing, Unplaced, Fewer
<1>10. FinalIsLast(p)'
  BY <1>2, <1>8, ZenonT(60) DEF Closing, FinalIsLast, Fewer, FinalAt
<1>11. FillClosed(p)'
  <2>1. p \in Fills' => \A i \in Updates(p)' : FinalAt(i)'
    BY <1>4, <1>8 DEF Closing, FillClosed, Fewer, FinalAt
  <2> QED
    BY <1>2, <1>4, <1>5, <1>8, <2>1 DEF Closing, FillClosed
<1> QED
  BY <1>7, <1>9, <1>10, <1>11 DEF SettledInv, Closing

(* A closing fill comes with a final state, and the exchange sends no      *)
(* other after it.                                                         *)
LEMMA ClosingByProcessUpdate ==
  ASSUME TypeOK, SettledInv, ProcessUpdate
  PROVE  SettledInv'
<1>1. PICK p \in Orders : p = ev.arg
  BY EventArgs DEF TypeOK, ProcessUpdate, Process
<1>2. /\ UNCHANGED <<exchange, db, queue>> /\ pc' = "event out" /\ pc = "process"
      /\ ev.kind = "update"
      /\ \A o \in Orders \ {p} : ostate'[o] = ostate[o]
      /\ ostate'[p] = ev.state
  BY <1>1 DEF ProcessUpdate, Process, queueVars, TypeOK
<1> DEFINE done == IF ev.state = "filled" THEN {p} ELSE {}
<1>3. batch' = StoreOrder(batch, p, ev.state, done)
  BY <1>1 DEF ProcessUpdate
<1>4. done \in SUBSET {p} /\ (done # {} => ev.state = "filled")
  OBVIOUS
<1> HIDE DEF done
<1>5. /\ Fills' = Fills \cup done
      /\ db'.fills = db.fills
  BY <1>2, <1>3 DEF StoreOrder, Fills, TypeOK
<1>6. Stored' = IF IsFinal(ev.state) THEN Stored \ {p} ELSE Stored \cup {p}
  BY <1>2, <1>3, StoredOrder, ZenonT(60) DEF Stored
<1>7. \A o \in Orders : Fewer(o)
  BY <1>2, TakenPending DEF TypeOK
<1>8. \A o \in Orders \ {p} : Closing(o)'
  BY <1>2, <1>4, <1>5, <1>6, <1>7, ClosingFrame DEF SettledInv
<1>9. Closing(p) /\ Fewer(p)
  BY <1>7 DEF SettledInv
<1>10. 0 \in Updates(p) /\ (FinalAt(0) <=> IsFinal(ev.state))
  BY <1>1, <1>2 DEF Updates, Slots, PendingAt, FinalAt
<1>11. Unplaced(p)'
  BY <1>2, <1>9, <1>10 DEF Closing, Unplaced
<1>12. FinalIsLast(p)'
  BY <1>2, <1>9 DEF Closing, FinalIsLast, Fewer, FinalAt
<1>13. FillClosed(p)'
  <2>1. ASSUME p \in Fills'
        PROVE  exchange[p] = "closed" /\ IsFinal(ev.state)
    BY <1>4, <1>5, <1>9, <1>10, <2>1, FinalStates DEF Closing, FinalIsLast, FillClosed
  <2>2. IsFinal(ev.state) => \A i \in Updates(p) : FinalAt(i)
    BY <1>9, <1>10, UpdatesAreSlots DEF Closing, FinalIsLast
  <2>3. p \in Fills' => \A i \in Updates(p)' : FinalAt(i)'
    BY <1>9, <2>1, <2>2 DEF Fewer, FinalAt
  <2>4. p \in db'.fills => p \notin db'.orders
    BY <1>2, <1>9 DEF Closing, FillClosed
  <2> QED
    BY <1>2, <1>6, <2>1, <2>3, <2>4 DEF FillClosed
<1> QED
  BY <1>8, <1>11, <1>12, <1>13 DEF SettledInv, Closing

\* Placing an order keeps the invariant: the exchange did not know the order.
LEMMA ClosingByPlaceOrder ==
  ASSUME TypeOK, SettledInv, NEW p \in Orders, PlaceOrder(p)
  PROVE  SettledInv'
<1>1. /\ UNCHANGED <<db, batch, ev, queue, pc>> /\ exchange[p] = "none"
      /\ \A o \in Orders \ {p} : ostate'[o] = ostate[o] /\ exchange'[o] = exchange[o]
      /\ exchange'[p] = "open"
  BY DEF PlaceOrder, TypeOK, loopVars, queueVars, storeVars
<1>2. Stored' = Stored /\ Fills' = Fills
  BY <1>1 DEF Stored, Fills
<1>3. \A o \in Orders : Fewer(o)
  BY <1>1, SamePending
<1>4. \A o \in Orders \ {p} : Closing(o)'
  BY <1>1, <1>2, <1>3, ClosingFrame DEF SettledInv
<1>5. p \notin Fills /\ Updates(p) = {}
  BY <1>1 DEF SettledInv, Closing, Unplaced
<1>6. p \notin Fills' /\ Updates(p)' = {} /\ p \notin db'.fills
  BY <1>2, <1>3, <1>5 DEF Fewer, Fills
<1>7. Closing(p)'
  BY <1>1, <1>6 DEF Closing, Unplaced, FinalIsLast, FillClosed
<1> QED
  BY <1>4, <1>7 DEF SettledInv

(* An update that is appended closes the order or leaves it open; an order *)
(* the exchange has closed gets final updates only.                        *)
LEMMA ClosingByUpdate ==
  ASSUME TypeOK, SettledInv, NEW p \in Orders, NEW s,
         UNCHANGED <<db, batch, pc, ev>>,
         PushEvent([kind |-> "update", arg |-> p, state |-> s]),
         \A o \in Orders \ {p} : ostate'[o] = ostate[o] /\ exchange'[o] = exchange[o],
         IsFinal(ostate[p]) => IsFinal(ostate'[p]),
         exchange[p] # "none", exchange'[p] # "none",
         exchange[p] = "closed" => exchange'[p] = "closed",
         IsFinal(s) <=> exchange'[p] = "closed"
  PROVE  SettledInv'
<1>1. PICK e : e = [kind |-> "update", arg |-> p, state |-> s]
  OBVIOUS
<1>2. queue' = Append(queue, e) /\ queue \in Seq(Events)
  BY <1>1 DEF PushEvent, TypeOK
<1>3. e.kind = "update" /\ e.arg = p /\ e.state = s
  BY <1>1
<1>4. Stored' = Stored /\ Fills' = Fills
  BY DEF Stored, Fills
<1>5. \A o \in Orders \ {p} : Fewer(o)
  BY <1>2, <1>3, AppendedOther
<1>6. \A o \in Orders \ {p} : Closing(o)'
  BY <1>4, <1>5, ClosingFrame DEF SettledInv
<1>7. PICK n \in Nat : n = Len(queue)
  BY <1>2
<1>8. /\ Updates(p)' = Updates(p) \cup {n + 1}
      /\ \A i \in Updates(p) : PendingAt(i)' = PendingAt(i) /\ i \in 0..n
      /\ PendingAt(n + 1)' = e
  <2>1. UNCHANGED <<pc, ev>> /\ e.kind = "update" /\ e.arg = p
    BY <1>3
  <2>2. Updates(p)' = Updates(p) \cup {n + 1}
    BY <1>2, <1>7, <2>1, AppendedUpdates
  <2>3. \A i \in Updates(p) : PendingAt(i)' = PendingAt(i) /\ i \in 0..n
    BY <1>2, <1>7, <2>1, AppendedUpdates
  <2>4. PendingAt(n + 1)' = e
    BY <1>2, <1>7, <2>1, AppendedUpdates
  <2> QED
    BY <2>2, <2>3, <2>4
<1>9. /\ \A i \in Updates(p) : (FinalAt(i)' <=> FinalAt(i)) /\ i \in 0..n
      /\ FinalAt(n + 1)' <=> IsFinal(s)
  BY <1>3, <1>8 DEF FinalAt
<1>10. Closing(p)
  BY DEF SettledInv
<1>11. Unplaced(p)'
  BY DEF Unplaced
<1>12. FinalIsLast(p)'
  <2>1. \A i \in Updates(p)' : FinalAt(i)' => exchange'[p] = "closed"
    BY <1>8, <1>9, <1>10 DEF Closing, FinalIsLast
  <2>2. \A i, j \in Updates(p)' : i < j /\ FinalAt(i)' => FinalAt(j)'
    <3> SUFFICES ASSUME NEW i \in Updates(p)', NEW j \in Updates(p)', i < j, FinalAt(i)'
                 PROVE  FinalAt(j)'
      OBVIOUS
    <3>1. CASE j = n + 1
      BY <1>9, <2>1, <3>1
    <3>2. CASE j # n + 1
      <4>1. i \in Updates(p) /\ j \in Updates(p)
        BY <1>8, <3>2
      <4> QED
        BY <1>9, <1>10, <4>1 DEF Closing, FinalIsLast
    <3> QED
      BY <3>1, <3>2
  <2> QED
    BY <2>1, <2>2 DEF FinalIsLast
<1>13. FillClosed(p)'
  BY <1>4, <1>8, <1>9, <1>10 DEF Closing, FillClosed
<1> QED
  BY <1>6, <1>11, <1>12, <1>13 DEF SettledInv, Closing

\* Restoring a stored order keeps the invariant.
LEMMA ClosingByRestoreOrder ==
  ASSUME TypeOK, SettledInv, NEW p \in Orders, RestoreOrder(p)
  PROVE  SettledInv'
<1>1. /\ UNCHANGED <<db, batch, pc, ev, exchange>> /\ p \in db.orders
      /\ PushEvent([kind |-> "update", arg |-> p,
                    state |-> IF exchange[p] = "open" THEN "open" ELSE "filled"])
      /\ \A o \in Orders \ {p} : ostate'[o] = ostate[o]
      /\ ostate'[p] = "restored"
  BY DEF RestoreOrder, TypeOK, loopVars, storeVars
<1>2. exchange[p] \in {"open", "closed"}
  BY <1>1 DEF TypeOK, SettledInv, Closing, Unplaced
<1>3. CASE exchange[p] = "open"
  BY <1>1, <1>3, FinalStates, ClosingByUpdate
<1>4. CASE exchange[p] = "closed"
  BY <1>1, <1>4, FinalStates, ClosingByUpdate
<1> QED
  BY <1>2, <1>3, <1>4

\* A report of the exchange keeps the invariant: its update is queued behind the earlier ones.
LEMMA ClosingByReport ==
  ASSUME TypeOK, SettledInv, NEW p \in Orders, NEW s, Report(p, s)
  PROVE  SettledInv'
<1>1. /\ UNCHANGED <<db, batch, pc, ev, ostate>> /\ exchange[p] = "open"
      /\ \A o \in Orders \ {p} : exchange'[o] = exchange[o]
      /\ exchange'[p] = IF IsFinal(s) THEN "closed" ELSE "open"
  BY DEF Report, TypeOK, loopVars, storeVars
<1>2. CASE ostate[p] # None
  <2>1. PushEvent([kind |-> "update", arg |-> p, state |-> s])
    BY <1>2 DEF Report
  <2> QED
    BY <1>1, <2>1, ClosingByUpdate
<1>3. CASE UNCHANGED queue
  <2>1. \A o \in Orders : Fewer(o)
    BY <1>1, <1>3, SamePending
  <2>2. Stored' = Stored /\ Fills' = Fills
    BY <1>1 DEF Stored, Fills
  <2>3. \A o \in Orders \ {p} : Closing(o)'
    BY <1>1, <2>1, <2>2, ClosingFrame DEF SettledInv
  <2>4. Closing(p) /\ Fewer(p)
    BY <2>1 DEF SettledInv
  <2>5. p \notin Fills /\ \A i \in Updates(p) : ~FinalAt(i)
    BY <1>1, <2>4 DEF Closing, FinalIsLast, FillClosed
  <2>6. p \notin Fills' /\ p \notin db'.fills /\ \A i \in Updates(p)' : ~FinalAt(i)'
    BY <2>2, <2>4, <2>5 DEF Fewer, FinalAt, Fills
  <2>7. Closing(p)'
    BY <1>1, <2>6 DEF Closing, Unplaced, FinalIsLast, FillClosed
  <2> QED
    BY <2>3, <2>7 DEF SettledInv
<1> QED
  BY <1>2, <1>3 DEF Report, queueVars

(* The process that is started again knows of no update and of what is     *)
(* durable only.                                                           *)
LEMMA ClosingByRestart ==
  ASSUME TypeOK, SettledInv, Restart
  PROVE  SettledInv'
<1>1. /\ UNCHANGED <<db, exchange>> /\ batch' = EmptyBatch /\ pc' = "start" /\ queue' = <<>>
      /\ \A o \in Orders : ostate'[o] = None
  BY DEF Restart
<1>2. Fills' = db.fills /\ Stored' = {o \in Orders : o \in db.orders}
  <2>1. \A o \in Orders : EmptyBatch.orders[o] = None
    BY DEF EmptyBatch
  <2>2. EmptyBatch.fills = {}
    BY DEF EmptyBatch
  <2> QED
    BY <1>1, <2>1, <2>2, NamesDiffer DEF Fills, Stored, Committed
<1>3. \A o \in Orders : Updates(o)' = {}
  BY <1>1 DEF Updates, Slots
<1>4. \A o \in Orders : Closing(o) /\ (o \in db.fills => o \in Fills)
  BY DEF SettledInv, Fills
<1> QED
  BY <1>1, <1>2, <1>3, <1>4, FinalStates
  DEF SettledInv, Closing, Unplaced, FinalIsLast, FillClosed

\* Every step keeps the invariant.
LEMMA SettledStep == TypeOK /\ SettledInv /\ [Next]_vars => SettledInv'
<1> SUFFICES ASSUME TypeOK, SettledInv, [Next]_vars PROVE SettledInv'
  OBVIOUS
<1>1. CASE Aside
  BY <1>1, ClosingByAside
<1>2. CASE ProcessOrder
  BY <1>2, ClosingByProcessOrder
<1>3. CASE ProcessUpdate
  BY <1>3, ClosingByProcessUpdate
<1>4. CASE \E p \in Orders : PlaceOrder(p)
  BY <1>4, ClosingByPlaceOrder
<1>5. CASE \E p \in Orders : RestoreOrder(p)
  BY <1>5, ClosingByRestoreOrder
<1>6. CASE \E p \in Orders, s \in Reports : Report(p, s)
  BY <1>6, ClosingByReport
<1>7. CASE Restart
  BY <1>7, ClosingByRestart
<1> QED
  BY <1>1, <1>2, <1>3, <1>4, <1>5, <1>6, <1>7 DEF Aside, Next, Call, Outside

\* The invariant holds at the start.
LEMMA SettledInit == Init => SettledInv
<1> SUFFICES ASSUME Init PROVE SettledInv
  OBVIOUS
<1>1. /\ batch = EmptyBatch /\ pc = "start" /\ queue = <<>> /\ db.orders = {} /\ db.fills = {}
      /\ \A o \in Orders : ostate[o] = None /\ exchange[o] = "none"
  BY DEF Init
<1>2. Fills = {} /\ Stored = {}
  <2>1. \A o \in Orders : EmptyBatch.orders[o] = None
    BY DEF EmptyBatch
  <2>2. EmptyBatch.fills = {}
    BY DEF EmptyBatch
  <2> QED
    BY <1>1, <2>1, <2>2, NamesDiffer DEF Fills, Stored, Committed
<1>3. \A o \in Orders : Updates(o) = {}
  BY <1>1 DEF Updates, Slots
<1> QED
  BY <1>1, <1>2, <1>3, FinalStates DEF SettledInv, Closing, Unplaced, FinalIsLast, FillClosed

(* Wherever the process dies, an order whose closing fill is in the        *)
(* database has no record there from which a restart would restore it as   *)
(* open: what process_event writes is committed together, and no update    *)
(* that is processed later writes the record again.                        *)
THEOREM FillsSettle == Spec => []SettledTogether
<1>1. SettledInv /\ TypeOK => SettledTogether
  <2> SUFFICES ASSUME SettledInv, TypeOK, NEW o \in db.fills, o \in db.orders PROVE FALSE
    BY DEF SettledTogether
  <2>1. o \in Orders
    BY DEF TypeOK
  <2> QED
    BY <2>1 DEF SettledInv, Closing, FillClosed
<1> QED
  BY <1>1, SettledInit, SettledStep, TypeCorrect, PTL DEF Spec

-----------------------------------------------------------------------------
(* Who holds the handles of the coroutines: for every value of the         *)
(* constants, exactly one place, so that no coroutine is lost and none is  *)
(* resumed twice.                                                          *)

(* The places that can hold the handle of coroutine c.                     *)
IsCoro(e, c) == e.kind = "coro" /\ e.arg = c

Waiting(c)  == \E d \in Dists : c \in waiters[d]
Sleeping(c) == \E t \in timers : t.coro = c
Queued(c)   == \E i \in 1..Len(queue) : IsCoro(queue[i], c)

PlaceNames == {"life", "running", "resuming", "operation", "waits", "sleeps", "queued", "event"}

Place(c, p) ==
  \/ p = "life" /\ life[c] # "live"
  \/ p = "running" /\ cur = c
  \/ p = "resuming" /\ c \in resuming
  \/ p = "operation" /\ c \in ops
  \/ p = "waits" /\ Waiting(c)
  \/ p = "sleeps" /\ Sleeping(c)
  \/ p = "queued" /\ Queued(c)
  \/ p = "event" /\ IsCoro(ev, c)

HeldIn(c, p) == \A q \in PlaceNames : Place(c, q) <=> q = p

(* Within a place it is held once: one distributor, one timer, one event.  *)
OneWait(c)  == \A d, e \in Dists : c \in waiters[d] /\ c \in waiters[e] => d = e
OneTimer(c) == \A t, u \in timers : t.coro = c /\ u.coro = c => t = u
OneQueued(c) == \A i, j \in 1..Len(queue) : IsCoro(queue[i], c) /\ IsCoro(queue[j], c) => i = j

Held(c) == OneWait(c) /\ OneTimer(c) /\ OneQueued(c) /\ \E p \in PlaceNames : HeldIn(c, p)

(* The loop overwrites the event only when its handle has been taken, and  *)
(* the list of the coroutines to resume only when it is empty.             *)
EventTaken == ev.kind = "coro" /\ ev.arg # None => pc \in {"popping", "process", "hung"}
ResumedFirst == resuming # {} => pc \in Delivering \cup {"popping", "hung"}

HeldInv == pc # "crashed" => EventTaken /\ ResumedFirst /\ \A c \in Coros : Held(c)

-----------------------------------------------------------------------------
\* None stands for no coroutine.
LEMMA NoneIsNoCoro == None \notin Coros
BY NamesDiffer

(* A step after which every place holds what it held.                      *)
LEMMA HeldFrame ==
  ASSUME NEW c \in Coros, Held(c),
         UNCHANGED <<life, cur, resuming, ops, waiters, timers, queue, ev>>
  PROVE  Held(c)'
BY DEF Held, OneWait, OneTimer, OneQueued, HeldIn, Place, Waiting, Sleeping, Queued, IsCoro

(* A step that moves the handle from one place to another.                 *)
LEMMA HeldMove ==
  ASSUME NEW c \in Coros, Held(c), OneWait(c)', OneTimer(c)', OneQueued(c)',
         NEW p \in PlaceNames, NEW q \in PlaceNames, p # q, Place(c, p), ~Place(c, p)', Place(c, q)',
         \A r \in PlaceNames \ {p, q} : Place(c, r)' <=> Place(c, r)
  PROVE  Held(c)'
<1>1. HeldIn(c, p)
  BY DEF Held, HeldIn
<1>2. HeldIn(c, q)'
  BY <1>1 DEF HeldIn
<1> QED
  BY <1>2 DEF Held

(* A step that leaves every place as it was for c.                         *)
LEMMA HeldSame ==
  ASSUME NEW c \in Coros, Held(c), OneWait(c)', OneTimer(c)', OneQueued(c)',
         \A r \in PlaceNames : Place(c, r)' <=> Place(c, r)
  PROVE  Held(c)'
BY DEF Held, HeldIn

(* What appending an event does to the queued handles.                     *)
LEMMA Appended ==
  ASSUME NEW c \in Coros, queue \in Seq(Events), NEW e, queue' = Append(queue, e)
  PROVE  /\ Queued(c)' <=> Queued(c) \/ IsCoro(e, c)
         /\ OneQueued(c) /\ ~(Queued(c) /\ IsCoro(e, c)) => OneQueued(c)'
<1>1. Len(queue) \in Nat /\ Len(queue') = Len(queue) + 1
  OBVIOUS
<1>2. queue'[Len(queue) + 1] = e /\ \A i \in 1..Len(queue) : queue'[i] = queue[i]
  OBVIOUS
<1>3. 1..Len(queue') = 1..Len(queue) \cup {Len(queue) + 1}
  BY <1>1
<1> QED
  BY <1>1, <1>2, <1>3 DEF Queued, OneQueued

(* What pop_event leaves of them: front and back are gone, the rest keeps  *)
(* its place.                                                              *)
LEMMA PoppedHandles ==
  ASSUME NEW c \in Coros, queue \in Seq(Events), queue # <<>>, queue' = Popped
  PROVE  /\ Queued(c)' <=> \E i \in 2..Len(queue) - 1 : IsCoro(queue[i], c)
         /\ OneQueued(c) => OneQueued(c)'
         /\ c \in DroppedCoro <=> Len(queue) > 1 /\ IsCoro(queue[Len(queue)], c)
<1>1. Len(queue) \in Nat /\ Len(queue) >= 1
  OBVIOUS
<1>2. \A i \in 1..Len(queue) : queue[i] \in Events
  OBVIOUS
<1>3. PICK n \in Nat : n = Len(queue) - 1
  BY <1>1
<1>4. queue' = [i \in 1..n |-> IF i = 1 THEN [queue[1] EXCEPT !.arg = None] ELSE queue[i]]
  BY <1>3 DEF Popped
<1>5. Len(queue') = n
  <2>1. queue' \in Seq(Events)
    BY PoppedIsQueue
  <2>2. DOMAIN queue' = 1..n /\ DOMAIN queue' = 1..Len(queue') /\ Len(queue') \in Nat
    BY <1>4, <2>1
  <2> QED
    BY <2>2
<1>6. ~IsCoro([queue[1] EXCEPT !.arg = None], c)
  BY <1>1, <1>2, NoneIsNoCoro DEF IsCoro, Events
<1>7. \A i \in 1..n : IsCoro(queue'[i], c) <=> i >= 2 /\ IsCoro(queue[i], c)
  BY <1>4, <1>6
<1>8. Queued(c)' <=> \E i \in 2..Len(queue) - 1 : IsCoro(queue[i], c)
  BY <1>1, <1>3, <1>5, <1>7 DEF Queued
<1>9. OneQueued(c) => OneQueued(c)'
  BY <1>1, <1>3, <1>5, <1>7 DEF OneQueued
<1>10. c \in DroppedCoro <=> Len(queue) > 1 /\ IsCoro(queue[Len(queue)], c)
  BY NoneIsNoCoro DEF DroppedCoro, IsCoro
<1> QED
  BY <1>8, <1>9, <1>10

-----------------------------------------------------------------------------
(* The steps, one lemma for each that moves a handle. *)

\* Taking the next event moves a queued coroutine to the event being processed.
LEMMA HeldByPopEvent ==
  ASSUME TypeOK, HeldInv, PopEvent
  PROVE  HeldInv'
<1>1. /\ pc = "drain" /\ queue # <<>> /\ queue \in Seq(Events) /\ queue' = Popped
      /\ ev' = Head(queue) /\ resuming' = DroppedCoro
      /\ UNCHANGED <<life, cur, ops, waiters, timers>>
  BY DEF PopEvent, TypeOK
<1>2. resuming = {} /\ ~(ev.kind = "coro" /\ ev.arg # None) /\ \A c \in Coros : Held(c)
  BY <1>1 DEF HeldInv, EventTaken, ResumedFirst, Delivering
<1>3. EventTaken' /\ ResumedFirst'
  BY DEF PopEvent, EventTaken, ResumedFirst
<1>4. ASSUME NEW c \in Coros PROVE Held(c)'
  <2>1. /\ Queued(c)' <=> \E i \in 2..Len(queue) - 1 : IsCoro(queue[i], c)
        /\ OneQueued(c)'
        /\ c \in DroppedCoro <=> Len(queue) > 1 /\ IsCoro(queue[Len(queue)], c)
    BY <1>1, <1>2, PoppedHandles DEF Held
  <2>2. OneWait(c)' /\ OneTimer(c)'
    BY <1>1, <1>2 DEF Held, OneWait, OneTimer
  <2>3. Len(queue) \in Nat /\ Len(queue) >= 1 /\ Head(queue) = queue[1]
    BY <1>1
  <2>4. \A r \in PlaceNames \ {"resuming", "queued", "event"} : Place(c, r)' <=> Place(c, r)
    BY <1>1 DEF Place, Waiting, Sleeping
  <2>5. ~Place(c, "resuming") /\ ~Place(c, "event")
    BY <1>2, NoneIsNoCoro DEF Place, IsCoro
  <2>6. (Place(c, "resuming")' <=> Len(queue) > 1 /\ IsCoro(queue[Len(queue)], c))
        /\ (Place(c, "event")' <=> IsCoro(queue[1], c))
        /\ (Place(c, "queued")' <=> \E i \in 2..Len(queue) - 1 : IsCoro(queue[i], c))
        /\ (Place(c, "queued") <=> \E i \in 1..Len(queue) : IsCoro(queue[i], c))
    BY <1>1, <2>1, <2>3 DEF Place, Queued, IsCoro
  <2>7. \A i, j \in 1..Len(queue) : IsCoro(queue[i], c) /\ IsCoro(queue[j], c) => i = j
    BY <1>2 DEF Held, OneQueued
  <2>8. CASE IsCoro(queue[1], c)
    <3>1. Place(c, "queued") /\ ~Place(c, "queued")' /\ Place(c, "event")' /\ ~Place(c, "resuming")'
      BY <2>3, <2>6, <2>7, <2>8
    <3> QED
      BY <1>2, <2>1, <2>2, <2>4, <2>5, <3>1, HeldMove DEF PlaceNames
  <2>9. CASE Len(queue) > 1 /\ IsCoro(queue[Len(queue)], c)
    <3>1. Place(c, "queued") /\ ~Place(c, "queued")' /\ ~Place(c, "event")' /\ Place(c, "resuming")'
      BY <2>3, <2>6, <2>7, <2>9
    <3> QED
      BY <1>2, <2>1, <2>2, <2>4, <2>5, <3>1, HeldMove DEF PlaceNames
  <2>10. CASE ~IsCoro(queue[1], c) /\ ~(Len(queue) > 1 /\ IsCoro(queue[Len(queue)], c))
    <3>1. (Place(c, "queued")' <=> Place(c, "queued")) /\ ~Place(c, "event")' /\ ~Place(c, "resuming")'
      BY <2>3, <2>6, <2>10
    <3> QED
      BY <1>2, <2>1, <2>2, <2>4, <2>5, <3>1, HeldSame
  <2> QED
    BY <2>8, <2>9, <2>10
<1> QED
  BY <1>3, <1>4 DEF HeldInv

\* A coroutine taken from the queue becomes the one that runs.
LEMMA HeldByProcessCoro ==
  ASSUME TypeOK, HeldInv, ProcessCoro
  PROVE  HeldInv'
<1>1. /\ pc = "process" /\ pc' = "event out" /\ ev.kind = "coro"
      /\ resuming' = {ev.arg} \ {None} /\ ev' = [ev EXCEPT !.arg = None]
      /\ UNCHANGED <<queue, life, cur, ops, waiters, timers>>
  BY DEF ProcessCoro, Process, queueVars
<1>2. resuming = {} /\ \A c \in Coros : Held(c)
  BY <1>1 DEF HeldInv, ResumedFirst, Delivering
<1>3. ev'.arg = None /\ ev'.kind = "coro"
  BY <1>1 DEF TypeOK, Events
<1>4. EventTaken' /\ ResumedFirst'
  BY <1>1, <1>3 DEF EventTaken, ResumedFirst, Delivering
<1>5. ASSUME NEW c \in Coros PROVE Held(c)'
  <2>1. OneWait(c)' /\ OneTimer(c)' /\ OneQueued(c)'
    BY <1>1, <1>2 DEF Held, OneWait, OneTimer, OneQueued
  <2>2. \A r \in PlaceNames \ {"resuming", "event"} : Place(c, r)' <=> Place(c, r)
    BY <1>1 DEF Place, Waiting, Sleeping, Queued
  <2>3. /\ ~Place(c, "resuming") /\ ~Place(c, "event")'
        /\ Place(c, "event") <=> ev.arg = c
        /\ Place(c, "resuming")' <=> ev.arg = c
    BY <1>1, <1>2, <1>3, NoneIsNoCoro DEF Place, IsCoro
  <2>4. CASE ev.arg = c
    BY <1>2, <2>1, <2>2, <2>3, <2>4, HeldMove DEF PlaceNames
  <2>5. CASE ev.arg # c
    BY <1>2, <2>1, <2>2, <2>3, <2>5, HeldSame
  <2> QED
    BY <2>4, <2>5
<1> QED
  BY <1>4, <1>5 DEF HeldInv

\* A broadcast takes the waiters of a distributor and leaves them to be resumed.
LEMMA HeldByBroadcast ==
  ASSUME TypeOK, HeldInv, Broadcast
  PROVE  HeldInv'
<1> DEFINE d == Head(todo)
<1>1. /\ pc \in Delivering /\ pc' = pc /\ ev' = ev
      /\ resuming = {} /\ resuming' = waiters[d] /\ waiters' = [waiters EXCEPT ![d] = {}]
      /\ UNCHANGED <<queue, life, cur, ops, timers>>
  BY DEF Broadcast, queueVars
<1>2. EventTaken /\ \A c \in Coros : Held(c)
  BY <1>1 DEF HeldInv, Delivering
<1>3. d \in Dists /\ waiters \in [Dists -> SUBSET Coros]
  BY DEF Broadcast, TypeOK
<1> HIDE DEF d
<1>4. EventTaken' /\ ResumedFirst'
  BY <1>1, <1>2 DEF EventTaken, ResumedFirst
<1>5. ASSUME NEW c \in Coros PROVE Held(c)'
  <2>1. \A e \in Dists : c \in waiters'[e] <=> e # d /\ c \in waiters[e]
    BY <1>1, <1>3
  <2>2. OneWait(c)' /\ OneTimer(c)' /\ OneQueued(c)'
    BY <1>1, <1>2, <2>1 DEF Held, OneWait, OneTimer, OneQueued
  <2>3. \A r \in PlaceNames \ {"resuming", "waits"} : Place(c, r)' <=> Place(c, r)
    BY <1>1 DEF Place, Sleeping, Queued
  <2>4. \A e \in Dists : c \in waiters[e] /\ c \in waiters[d] => e = d
    BY <1>2, <1>3 DEF Held, OneWait
  <2>5. /\ Place(c, "waits") <=> \E e \in Dists : c \in waiters[e]
        /\ Place(c, "waits")' <=> \E e \in Dists : e # d /\ c \in waiters[e]
        /\ ~Place(c, "resuming")
        /\ Place(c, "resuming")' <=> c \in waiters[d]
    BY <1>1, <2>1 DEF Place, Waiting
  <2>6. CASE c \in waiters[d]
    <3>1. Place(c, "waits") /\ ~Place(c, "waits")' /\ Place(c, "resuming")'
      BY <1>3, <2>4, <2>5, <2>6
    <3> QED
      BY <1>2, <2>2, <2>3, <3>1, HeldMove DEF PlaceNames
  <2>7. CASE c \notin waiters[d]
    <3>1. (Place(c, "waits")' <=> Place(c, "waits")) /\ ~Place(c, "resuming")'
      BY <2>5, <2>7
    <3> QED
      BY <1>2, <2>2, <2>3, <2>5, <3>1, HeldSame
  <2> QED
    BY <2>6, <2>7
<1> QED
  BY <1>4, <1>5 DEF HeldInv

\* A timer that fires hands its coroutine to those to be resumed.
LEMMA HeldByFireTimer ==
  ASSUME TypeOK, HeldInv, FireTimer
  PROVE  HeldInv'
<1>1. PICK t \in timers : timers' = timers \ {t} /\ resuming' = {t.coro}
  BY DEF FireTimer, Due
<1>2. /\ pc = "timers" /\ pc' = "timer out" /\ UNCHANGED <<ev, queue, life, cur, ops, waiters>>
  BY DEF FireTimer, queueVars
<1>3. resuming = {} /\ EventTaken /\ \A c \in Coros : Held(c)
  BY <1>2 DEF HeldInv, ResumedFirst, Delivering
<1>4. EventTaken' /\ ResumedFirst'
  BY <1>2, <1>3 DEF EventTaken, ResumedFirst, Delivering
<1>5. ASSUME NEW c \in Coros PROVE Held(c)'
  <2>1. OneWait(c)' /\ OneTimer(c)' /\ OneQueued(c)'
    BY <1>1, <1>2, <1>3 DEF Held, OneWait, OneTimer, OneQueued
  <2>2. \A r \in PlaceNames \ {"resuming", "sleeps"} : Place(c, r)' <=> Place(c, r)
    BY <1>2 DEF Place, Waiting, Queued
  <2>3. /\ Place(c, "sleeps") <=> \E u \in timers : u.coro = c
        /\ Place(c, "sleeps")' <=> \E u \in timers \ {t} : u.coro = c
        /\ ~Place(c, "resuming")
        /\ Place(c, "resuming")' <=> t.coro = c
    BY <1>1, <1>3 DEF Place, Sleeping
  <2>4. CASE t.coro = c
    <3>1. Place(c, "sleeps") /\ ~Place(c, "sleeps")' /\ Place(c, "resuming")'
      BY <1>3, <2>3, <2>4 DEF Held, OneTimer
    <3> QED
      BY <1>3, <2>1, <2>2, <2>3, <3>1, HeldMove DEF PlaceNames
  <2>5. CASE t.coro # c
    <3>1. (Place(c, "sleeps")' <=> Place(c, "sleeps")) /\ ~Place(c, "resuming")'
      BY <2>3, <2>5
    <3> QED
      BY <1>3, <2>1, <2>2, <2>3, <3>1, HeldSame
  <2> QED
    BY <2>4, <2>5
<1> QED
  BY <1>4, <1>5 DEF HeldInv

\* A coroutine that is launched or resumed was held by one place only, and runs now.
LEMMA HeldByRunning ==
  ASSUME TypeOK, HeldInv, pc # "crashed", NEW x \in Coros, Resume(x) \/ Launch(x)
  PROVE  HeldInv'
<1>1. UNCHANGED <<pc, ev, queue, ops, waiters, timers>> /\ cur = None /\ cur' = x
  BY DEF Resume, Launch, loopVars, queueVars
<1>2. EventTaken /\ ResumedFirst /\ \A c \in Coros : Held(c)
  BY DEF HeldInv
<1>3. EventTaken' /\ ResumedFirst'
  BY <1>1, <1>2 DEF EventTaken, ResumedFirst, Resume, Launch
<1>4. ASSUME NEW c \in Coros PROVE Held(c)'
  <2>1. OneWait(c)' /\ OneTimer(c)' /\ OneQueued(c)'
    BY <1>1, <1>2 DEF Held, OneWait, OneTimer, OneQueued
  <2>2. \A r \in PlaceNames \ {"life", "resuming", "running"} : Place(c, r)' <=> Place(c, r)
    BY <1>1 DEF Place, Waiting, Sleeping, Queued
  <2>3. ~Place(c, "running") /\ (Place(c, "running")' <=> c = x)
    BY <1>1, NoneIsNoCoro DEF Place
  <2>4. CASE c # x
    <3>1. (Place(c, "life")' <=> Place(c, "life")) /\ (Place(c, "resuming")' <=> Place(c, "resuming"))
      BY <2>4 DEF Place, Resume, Launch, TypeOK
    <3> QED
      BY <1>2, <2>1, <2>2, <2>3, <2>4, <3>1, HeldSame
  <2>5. CASE c = x /\ Resume(x)
    <3>1. /\ Place(c, "life")' <=> Place(c, "life")
          /\ Place(c, "resuming") /\ ~Place(c, "resuming")'
      BY <2>5 DEF Place, Resume
    <3> QED
      BY <1>2, <2>1, <2>2, <2>3, <2>5, <3>1, HeldMove DEF PlaceNames
  <2>6. CASE c = x /\ Launch(x)
    <3>1. /\ Place(c, "resuming")' <=> Place(c, "resuming")
          /\ Place(c, "life") /\ ~Place(c, "life")'
      BY <2>6 DEF Place, Launch, TypeOK
    <3> QED
      BY <1>2, <2>1, <2>2, <2>3, <2>6, <3>1, HeldMove DEF PlaceNames
  <2> QED
    BY <2>4, <2>5, <2>6 
<1> QED
  BY <1>3, <1>4 DEF HeldInv

(* The running coroutine x is the one that moves when it suspends.         *)
LEMMA RunningMoves ==
  ASSUME TypeOK, HeldInv, pc # "crashed", NEW x \in Coros, cur = x, cur' = None,
         UNCHANGED <<pc, ev, resuming>>,
         \A c \in Coros : OneWait(c)' /\ OneTimer(c)' /\ OneQueued(c)',
         NEW q \in PlaceNames \ {"running"}, Place(x, q)',
         \A c \in Coros : \A r \in PlaceNames \ {"running", q} : Place(c, r)' <=> Place(c, r),
         \A c \in Coros : c # x => (Place(c, q)' <=> Place(c, q))
  PROVE  HeldInv'
<1>1. EventTaken /\ ResumedFirst /\ \A c \in Coros : Held(c)
  BY DEF HeldInv
<1>2. EventTaken' /\ ResumedFirst'
  BY <1>1 DEF EventTaken, ResumedFirst
<1>3. \A c \in Coros : (Place(c, "running") <=> c = x) /\ ~Place(c, "running")'
  BY NoneIsNoCoro DEF Place
<1>4. "running" \in PlaceNames /\ q \in PlaceNames
  BY DEF PlaceNames
<1>5. ASSUME NEW c \in Coros PROVE Held(c)'
  <2>1. CASE c = x
    BY <1>1, <1>3, <1>4, <2>1, HeldMove
  <2>2. CASE c # x
    <3>1. \A r \in PlaceNames : Place(c, r)' <=> Place(c, r)
      BY <1>3, <1>4, <2>2
    <3> QED
      BY <1>1, <3>1, HeldSame
  <2> QED
    BY <2>1, <2>2
<1> QED
  BY <1>2, <1>5 DEF HeldInv

(* A running coroutine is held nowhere else.                               *)
LEMMA RunningOnly ==
  ASSUME TypeOK, HeldInv, pc # "crashed", NEW x \in Coros, cur = x
  PROVE  life[x] = "live" /\ x \notin ops /\ ~Waiting(x) /\ ~Sleeping(x) /\ ~Queued(x)
<1>1. PICK p \in PlaceNames : HeldIn(x, p)
  BY DEF HeldInv, Held
<1>2. p = "running"
  BY <1>1 DEF HeldIn, Place, PlaceNames
<1> QED
  BY <1>1, <1>2 DEF HeldIn, Place, PlaceNames

\* A coroutine that awaits a distributor leaves the processor for its waiters.
LEMMA HeldByAwait ==
  ASSUME TypeOK, HeldInv, pc # "crashed", NEW d \in Dists, Await(d)
  PROVE  HeldInv'
<1>1. PICK x \in Coros : cur = x
  BY DEF Await, TypeOK
<1>2. /\ cur' = None /\ waiters' = [waiters EXCEPT ![d] = @ \cup {x}]
      /\ UNCHANGED <<pc, ev, resuming, queue, life, ops, timers>>
  BY <1>1 DEF Await, loopVars, queueVars
<1>3. ~Waiting(x)
  BY <1>1, RunningOnly
<1>4. waiters \in [Dists -> SUBSET Coros] /\ \A c \in Coros : Held(c)
  BY DEF TypeOK, HeldInv
<1>5. \A c \in Coros, e \in Dists : c \in waiters'[e] <=> c \in waiters[e] \/ (e = d /\ c = x)
  BY <1>2, <1>4
<1>6. \A c \in Coros : OneWait(c)' /\ OneTimer(c)' /\ OneQueued(c)'
  BY <1>2, <1>3, <1>4, <1>5 DEF Held, OneWait, OneTimer, OneQueued, Waiting
<1>7. Place(x, "waits")' /\ \A c \in Coros : c # x => (Place(c, "waits")' <=> Place(c, "waits"))
  BY <1>5 DEF Place, Waiting
<1>8. \A c \in Coros : \A r \in PlaceNames \ {"running", "waits"} : Place(c, r)' <=> Place(c, r)
  BY <1>2 DEF Place, Sleeping, Queued
<1> QED
  BY <1>1, <1>2, <1>6, <1>7, <1>8, RunningMoves DEF PlaceNames

\* A coroutine that sleeps leaves the processor for a timer.
LEMMA HeldBySleep ==
  ASSUME TypeOK, HeldInv, pc # "crashed", NEW at \in 0..MaxTime, Sleep(at) \/ SleepWithId(at)
  PROVE  HeldInv'
<1>1. PICK x \in Coros : cur = x
  BY DEF Sleep, SleepWithId, TypeOK
<1>2. PICK id : timers' = timers \cup {[coro |-> x, at |-> at, id |-> id]}
  BY <1>1 DEF Sleep, SleepWithId
<1>3. cur' = None /\ UNCHANGED <<pc, ev, resuming, queue, life, ops, waiters>>
  BY DEF Sleep, SleepWithId, loopVars, queueVars
<1>4. ~Sleeping(x) /\ \A c \in Coros : Held(c)
  BY <1>1, RunningOnly DEF HeldInv
<1>5. \A c \in Coros : OneWait(c)' /\ OneTimer(c)' /\ OneQueued(c)'
  BY <1>2, <1>3, <1>4 DEF Held, OneWait, OneTimer, OneQueued, Sleeping
<1>6. Place(x, "sleeps")' /\ \A c \in Coros : c # x => (Place(c, "sleeps")' <=> Place(c, "sleeps"))
  <2> DEFINE t == [coro |-> x, at |-> at, id |-> id]
  <2>1. t.coro = x /\ timers' = timers \cup {t}
    BY <1>2
  <2> HIDE DEF t
  <2>2. Sleeping(x)' /\ \A c \in Coros : c # x => (Sleeping(c)' <=> Sleeping(c))
    BY <2>1 DEF Sleeping
  <2> QED
    BY <2>2 DEF Place
<1>7. \A c \in Coros : \A r \in PlaceNames \ {"running", "sleeps"} : Place(c, r)' <=> Place(c, r)
  BY <1>3 DEF Place, Waiting, Queued
<1> QED
  BY <1>1, <1>3, <1>5, <1>6, <1>7, RunningMoves DEF PlaceNames

\* A coroutine that awaits an operation leaves the processor for the pending operations.
LEMMA HeldByAwaitOperation ==
  ASSUME TypeOK, HeldInv, pc # "crashed", AwaitOperation
  PROVE  HeldInv'
<1>1. PICK x \in Coros : cur = x
  BY DEF AwaitOperation, TypeOK
<1>2. cur' = None /\ ops' = ops \cup {x} /\ UNCHANGED <<pc, ev, resuming, queue, life, timers, waiters>>
  BY <1>1 DEF AwaitOperation, loopVars, queueVars
<1>3. \A c \in Coros : OneWait(c)' /\ OneTimer(c)' /\ OneQueued(c)'
  BY <1>2 DEF HeldInv, Held, OneWait, OneTimer, OneQueued
<1>4. Place(x, "operation")' /\ \A c \in Coros : c # x => (Place(c, "operation")' <=> Place(c, "operation"))
  BY <1>2 DEF Place
<1>5. \A c \in Coros : \A r \in PlaceNames \ {"running", "operation"} : Place(c, r)' <=> Place(c, r)
  BY <1>2 DEF Place, Waiting, Sleeping, Queued
<1> QED
  BY <1>1, <1>2, <1>3, <1>4, <1>5, RunningMoves DEF PlaceNames

(* The event that handle_exception pushes carries no coroutine.            *)
LEMMA HeldByFinish ==
  ASSUME TypeOK, HeldInv, pc # "crashed", Finish \/ Throw
  PROVE  HeldInv'
<1>1. PICK x \in Coros : cur = x
  BY DEF Finish, Throw, TypeOK
<1>2. /\ cur' = None /\ life' = [life EXCEPT ![x] = "done"]
      /\ UNCHANGED <<pc, ev, resuming, ops, timers, waiters>>
  BY <1>1 DEF Finish, Throw, loopVars
<1>3. queue' = queue \/ queue' = Append(queue, Event("exception", "whole"))
  BY DEF Finish, Throw, PushEvent, queueVars
<1>4. queue \in Seq(Events) /\ life \in [Coros -> {"fresh", "live", "done"}] /\ \A c \in Coros : Held(c)
  BY DEF TypeOK, HeldInv
<1>5. \A c \in Coros : OneQueued(c)' /\ (Queued(c)' <=> Queued(c))
  <2>1. \A c : ~IsCoro(Event("exception", "whole"), c)
    BY DEF IsCoro, Event
  <2>2. CASE queue' = queue
    BY <1>4, <2>2 DEF Held, OneQueued, Queued
  <2>3. CASE queue' = Append(queue, Event("exception", "whole"))
    BY <1>4, <2>1, <2>3, Appended DEF Held
  <2> QED
    BY <1>3, <2>2, <2>3
<1>6. \A c \in Coros : OneWait(c)' /\ OneTimer(c)'
  BY <1>2, <1>4 DEF Held, OneWait, OneTimer
<1>7. Place(x, "life")' /\ \A c \in Coros : c # x => (Place(c, "life")' <=> Place(c, "life"))
  BY <1>2, <1>4 DEF Place
<1>8. \A c \in Coros : \A r \in PlaceNames \ {"running", "life"} : Place(c, r)' <=> Place(c, r)
  BY <1>2, <1>5 DEF Place, Waiting, Sleeping
<1> QED
  BY <1>1, <1>2, <1>5, <1>6, <1>7, <1>8, RunningMoves DEF PlaceNames

(* interrupt moves the handle from a timer to the queue, or pushes an      *)
(* event without one.                                                      *)
LEMMA HeldByInterrupt ==
  ASSUME TypeOK, HeldInv, pc # "crashed", NEW id \in 0..MaxTimer, Interrupt(id)
  PROVE  HeldInv'
<1>1. UNCHANGED <<pc, ev, resuming, life, cur, ops, waiters>>
  BY DEF Interrupt, loopVars
<1>2. EventTaken /\ ResumedFirst /\ \A c \in Coros : Held(c)
  BY DEF HeldInv
<1>3. EventTaken' /\ ResumedFirst'
  BY <1>1, <1>2 DEF EventTaken, ResumedFirst
<1>4. queue \in Seq(Events) /\ timers \in SUBSET Timers
  BY DEF TypeOK
<1>5. CASE \E t \in timers : timers' = timers \ {t} /\ queue' = Append(queue, Event("coro", t.coro))
  <2>1. PICK t \in timers : timers' = timers \ {t} /\ queue' = Append(queue, Event("coro", t.coro))
    BY <1>5
  <2>2. \A c : IsCoro(Event("coro", t.coro), c) <=> c = t.coro
    BY DEF IsCoro, Event
  <2>3. ASSUME NEW c \in Coros PROVE Held(c)'
    <3>1. OneWait(c)' /\ OneTimer(c)'
      BY <1>1, <1>2, <2>1 DEF Held, OneWait, OneTimer
    <3>2. \A r \in PlaceNames \ {"sleeps", "queued"} : Place(c, r)' <=> Place(c, r)
      BY <1>1 DEF Place, Waiting
    <3>3. /\ Queued(c)' <=> Queued(c) \/ c = t.coro
          /\ OneQueued(c) /\ ~(Queued(c) /\ c = t.coro) => OneQueued(c)'
      BY <1>4, <2>1, <2>2, Appended
    <3>4. /\ Place(c, "sleeps") <=> \E u \in timers : u.coro = c
          /\ Place(c, "sleeps")' <=> \E u \in timers \ {t} : u.coro = c
      BY <2>1 DEF Place, Sleeping
    <3>5. CASE c = t.coro
      <4>1. Place(c, "sleeps") /\ ~Place(c, "sleeps")'
        BY <1>2, <3>4, <3>5 DEF Held, OneTimer
      <4>2. ~Queued(c)
        BY <1>2, <4>1 DEF Held, HeldIn, Place, PlaceNames
      <4>3. OneQueued(c)' /\ Place(c, "queued")'
        BY <1>2, <3>3, <3>5, <4>2 DEF Held, Place
      <4> QED
        BY <1>2, <3>1, <3>2, <4>1, <4>3, HeldMove DEF PlaceNames
    <3>6. CASE c # t.coro
      <4>1. (Place(c, "sleeps")' <=> Place(c, "sleeps")) /\ OneQueued(c)'
        BY <1>2, <3>3, <3>4, <3>6 DEF Held
      <4>2. Place(c, "queued")' <=> Place(c, "queued")
        BY <3>3, <3>6 DEF Place
      <4> QED
        BY <1>2, <3>1, <3>2, <4>1, <4>2, HeldSame
    <3> QED
      BY <3>5, <3>6
  <2> QED
    BY <1>3, <2>3 DEF HeldInv
<1>6. CASE UNCHANGED timers /\ queue' = Append(queue, Event("coro", None))
  <2>1. \A c \in Coros : ~IsCoro(Event("coro", None), c)
    BY NoneIsNoCoro DEF IsCoro, Event
  <2>2. ASSUME NEW c \in Coros PROVE Held(c)'
    <3>1. (Queued(c)' <=> Queued(c)) /\ OneQueued(c)'
      BY <1>2, <1>4, <1>6, <2>1, Appended DEF Held
    <3>2. OneWait(c)' /\ OneTimer(c)'
      BY <1>1, <1>2, <1>6 DEF Held, OneWait, OneTimer
    <3>3. \A r \in PlaceNames : Place(c, r)' <=> Place(c, r)
      BY <1>1, <1>6, <3>1 DEF Place, Waiting, Sleeping
    <3> QED
      BY <1>2, <3>1, <3>2, <3>3, HeldSame
  <2> QED
    BY <1>3, <2>2 DEF HeldInv
<1> QED
  BY <1>5, <1>6 DEF Interrupt

(* A completion moves the handle from the exchange to the queue.           *)
LEMMA HeldByComplete ==
  ASSUME TypeOK, HeldInv, pc # "crashed", NEW x \in Coros, Complete(x)
  PROVE  HeldInv'
<1>1. /\ x \in ops /\ ops' = ops \ {x} /\ queue' = Append(queue, Event("coro", x))
      /\ UNCHANGED <<pc, ev, resuming, life, cur, waiters, timers>>
  BY DEF Complete, PushEvent, loopVars
<1>2. EventTaken /\ ResumedFirst /\ (\A c \in Coros : Held(c)) /\ queue \in Seq(Events)
  BY DEF HeldInv, TypeOK
<1>3. EventTaken' /\ ResumedFirst'
  BY <1>1, <1>2 DEF EventTaken, ResumedFirst
<1>4. \A c : IsCoro(Event("coro", x), c) <=> c = x
  BY DEF IsCoro, Event
<1>5. ASSUME NEW c \in Coros PROVE Held(c)'
  <2>1. OneWait(c)' /\ OneTimer(c)'
    BY <1>1, <1>2 DEF Held, OneWait, OneTimer
  <2>2. \A r \in PlaceNames \ {"operation", "queued"} : Place(c, r)' <=> Place(c, r)
    BY <1>1 DEF Place, Waiting, Sleeping
  <2>3. /\ Queued(c)' <=> Queued(c) \/ c = x
        /\ OneQueued(c) /\ ~(Queued(c) /\ c = x) => OneQueued(c)'
    BY <1>1, <1>2, <1>4, Appended
  <2>4. CASE c = x
    <3>1. Place(c, "operation") /\ ~Place(c, "operation")'
      BY <1>1, <2>4 DEF Place
    <3>2. ~Queued(c)
      BY <1>2, <3>1 DEF Held, HeldIn, Place, PlaceNames
    <3>3. OneQueued(c)' /\ Place(c, "queued")'
      BY <1>2, <2>3, <2>4, <3>2 DEF Held, Place
    <3> QED
      BY <1>2, <2>1, <2>2, <3>1, <3>3, HeldMove DEF PlaceNames
  <2>5. CASE c # x
    <3>1. \A r \in {"operation", "queued"} : Place(c, r)' <=> Place(c, r)
      BY <1>1, <2>3, <2>5 DEF Place
    <3>2. OneQueued(c)'
      BY <1>2, <2>3, <2>5 DEF Held
    <3> QED
      BY <1>2, <2>1, <2>2, <3>1, <3>2, HeldSame
  <2> QED
    BY <2>4, <2>5
<1> QED
  BY <1>3, <1>5 DEF HeldInv

-----------------------------------------------------------------------------
(* The steps that move no handle. *)

\* A step that moves no coroutine, and queues at most another kind of event, keeps the invariant.
LEMMA HeldByQuietStep ==
  ASSUME TypeOK, HeldInv, pc # "crashed", UNCHANGED <<ev, life, cur, resuming, ops, waiters, timers>>,
         queue' = queue \/ \E e : e.kind # "coro" /\ queue' = Append(queue, e),
         pc' = "crashed" \/ (EventTaken' /\ ResumedFirst')
  PROVE  HeldInv'
<1>1. queue \in Seq(Events) /\ \A c \in Coros : Held(c)
  BY DEF TypeOK, HeldInv
<1>2. ASSUME NEW c \in Coros PROVE Held(c)'
  <2>1. CASE queue' = queue
    BY <1>1, <2>1, HeldFrame
  <2>2. ASSUME NEW e, e.kind # "coro", queue' = Append(queue, e) PROVE Held(c)'
    <3>1. (Queued(c)' <=> Queued(c)) /\ OneQueued(c)'
      BY <1>1, <2>2, Appended DEF Held, IsCoro
    <3>2. OneWait(c)' /\ OneTimer(c)'
      BY <1>1 DEF Held, OneWait, OneTimer
    <3>3. \A r \in PlaceNames : Place(c, r)' <=> Place(c, r)
      BY <3>1 DEF Place, Waiting, Sleeping
    <3> QED
      BY <1>1, <3>1, <3>2, <3>3, HeldSame
  <2> QED
    BY <2>1, <2>2
<1> QED
  BY <1>2 DEF HeldInv

QuietLoop ==
  \/ StartLoop \/ Top \/ PopEventHangs \/ PopEventReturns \/ QueueEmpty
  \/ ProcessMarket \/ ProcessOrder \/ ProcessUpdate \/ ProcessMessage
  \/ ProcessException \/ ProcessQuit \/ ProcessNull
  \/ FlushBatches \/ TimersDone \/ Rest \/ Wake

\* The steps of the loop that move no coroutine are quiet.
LEMMA HeldByQuietLoop ==
  ASSUME TypeOK, HeldInv, pc # "crashed", QuietLoop
  PROVE  HeldInv'
<1>1. UNCHANGED <<ev, life, cur, resuming, ops, waiters, timers, queue>>
  BY DEF QuietLoop, StartLoop, Top, PopEventHangs, PopEventReturns, QueueEmpty, Process,
         ProcessMarket, ProcessOrder, ProcessUpdate, ProcessMessage, ProcessException, ProcessQuit,
         ProcessNull, FlushBatches, TimersDone, Rest, Wake, GoTo, GoHolding, queueVars, coroVars
<1>2. EventTaken /\ ResumedFirst
  BY DEF HeldInv
<1>3. pc' = "crashed" \/ EventTaken'
  BY <1>1, <1>2
  DEF EventTaken, QuietLoop, StartLoop, Top, PopEventHangs, PopEventReturns, QueueEmpty, Process,
      ProcessMarket, ProcessOrder, ProcessUpdate, ProcessMessage, ProcessException, ProcessQuit,
      ProcessNull, FlushBatches, TimersDone, Rest, Wake, GoTo, GoHolding, Delivering
<1>4. pc' = "crashed" \/ ResumedFirst'
  BY <1>1, <1>2
  DEF ResumedFirst, QuietLoop, StartLoop, Top, PopEventHangs, PopEventReturns, QueueEmpty, Process,
      ProcessMarket, ProcessOrder, ProcessUpdate, ProcessMessage, ProcessException, ProcessQuit,
      ProcessNull, FlushBatches, TimersDone, Rest, Wake, GoTo, GoHolding, Delivering
<1> QED
  BY <1>1, <1>3, <1>4, HeldByQuietStep

\* A push that never gets its lock leaves every coroutine where it is.
LEMMA HeldByPushEventHangs ==
  ASSUME TypeOK, HeldInv, pc # "crashed", PushEventHangs
  PROVE  HeldInv'
<1>1. UNCHANGED <<ev, life, cur, resuming, ops, waiters, timers, queue>> /\ pc' = "hung"
  BY DEF PushEventHangs, GoTo, GoHolding, queueVars, coroVars
<1>2. EventTaken' /\ ResumedFirst'
  BY <1>1 DEF EventTaken, ResumedFirst
<1> QED
  BY <1>1, <1>2, HeldByQuietStep

QuietBeside ==
  \/ \E o \in Orders : PlaceOrder(o) \/ CancelOrder(o) \/ RestoreOrder(o)
  \/ \E v \in Vars, x \in Vals : VarSet(v, x)
  \/ \E k \in Kinds : Push(k)
  \/ \E o \in Orders, s \in Reports : Report(o, s)
  \/ Tick

\* The steps beside the loop that move no coroutine are quiet.
LEMMA HeldByQuietBeside ==
  ASSUME TypeOK, HeldInv, pc # "crashed", QuietBeside
  PROVE  HeldInv'
<1>1. UNCHANGED <<pc, ev, life, cur, resuming, ops, waiters, timers>>
  BY DEF QuietBeside, PlaceOrder, CancelOrder, RestoreOrder, VarSet, Push, Report, Tick,
         loopVars, coroVars
<1>2. queue' = queue \/ \E e : e.kind # "coro" /\ queue' = Append(queue, e)
  <2>1. ASSUME NEW o \in Orders, RestoreOrder(o) PROVE \E e : e.kind # "coro" /\ queue' = Append(queue, e)
    <3> DEFINE e == [kind |-> "update", arg |-> o,
                     state |-> IF exchange[o] = "open" THEN "open" ELSE "filled"]
    <3>1. queue' = Append(queue, e) /\ e.kind = "update"
      BY <2>1 DEF RestoreOrder, PushEvent
    <3> QED
      BY <3>1
  <2>2. ASSUME NEW o \in Orders, NEW s \in Reports, Report(o, s)
        PROVE  queue' = queue \/ \E e : e.kind # "coro" /\ queue' = Append(queue, e)
    <3> DEFINE e == [kind |-> "update", arg |-> o, state |-> s]
    <3>1. (queue' = queue \/ queue' = Append(queue, e)) /\ e.kind = "update"
      BY <2>2 DEF Report, PushEvent, queueVars
    <3> QED
      BY <3>1
  <2>3. ASSUME NEW k \in Kinds, Push(k) PROVE \E e : e.kind # "coro" /\ queue' = Append(queue, e)
    <3>1. PICK kind, arg : /\ kind \in {"market", "order", "message", "exception", "quit"}
                           /\ queue' = Append(queue, Event(kind, arg))
      BY <2>3 DEF Push, PushEvent
    <3>2. Event(kind, arg).kind = kind
      BY DEF Event
    <3>3. kind # "coro"
      BY <3>1
    <3> QED
      BY <3>1, <3>2, <3>3
  <2>4. ASSUME (\E o \in Orders : PlaceOrder(o) \/ CancelOrder(o))
               \/ (\E v \in Vars, x \in Vals : VarSet(v, x)) \/ Tick
        PROVE  queue' = queue
    BY <2>4 DEF PlaceOrder, CancelOrder, VarSet, Tick, queueVars
  <2> QED
    BY <2>1, <2>2, <2>3, <2>4 DEF QuietBeside
<1>3. EventTaken' /\ ResumedFirst'
  BY <1>1 DEF HeldInv, EventTaken, ResumedFirst
<1> QED
  BY <1>1, <1>2, <1>3, HeldByQuietStep

(* In a new process, and in the first one, every coroutine is fresh.       *)
LEMMA FreshHeld ==
  ASSUME pc = "start", ev = Event("quit", None), queue = <<>>, life = [c \in Coros |-> "fresh"],
         cur = None, resuming = {}, ops = {}, waiters = [d \in Dists |-> {}], timers = {}
  PROVE  HeldInv
<1>1. EventTaken /\ ResumedFirst
  BY DEF EventTaken, ResumedFirst, Event
<1>2. ASSUME NEW c \in Coros PROVE Held(c)
  <2>1. ~Waiting(c) /\ ~Sleeping(c) /\ ~Queued(c) /\ cur # c /\ ~IsCoro(ev, c)
    BY NoneIsNoCoro DEF Waiting, Sleeping, Queued, IsCoro, Event
  <2>2. OneWait(c) /\ OneTimer(c) /\ OneQueued(c)
    BY <2>1 DEF OneWait, OneTimer, OneQueued, Waiting, Sleeping, Queued
  <2>3. HeldIn(c, "life")
    BY <2>1 DEF HeldIn, Place, PlaceNames
  <2> QED
    BY <2>2, <2>3 DEF Held, PlaceNames
<1> QED
  BY <1>1, <1>2 DEF HeldInv

\* A restart begins with coroutines that nothing holds yet.
LEMMA FreshHeldNext ==
  ASSUME Restart
  PROVE  HeldInv'
<1>1. EventTaken' /\ ResumedFirst'
  BY DEF Restart, EventTaken, ResumedFirst, Event
<1>2. ASSUME NEW c \in Coros PROVE Held(c)'
  <2>1. ~Waiting(c)' /\ ~Sleeping(c)' /\ ~Queued(c)' /\ cur' # c /\ ~IsCoro(ev, c)'
    BY NoneIsNoCoro DEF Restart, Waiting, Sleeping, Queued, IsCoro, Event
  <2>2. OneWait(c)' /\ OneTimer(c)' /\ OneQueued(c)'
    BY <2>1 DEF OneWait, OneTimer, OneQueued, Waiting, Sleeping, Queued
  <2>3. HeldIn(c, "life")'
    BY <2>1 DEF Restart, HeldIn, Place, PlaceNames
  <2> QED
    BY <2>2, <2>3 DEF Held, PlaceNames
<1> QED
  BY <1>1, <1>2 DEF HeldInv

\* Only a restart leads out of a crash.
LEMMA CrashedStays == pc = "crashed" /\ Next => pc' = "crashed" \/ Restart
<1> SUFFICES ASSUME pc = "crashed", Next, ~Restart PROVE pc' = "crashed"
  OBVIOUS
<1>1. CASE Loop
  BY <1>1 DEF Loop, StartLoop, Top, PopEventHangs, PopEvent, PopEventReturns, QueueEmpty,
              Process, ProcessCoro, ProcessMarket, ProcessOrder, ProcessUpdate, ProcessMessage,
              ProcessException, ProcessQuit, ProcessNull, Broadcast, FlushBatches, FireTimer,
              TimersDone, Rest, Wake, GoTo, GoHolding, Delivering
<1>2. CASE Beside
  BY <1>2, BesideLeavesLoop DEF loopVars
<1>3. CASE PushFails
  BY <1>3 DEF PushFails, PushIntoDyingSlot, PushEventHangs, GoTo, GoHolding
<1> QED
  BY <1>1, <1>2, <1>3, NextCases

\* Every step keeps the invariant: one lemma above for each place a coroutine can move.
LEMMA HeldStep == TypeOK /\ HeldInv /\ [Next]_vars => HeldInv'
<1> SUFFICES ASSUME TypeOK, HeldInv, [Next]_vars PROVE HeldInv'
  OBVIOUS
<1>1. CASE UNCHANGED vars
  <2>1. UNCHANGED <<pc, ev, life, cur, resuming, ops, waiters, timers, queue>>
    BY <1>1 DEF vars, loopVars, coroVars, queueVars
  <2>2. CASE pc = "crashed"
    BY <2>1, <2>2 DEF HeldInv
  <2>3. CASE pc # "crashed"
    BY <2>1, <2>3, HeldByQuietStep DEF HeldInv, EventTaken, ResumedFirst
  <2> QED
    BY <2>2, <2>3
<1>2. CASE Restart
  BY <1>2, FreshHeldNext
<1>3. CASE Next /\ pc = "crashed" /\ ~Restart
  BY <1>3, CrashedStays DEF HeldInv
<1>4. CASE Next /\ pc # "crashed" /\ ~Restart
  <2>1. CASE Loop
    BY <1>4, <2>1, HeldByPopEvent, HeldByProcessCoro, HeldByBroadcast, HeldByFireTimer, HeldByQuietLoop
    DEF Loop, QuietLoop
  <2>2. CASE ResumeNext
    BY <1>4, <2>2, HeldByRunning DEF ResumeNext
  <2>3. CASE Suspend
    BY <1>4, <2>3, HeldByAwait, HeldBySleep, HeldByAwaitOperation, HeldByFinish DEF Suspend
  <2>4. CASE PushIntoDyingSlot
    BY <2>4 DEF PushIntoDyingSlot, GoTo, GoHolding, HeldInv
  <2>5. CASE PushEventHangs
    BY <1>4, <2>5, HeldByPushEventHangs
  <2>6. CASE Call /\ ~PushFails
    BY <1>4, <2>6, HeldByFinish, HeldByInterrupt, HeldByQuietBeside DEF Call, QuietBeside, PushFails
  <2>7. CASE Outside
    BY <1>4, <2>7, HeldByComplete, HeldByRunning, HeldByQuietBeside DEF Outside, QuietBeside
  <2> QED
    BY <1>4, <2>1, <2>2, <2>3, <2>4, <2>5, <2>6, <2>7 DEF Next, PushFails
<1> QED
  BY <1>1, <1>2, <1>3, <1>4

\* The invariant holds in every reachable state.
LEMMA HeldInvariant == Spec => [](TypeOK /\ HeldInv)
<1>1. Init => HeldInv
  BY FreshHeld DEF Init
<1> QED
  BY <1>1, TypeInit, TypeStep, HeldStep, PTL DEF Spec

-----------------------------------------------------------------------------
(* From the places to the set of holders. *)

\* What it means to be a holder of a coroutine, place by place.
LEMMA HoldersOf ==
  ASSUME NEW c \in Coros, NEW x
  PROVE  x \in Holders(c) <=>
           \/ life[c] # "live" /\ x = <<"life", life[c]>>
           \/ cur = c /\ x = <<"running", c>>
           \/ c \in resuming /\ x = <<"resuming", c>>
           \/ c \in ops /\ x = <<"operation", c>>
           \/ \E d \in Dists : c \in waiters[d] /\ x = <<"waits", d>>
           \/ \E t \in timers : t.coro = c /\ x = <<"sleeps", t>>
           \/ \E i \in 1..Len(queue) : IsCoro(queue[i], c) /\ x = <<"queued", i>>
           \/ IsCoro(ev, c) /\ x = <<"event", ev>>
BY DEF Holders, IsCoro

\* A coroutine the invariant describes has exactly one holder.
LEMMA OneHolder ==
  ASSUME NEW c \in Coros, Held(c)
  PROVE  \E x : Holders(c) = {x}
<1>1. PICK p \in PlaceNames : HeldIn(c, p)
  BY DEF Held
<1> USE DEF HeldIn, PlaceNames, Place
<1>2. CASE p = "life"
  <2>1. Holders(c) = {<<"life", life[c]>>}
    BY <1>1, <1>2, HoldersOf DEF Waiting, Sleeping, Queued
  <2> QED
    BY <2>1
<1>3. CASE p = "running"
  <2>1. Holders(c) = {<<"running", c>>}
    BY <1>1, <1>3, HoldersOf DEF Waiting, Sleeping, Queued
  <2> QED
    BY <2>1
<1>4. CASE p = "resuming"
  <2>1. Holders(c) = {<<"resuming", c>>}
    BY <1>1, <1>4, HoldersOf DEF Waiting, Sleeping, Queued
  <2> QED
    BY <2>1
<1>5. CASE p = "operation"
  <2>1. Holders(c) = {<<"operation", c>>}
    BY <1>1, <1>5, HoldersOf DEF Waiting, Sleeping, Queued
  <2> QED
    BY <2>1
<1>6. CASE p = "waits"
  <2>1. PICK d \in Dists : c \in waiters[d]
    BY <1>1, <1>6 DEF Waiting
  <2>2. Holders(c) = {<<"waits", d>>}
    BY <1>1, <1>6, <2>1, HoldersOf DEF Held, OneWait, Sleeping, Queued
  <2> QED
    BY <2>2
<1>7. CASE p = "sleeps"
  <2>1. PICK t \in timers : t.coro = c
    BY <1>1, <1>7 DEF Sleeping
  <2>2. Holders(c) = {<<"sleeps", t>>}
    BY <1>1, <1>7, <2>1, HoldersOf DEF Held, OneTimer, Waiting, Queued
  <2> QED
    BY <2>2
<1>8. CASE p = "queued"
  <2>1. PICK i \in 1..Len(queue) : IsCoro(queue[i], c)
    BY <1>1, <1>8 DEF Queued
  <2>2. Holders(c) = {<<"queued", i>>}
    BY <1>1, <1>8, <2>1, HoldersOf DEF Held, OneQueued, Waiting, Sleeping
  <2> QED
    BY <2>2
<1>9. CASE p = "event"
  <2>1. Holders(c) = {<<"event", ev>>}
    BY <1>1, <1>9, HoldersOf DEF Waiting, Sleeping, Queued
  <2> QED
    BY <2>1
<1> QED
  BY <1>2, <1>3, <1>4, <1>5, <1>6, <1>7, <1>8, <1>9

(* As long as the process lives, exactly one place holds each coroutine.   *)
THEOREM CoroutinesHeldOnce == Spec => []HeldOnce
<1>1. HeldInv => HeldOnce
  <2> SUFFICES ASSUME HeldInv, pc # "crashed", NEW c \in Coros PROVE Cardinality(Holders(c)) = 1
    BY DEF HeldOnce
  <2>1. PICK x : Holders(c) = {x}
    BY OneHolder DEF HeldInv
  <2> QED
    BY <2>1, FS_Singleton
<1> QED
  BY <1>1, HeldInvariant, PTL
=============================================================================
