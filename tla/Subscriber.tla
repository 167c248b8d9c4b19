----------------------------- MODULE Subscriber -----------------------------
(***************************************************************************)
(* Subscriber (src/src/impl/subscriber.h): an exchange keeps, for every    *)
(* instrument, the event targets that subscribed it and the market events  *)
(* each of them wants, and tells its feed the union.  Threads of the       *)
(* exchange broadcast under a shared lock; set_subscription and the first  *)
(* half of clear() take the lock exclusively.                              *)
(***************************************************************************)
EXTENDS FlagMap, Sequences, FiniteSets

CONSTANTS
  Instruments,
  Targets,     \* event targets: the strategies' contexts
  Flags,       \* market events, the numbers of their enumerators
  Threads

ASSUME BitsDiffer == \A f, g \in Flags : f # g => Position(f) # Position(g)

VARIABLES
  reg,         \* _reg: the vector of targets of every instrument, <<>>: no entry
  feed,        \* the events the feed was told to deliver, by _fn
  thread,      \* what every thread of the exchange is doing
  asked        \* the flags each target asked for last, none after its end_of_stream

vars == <<reg, feed, thread, asked>>

(* A FlagMap with these flags.                                             *)
MapOf(flags) == {Position(f) : f \in flags}
Maps == SUBSET MapOf(Flags)

Entries == [t: Targets, events: Maps]

(* A thread is idle, in broadcast() at entry next of the vector, or in the *)
(* second half of clear(), with these registrations still to be told.      *)
Idle == [at |-> "idle"]
Broadcasting == [at: {"broadcast"}, instr: Instruments, events: Maps,
                 next: Nat \ {0}, told: SUBSET Targets]
Clearing == [at: {"clear"}, left: SUBSET (Instruments \X Targets)]

TypeOK ==
  /\ reg \in [Instruments -> Seq(Entries)]
  /\ feed \in [Instruments -> Maps]
  /\ thread \in [Threads -> {Idle} \cup Broadcasting \cup Clearing]
  /\ asked \in [Instruments -> [Targets -> SUBSET Flags]]

Init ==
  /\ reg = [i \in Instruments |-> <<>>]
  /\ feed = [i \in Instruments |-> {}]
  /\ thread = [th \in Threads |-> Idle]
  /\ asked = [i \in Instruments |-> [t \in Targets |-> {}]]

TargetsOf(v) == {v[k].t : k \in DOMAIN v}

EventsOf(v) == UNION {v[k].events : k \in DOMAIN v}

(* The entries of target t in vector v.                                    *)
Found(v, t) == {k \in DOMAIN v : v[k].t = t}

(* A faulty variant: an unsubscribed entry is dropped from the back.       *)
WithoutPopsBack(v, t) ==
  IF Found(v, t) = {} THEN v ELSE SubSeq(v, 1, Len(v) - 1)

(* The vector after target t asked for no events: its entry is replaced by *)
(* the last one, unless it is the last one itself.                         *)
Without(v, t) ==
  IF Found(v, t) \ {Len(v)} = {} THEN v
  ELSE [j \in 1..Len(v) - 1 |-> IF v[j].t = t THEN v[Len(v)] ELSE v[j]]

(* A faulty variant: a target that is found is added once more.            *)
WithAppends(v, t, events) == Append(v, [t |-> t, events |-> events])

(* The vector after target t asked for events.                             *)
With(v, t, events) ==
  IF Found(v, t) = {} THEN Append(v, [t |-> t, events |-> events])
  ELSE [j \in DOMAIN v |-> IF v[j].t = t THEN [v[j] EXCEPT !.events = events] ELSE v[j]]

(* A faulty variant: broadcast() takes no lock.                            *)
NoLock == TRUE

(* The exclusive lock can be taken: no thread holds the shared one.        *)
Unlocked == \A th \in Threads : thread[th].at # "broadcast"

(* A faulty variant: the feed is told the events of this target only.      *)
SetSubscriptionTellsOne(i, events, t) ==
  /\ Unlocked
  /\ LET v == IF events = {} THEN Without(reg[i], t) ELSE With(reg[i], t, events)
     IN  /\ reg' = [reg EXCEPT ![i] = v]
         /\ feed' = [feed EXCEPT ![i] = events]
  /\ UNCHANGED thread

SetSubscription(i, events, t) ==
  /\ Unlocked
  /\ LET v == IF events = {} THEN Without(reg[i], t) ELSE With(reg[i], t, events)
     IN  /\ reg' = [reg EXCEPT ![i] = v]
         /\ feed' = [feed EXCEPT ![i] = EventsOf(v)]
  /\ UNCHANGED thread

(* A strategy adds a flag to those it has, or takes one away; or the flag  *)
(* throws, and set_subscription is not called.                             *)
Subscribe(i, f, t) ==
  /\ ~Throws(f)
  /\ SetSubscription(i, Plus(MapOf(asked[i][t]), f), t)
  /\ asked' = [asked EXCEPT ![i][t] = @ \cup {f}]

Renounce(i, f, t) ==
  /\ ~Throws(f)
  /\ SetSubscription(i, Minus(MapOf(asked[i][t]), f), t)
  /\ asked' = [asked EXCEPT ![i][t] = @ \ {f}]

(* A turn of unsubscribe_all, for one instrument.                          *)
Unsubscribe(i, t) ==
  /\ SetSubscription(i, {}, t)
  /\ asked' = [asked EXCEPT ![i][t] = {}]

(* A faulty variant: the walk starts before the first entry.               *)
StartBroadcastEarly(th, i, events) ==
  /\ thread[th] = Idle /\ reg[i] # <<>>
  /\ thread' = [thread EXCEPT ![th] =
                  [at |-> "broadcast", instr |-> i, events |-> events, next |-> 0, told |-> {}]]
  /\ UNCHANGED <<reg, feed, asked>>

(* broadcast() takes the lock and looks the instrument up.                 *)
StartBroadcast(th, i, events) ==
  /\ thread[th] = Idle /\ reg[i] # <<>>
  /\ thread' = [thread EXCEPT ![th] =
                  [at |-> "broadcast", instr |-> i, events |-> events, next |-> 1, told |-> {}]]
  /\ UNCHANGED <<reg, feed, asked>>

(* One turn of its loop: a target that wants one of the events gets them.  *)
Visit(th) ==
  LET b == thread[th] IN
  /\ b.at = "broadcast" /\ b.next <= Len(reg[b.instr])
  /\ LET e == reg[b.instr][b.next]
     IN  thread' = [thread EXCEPT ![th] =
           [b EXCEPT !.next = @ + 1,
                     !.told = IF e.events \cap b.events = {} THEN @ ELSE @ \cup {e.t}]]
  /\ UNCHANGED <<reg, feed, asked>>

EndBroadcast(th) ==
  /\ thread[th].at = "broadcast"
  /\ thread[th].next > Len(reg[thread[th].instr])
  /\ thread' = [thread EXCEPT ![th] = Idle]
  /\ UNCHANGED <<reg, feed, asked>>

(* clear() takes the registry away under the lock and tells the targets    *)
(* end_of_stream after it has unlocked.  The feed is told nothing.         *)
StartClear(th) ==
  /\ Unlocked /\ thread[th] = Idle
  /\ reg' = [i \in Instruments |-> <<>>]
  /\ thread' = [thread EXCEPT ![th] =
                  [at |-> "clear", left |-> UNION {{i} \X TargetsOf(reg[i]) : i \in Instruments}]]
  /\ asked' = [i \in Instruments |-> [t \in Targets |-> {}]]
  /\ UNCHANGED feed

EndStream(th) ==
  /\ thread[th].at = "clear"
  /\ \E x \in thread[th].left :
       thread' = [thread EXCEPT ![th].left = @ \ {x}]
  /\ UNCHANGED <<reg, feed, asked>>

EndClear(th) ==
  /\ thread[th].at = "clear" /\ thread[th].left = {}
  /\ thread' = [thread EXCEPT ![th] = Idle]
  /\ UNCHANGED <<reg, feed, asked>>

Next ==
  \/ \E i \in Instruments, t \in Targets :
       \/ \E f \in Flags : Subscribe(i, f, t) \/ Renounce(i, f, t)
       \/ Unsubscribe(i, t)
  \/ \E th \in Threads :
       \/ \E i \in Instruments, flags \in SUBSET {f \in Flags : ~Throws(f)} \ {{}} :
            StartBroadcast(th, i, MapOf(flags))
       \/ Visit(th) \/ EndBroadcast(th)
       \/ StartClear(th) \/ EndStream(th) \/ EndClear(th)

Spec == Init /\ [][Next]_vars

-----------------------------------------------------------------------------
(* Properties *)

(* A target has one entry per instrument, whatever it subscribes again,    *)
(* unsubscribes or has moved by the unsubscription of another.             *)
UniqueTargets ==
  \A i \in Instruments : \A j, k \in DOMAIN reg[i] : reg[i][j].t = reg[i][k].t => j = k

(* What any registered target wants, the feed has been told to deliver;    *)
(* after clear() the feed delivers more than is wanted, never less.        *)
FeedCoversSubscriptions == \A i \in Instruments : EventsOf(reg[i]) \subseteq feed[i]

(* A subscription stays in force until its own target changes it or clear()*)
(* ends it, although the unsubscription of another target moves or drops   *)
(* entries of the vector: its entry has the flags the target put together. *)
SubscriptionsInForce ==
  \A i \in Instruments, t \in Targets :
    asked[i][t] # {} =>
      \E k \in DOMAIN reg[i] :
        /\ reg[i][k].t = t
        /\ \A f \in Flags : ~Throws(f) => (Test(reg[i][k].events, f) <=> f \in asked[i][t])

(* A broadcast that ends has told exactly the targets whose subscription   *)
(* matches: the vector it walks does not change under it.                  *)
Matching(i, events) ==
  {reg[i][k].t : k \in {k \in DOMAIN reg[i] : reg[i][k].events \cap events # {}}}
BroadcastTellsSubscribers ==
  \A th \in Threads :
    LET b == thread[th] IN
    b.at = "broadcast" /\ b.next > Len(reg[b.instr]) => b.told = Matching(b.instr, b.events)

(* "to unsubscribe, set to empty": who asked for no events is registered   *)
(* no longer.                                                              *)
Unsubscribes ==
  \A i \in Instruments, t \in Targets : asked[i][t] = {} => t \notin TargetsOf(reg[i])
=============================================================================
