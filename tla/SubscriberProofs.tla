-------------------------- MODULE SubscriberProofs --------------------------
(* Theorems about Subscriber, for every value of its constants.            *)
EXTENDS Subscriber, TLAPS

Unique(v) == \A j, k \in DOMAIN v : v[j].t = v[k].t => j = k

-----------------------------------------------------------------------------
(* The vector of an instrument. *)

\* Flag maps and sets of flags agree: on emptiness, on adding, on removing and on testing.
LEMMA MapsOfFlags ==
  /\ \A flags \in SUBSET Flags : MapOf(flags) \in Maps /\ (MapOf(flags) = {} <=> flags = {})
  /\ \A flags \in SUBSET Flags, f \in Flags :
       /\ Plus(MapOf(flags), f) = MapOf(flags \cup {f})
       /\ Minus(MapOf(flags), f) = MapOf(flags \ {f})
       /\ Test(MapOf(flags), f) <=> f \in flags
BY BitsDiffer DEF MapOf, Maps, Plus, Minus, Test

\* A registry is indexed from one and holds entries.
LEMMA EntriesOf ==
  ASSUME NEW v \in Seq(Entries)
  PROVE  /\ DOMAIN v = 1..Len(v)
         /\ \A k \in DOMAIN v : v[k] \in Entries /\ v[k].t \in Targets /\ v[k].events \in Maps
<1>1. DOMAIN v = 1..Len(v) /\ \A k \in DOMAIN v : v[k] \in Entries
  OBVIOUS
<1>2. \A e \in Entries : e.t \in Targets /\ e.events \in Maps
  BY DEF Entries
<1> QED
  BY <1>1, <1>2

\* Replacing the events of an entry changes nothing else.
LEMMA ChangedEntry ==
  ASSUME NEW e \in Entries, NEW events \in Maps
  PROVE  /\ [e EXCEPT !.events = events] \in Entries
         /\ [e EXCEPT !.events = events].t = e.t
         /\ [e EXCEPT !.events = events].events = events
BY DEF Entries

\* Removing a target leaves a registry.
LEMMA WithoutType ==
  ASSUME NEW v \in Seq(Entries), NEW t \in Targets
  PROVE  Without(v, t) \in Seq(Entries)
<1>1. CASE Found(v, t) \ {Len(v)} = {}
  BY <1>1 DEF Without
<1>2. CASE Found(v, t) \ {Len(v)} # {}
  <2>1. Len(v) - 1 \in Nat /\ Len(v) \in DOMAIN v
    BY <1>2 DEF Found
  <2>2. Without(v, t) \in [1..Len(v) - 1 -> Entries]
    BY <1>2, <2>1 DEF Without
  <2>3. PICK n \in Nat : n = Len(v) - 1
    BY <2>1
  <2>4. Without(v, t) \in [1..n -> Entries]
    BY <2>2, <2>3
  <2> QED
    BY <2>4
<1> QED
  BY <1>1, <1>2

\* Setting the events of a target leaves a registry.
LEMMA WithType ==
  ASSUME NEW v \in Seq(Entries), NEW t \in Targets, NEW events \in Maps
  PROVE  With(v, t, events) \in Seq(Entries)
<1>1. CASE Found(v, t) = {}
  BY <1>1 DEF With, Entries
<1>2. CASE Found(v, t) # {}
  <2>1. \A j \in 1..Len(v) : v[j] \in Entries /\ [v[j] EXCEPT !.events = events] \in Entries
    BY ChangedEntry
  <2>2. With(v, t, events) \in [1..Len(v) -> Entries]
    BY <1>2, <2>1 DEF With
  <2> QED
    BY <2>2
<1> QED
  BY <1>1, <1>2

(* The swap with the last entry loses no other target's entry, and no      *)
(* target gets a second one.                                               *)
LEMMA WithoutKeeps ==
  ASSUME NEW v \in Seq(Entries), NEW t \in Targets, Unique(v)
  PROVE  /\ Unique(Without(v, t))
         /\ \A k \in DOMAIN v : v[k].t # t => \E j \in DOMAIN Without(v, t) : Without(v, t)[j] = v[k]
<1>1. CASE Found(v, t) \ {Len(v)} = {}
  BY <1>1 DEF Without
<1>2. CASE Found(v, t) \ {Len(v)} # {}
  <2> DEFINE w == [j \in 1..Len(v) - 1 |-> IF v[j].t = t THEN v[Len(v)] ELSE v[j]]
  <2>1. PICK n \in 1..Len(v) - 1 : v[n].t = t
    BY <1>2 DEF Found
  <2>2. Without(v, t) = w /\ DOMAIN w = 1..Len(v) - 1
    BY <1>2 DEF Without
  <2>3. \A k \in 1..Len(v) : v[k].t = t => k = n
    BY <2>1 DEF Unique
  <2>4. w[n] = v[Len(v)] /\ \A j \in 1..Len(v) - 1 : j # n => w[j] = v[j]
    BY <2>1, <2>3
  <2>5. ASSUME NEW j \in 1..Len(v) - 1, NEW k \in 1..Len(v) - 1, w[j].t = w[k].t
        PROVE  j = k
    <3>1. \A a, b \in 1..Len(v) : v[a].t = v[b].t => a = b
      BY DEF Unique
    <3> QED
      BY <2>4, <2>5, <3>1
  <2>6. ASSUME NEW k \in DOMAIN v, v[k].t # t
        PROVE  \E j \in DOMAIN w : w[j] = v[k]
    <3>1. CASE k = Len(v)
      BY <2>1, <2>2, <2>4, <3>1
    <3>2. CASE k # Len(v)
      BY <2>1, <2>2, <2>4, <2>6, <3>2
    <3> QED
      BY <3>1, <3>2
  <2> HIDE DEF w
  <2> QED
    BY <2>2, <2>5, <2>6 DEF Unique
<1> QED
  BY <1>1, <1>2

\* Setting one target keeps targets unique and the entries of the others, and stores what was asked.
LEMMA WithKeeps ==
  ASSUME NEW v \in Seq(Entries), NEW t \in Targets, NEW events \in Maps, Unique(v)
  PROVE  /\ Unique(With(v, t, events))
         /\ \A k \in DOMAIN v : v[k].t # t =>
              \E j \in DOMAIN With(v, t, events) : With(v, t, events)[j] = v[k]
         /\ \E j \in DOMAIN With(v, t, events) :
              With(v, t, events)[j].t = t /\ With(v, t, events)[j].events = events
<1>1. CASE Found(v, t) = {}
  <2> DEFINE e == [t |-> t, events |-> events]
             w == Append(v, e)
  <2>1. With(v, t, events) = w
    BY <1>1 DEF With
  <2>2. DOMAIN w = 1..Len(v) + 1 /\ w[Len(v) + 1] = e /\ \A j \in 1..Len(v) : w[j] = v[j]
    OBVIOUS
  <2>3. \A j \in 1..Len(v) : v[j].t # t
    BY <1>1 DEF Found
  <2>4. e.t = t /\ e.events = events
    OBVIOUS
  <2> HIDE DEF w, e
  <2> QED
    BY <2>1, <2>2, <2>3, <2>4 DEF Unique
<1>2. CASE Found(v, t) # {}
  <2> DEFINE w == [j \in DOMAIN v |-> IF v[j].t = t THEN [v[j] EXCEPT !.events = events] ELSE v[j]]
  <2>1. With(v, t, events) = w /\ DOMAIN w = DOMAIN v
    BY <1>2 DEF With
  <2>2. \A j \in DOMAIN v : v[j] \in Entries
    OBVIOUS
  <2>3. \A j \in DOMAIN v : /\ w[j].t = v[j].t
                            /\ v[j].t = t => w[j].events = events
                            /\ v[j].t # t => w[j] = v[j]
    BY <2>2, ChangedEntry
  <2>4. \E n \in DOMAIN v : v[n].t = t
    BY <1>2 DEF Found
  <2> HIDE DEF w
  <2> QED
    BY <2>1, <2>3, <2>4 DEF Unique
<1> QED
  BY <1>1, <1>2

-----------------------------------------------------------------------------
(* Type correctness. *)

\* set_subscription keeps the types of registry and feed.
LEMMA SetSubscriptionType ==
  ASSUME TypeOK, NEW i \in Instruments, NEW t \in Targets, NEW events \in Maps,
         SetSubscription(i, events, t)
  PROVE  reg' \in [Instruments -> Seq(Entries)] /\ feed' \in [Instruments -> Maps]
<1> DEFINE v == IF events = {} THEN Without(reg[i], t) ELSE With(reg[i], t, events)
<1>1. v \in Seq(Entries)
  BY WithoutType, WithType DEF TypeOK
<1>2. reg' = [reg EXCEPT ![i] = v] /\ feed' = [feed EXCEPT ![i] = EventsOf(v)]
  BY DEF SetSubscription
<1>3. EventsOf(v) \in Maps
  <2> HIDE DEF v
  <2>1. \A k \in DOMAIN v : v[k].events \in Maps
    BY <1>1, EntriesOf
  <2> QED
    BY <2>1 DEF EventsOf, Maps
<1> HIDE DEF v
<1> QED
  BY <1>1, <1>2, <1>3 DEF TypeOK

\* The initial states are well typed.
LEMMA TypeInit == Init => TypeOK
BY DEF Init, TypeOK, Idle, Maps

(* Every call of set_subscription, with what the caller asked for after it.*)
LEMMA Calls ==
  ASSUME TypeOK, NEW i \in Instruments, NEW t \in Targets,
         (\E f \in Flags : Subscribe(i, f, t) \/ Renounce(i, f, t)) \/ Unsubscribe(i, t)
  PROVE  \E flags \in SUBSET Flags :
           /\ SetSubscription(i, MapOf(flags), t)
           /\ asked' = [asked EXCEPT ![i][t] = flags]
<1>1. asked[i][t] \in SUBSET Flags /\ asked[i] \in [Targets -> SUBSET Flags]
  BY DEF TypeOK
<1>2. ASSUME NEW f \in Flags, Subscribe(i, f, t)
      PROVE  SetSubscription(i, MapOf(asked[i][t] \cup {f}), t)
             /\ asked' = [asked EXCEPT ![i][t] = asked[i][t] \cup {f}]
  BY <1>1, <1>2, MapsOfFlags DEF Subscribe
<1>3. ASSUME NEW f \in Flags, Renounce(i, f, t)
      PROVE  SetSubscription(i, MapOf(asked[i][t] \ {f}), t)
             /\ asked' = [asked EXCEPT ![i][t] = asked[i][t] \ {f}]
  BY <1>1, <1>3, MapsOfFlags DEF Renounce
<1>4. CASE Unsubscribe(i, t)
  BY <1>4 DEF Unsubscribe, MapOf
<1> QED
  BY <1>1, <1>2, <1>3, <1>4

\* Every step keeps the types.
LEMMA TypeStep == TypeOK /\ [Next]_vars => TypeOK'
<1> SUFFICES ASSUME TypeOK, [Next]_vars PROVE TypeOK'
  OBVIOUS
<1>1. ASSUME NEW i \in Instruments, NEW t \in Targets,
             (\E f \in Flags : Subscribe(i, f, t) \/ Renounce(i, f, t)) \/ Unsubscribe(i, t)
      PROVE  TypeOK'
  <2>1. PICK flags \in SUBSET Flags : /\ SetSubscription(i, MapOf(flags), t)
                                      /\ asked' = [asked EXCEPT ![i][t] = flags]
    BY <1>1, Calls
  <2>2. reg' \in [Instruments -> Seq(Entries)] /\ feed' \in [Instruments -> Maps]
    BY <2>1, MapsOfFlags, SetSubscriptionType
  <2>3. thread' = thread
    BY <2>1 DEF SetSubscription
  <2> QED
    BY <2>1, <2>2, <2>3 DEF TypeOK
<1>2. ASSUME NEW th \in Threads, NEW i \in Instruments, NEW flags \in SUBSET Flags,
             StartBroadcast(th, i, MapOf(flags))
      PROVE  TypeOK'
  <2>1. [at |-> "broadcast", instr |-> i, events |-> MapOf(flags), next |-> 1, told |-> {}]
          \in Broadcasting
    BY MapsOfFlags DEF Broadcasting
  <2> QED
    BY <1>2, <2>1 DEF TypeOK, StartBroadcast
<1>3. ASSUME NEW th \in Threads, Visit(th) PROVE TypeOK'
  <2> DEFINE b == thread[th]
             e == reg[b.instr][b.next]
  <2>1. b \in Broadcasting
    BY <1>3 DEF TypeOK, Visit, Idle, Clearing
  <2>2. e \in Entries
    BY <1>3, <2>1 DEF TypeOK, Visit, Broadcasting
  <2> DEFINE told == IF e.events \cap b.events = {} THEN b.told ELSE b.told \cup {e.t}
  <2>3. thread' = [thread EXCEPT ![th] = [b EXCEPT !.next = b.next + 1, !.told = told]]
    BY <1>3 DEF Visit
  <2>4. b.next + 1 \in Nat \ {0} /\ told \in SUBSET Targets
    BY <2>1, <2>2 DEF Broadcasting, Entries
  <2> HIDE DEF b, e, told
  <2>5. [b EXCEPT !.next = b.next + 1, !.told = told] \in Broadcasting
    BY <2>1, <2>4 DEF Broadcasting
  <2>6. thread' \in [Threads -> {Idle} \cup Broadcasting \cup Clearing]
    BY <2>3, <2>5 DEF TypeOK
  <2> QED
    BY <1>3, <2>6 DEF TypeOK, Visit
<1>4. ASSUME NEW th \in Threads, EndBroadcast(th) \/ EndClear(th) PROVE TypeOK'
  BY <1>4 DEF TypeOK, EndBroadcast, EndClear
<1>5. ASSUME NEW th \in Threads, StartClear(th) PROVE TypeOK'
  <2> DEFINE left == UNION {{i} \X TargetsOf(reg[i]) : i \in Instruments}
  <2>1. ASSUME NEW i \in Instruments PROVE TargetsOf(reg[i]) \subseteq Targets
    <3>1. reg[i] \in Seq(Entries)
      BY DEF TypeOK
    <3>2. \A k \in DOMAIN reg[i] : reg[i][k].t \in Targets
      BY <3>1, EntriesOf
    <3> QED
      BY <3>2 DEF TargetsOf
  <2>2. left \in SUBSET (Instruments \X Targets)
    BY <2>1
  <2>3. [at |-> "clear", left |-> left] \in Clearing
    BY <2>2 DEF Clearing
  <2>4. thread' = [thread EXCEPT ![th] = [at |-> "clear", left |-> left]]
    BY <1>5 DEF StartClear
  <2> HIDE DEF left
  <2>5. thread' \in [Threads -> {Idle} \cup Broadcasting \cup Clearing]
    BY <2>3, <2>4 DEF TypeOK
  <2>6. reg' \in [Instruments -> Seq(Entries)] /\ asked' \in [Instruments -> [Targets -> SUBSET Flags]]
    BY <1>5 DEF StartClear
  <2> QED
    BY <1>5, <2>5, <2>6 DEF TypeOK, StartClear
<1>6. ASSUME NEW th \in Threads, EndStream(th) PROVE TypeOK'
  <2>1. thread[th] \in Clearing
    BY <1>6 DEF TypeOK, EndStream, Idle, Broadcasting
  <2>2. PICK x : thread' = [thread EXCEPT ![th].left = @ \ {x}]
    BY <1>6 DEF EndStream
  <2>3. [thread[th] EXCEPT !.left = @ \ {x}] \in Clearing
    BY <2>1 DEF Clearing
  <2> QED
    BY <1>6, <2>2, <2>3 DEF TypeOK, EndStream
<1>7. CASE UNCHANGED vars
  BY <1>7 DEF TypeOK, vars
<1> QED
  BY <1>1, <1>2, <1>3, <1>4, <1>5, <1>6, <1>7 DEF Next

(* The registry, the feed, the threads and the requests have their types.  *)
THEOREM TypeCorrect == Spec => []TypeOK
BY TypeInit, TypeStep, PTL DEF Spec

-----------------------------------------------------------------------------
(* The registry against what was asked for.  The invariant says that the   *)
(* flags of a target's entry are those it put together, bit by bit.        *)

Covered(i) == EventsOf(reg[i]) \subseteq feed[i]

InForce(i, t) ==
  asked[i][t] # {} => \E k \in DOMAIN reg[i] : reg[i][k].t = t /\ reg[i][k].events = MapOf(asked[i][t])

RegistryInv ==
  /\ TypeOK
  /\ \A i \in Instruments : Unique(reg[i]) /\ Covered(i)
  /\ \A i \in Instruments, t \in Targets : InForce(i, t)

\* The registry invariant holds at the start.
LEMMA RegistryInit == Init => RegistryInv
BY TypeInit DEF Init, RegistryInv, Unique, Covered, EventsOf, InForce

\* set_subscription keeps the registry in line with what was asked and the feed above it.
LEMMA SetSubscriptionKeeps ==
  ASSUME RegistryInv, NEW i \in Instruments, NEW t \in Targets, NEW flags \in SUBSET Flags,
         SetSubscription(i, MapOf(flags), t), asked' = [asked EXCEPT ![i][t] = flags], TypeOK'
  PROVE  RegistryInv'
<1> DEFINE events == MapOf(flags)
           v == IF events = {} THEN Without(reg[i], t) ELSE With(reg[i], t, events)
<1>1. /\ reg' = [reg EXCEPT ![i] = v]
      /\ feed' = [feed EXCEPT ![i] = EventsOf(v)]
  BY DEF SetSubscription
<1>2. /\ reg'[i] = v /\ feed'[i] = EventsOf(v) /\ asked'[i][t] = flags
      /\ \A u \in Targets : u # t => asked'[i][u] = asked[i][u]
      /\ \A j \in Instruments : j # i => reg'[j] = reg[j] /\ feed'[j] = feed[j] /\ asked'[j] = asked[j]
  BY <1>1 DEF RegistryInv, TypeOK
<1>3. events \in Maps /\ (events = {} <=> flags = {})
  BY MapsOfFlags
<1>4. reg[i] \in Seq(Entries) /\ Unique(reg[i])
  BY DEF RegistryInv, TypeOK
<1> HIDE DEF events
<1>5. /\ Unique(v)
      /\ \A k \in DOMAIN reg[i] : reg[i][k].t # t => \E j \in DOMAIN v : v[j] = reg[i][k]
      /\ events # {} => \E j \in DOMAIN v : v[j].t = t /\ v[j].events = events
  <2>1. CASE events = {}
    <3>1. v = Without(reg[i], t)
      BY <2>1
    <3> HIDE DEF v
    <3> QED
      BY <1>4, <2>1, <3>1, WithoutKeeps
  <2>2. CASE events # {}
    <3>1. v = With(reg[i], t, events)
      BY <2>2
    <3> HIDE DEF v
    <3> QED
      BY <1>3, <1>4, <2>2, <3>1, WithKeeps
  <2> QED
    BY <2>1, <2>2
<1> HIDE DEF v
<1>6. ASSUME NEW j \in Instruments PROVE Unique(reg'[j]) /\ Covered(j)'
  <2>1. CASE j = i
    BY <1>2, <1>5, <2>1 DEF Covered
  <2>2. CASE j # i
    <3>1. Unique(reg[j]) /\ EventsOf(reg[j]) \subseteq feed[j]
      BY DEF RegistryInv, Covered
    <3> QED
      BY <1>2, <2>2, <3>1 DEF Covered
  <2> QED
    BY <2>1, <2>2
<1>7. ASSUME NEW j \in Instruments, NEW u \in Targets PROVE InForce(j, u)'
  <2>1. CASE j # i
    <3>1. InForce(j, u)
      BY DEF RegistryInv
    <3>2. reg'[j] = reg[j] /\ asked'[j] = asked[j]
      BY <1>2, <2>1
    <3> QED
      BY <3>1, <3>2 DEF InForce
  <2>2. CASE j = i /\ u = t
    BY <1>2, <1>3, <1>5, <2>2 DEF InForce, events
  <2>3. CASE j = i /\ u # t
    BY <1>2, <1>5, <2>3 DEF RegistryInv, InForce
  <2> QED
    BY <2>1, <2>2, <2>3
<1> QED
  BY <1>6, <1>7 DEF RegistryInv, Unique

\* Every step keeps the registry invariant.
LEMMA RegistryStep == RegistryInv /\ [Next]_vars => RegistryInv'
<1> SUFFICES ASSUME RegistryInv, [Next]_vars PROVE RegistryInv'
  OBVIOUS
<1>1. TypeOK'
  BY TypeStep DEF RegistryInv
<1>2. ASSUME NEW i \in Instruments, NEW t \in Targets,
             (\E f \in Flags : Subscribe(i, f, t) \/ Renounce(i, f, t)) \/ Unsubscribe(i, t)
      PROVE  RegistryInv'
  BY <1>1, <1>2, Calls, SetSubscriptionKeeps DEF RegistryInv
<1>3. ASSUME NEW th \in Threads, StartClear(th) PROVE RegistryInv'
  BY <1>1, <1>3 DEF StartClear, RegistryInv, Unique, Covered, EventsOf, InForce
<1>4. CASE UNCHANGED <<reg, feed, asked>>
  BY <1>1, <1>4 DEF RegistryInv, Unique, Covered, InForce
<1>5. ASSUME NEW th \in Threads,
             \/ \E i \in Instruments, flags \in SUBSET Flags : StartBroadcast(th, i, MapOf(flags))
             \/ Visit(th) \/ EndBroadcast(th) \/ EndStream(th) \/ EndClear(th)
      PROVE  UNCHANGED <<reg, feed, asked>>
  BY <1>5 DEF StartBroadcast, Visit, EndBroadcast, EndStream, EndClear
<1> QED
  BY <1>2, <1>3, <1>4, <1>5 DEF Next, vars

\* The registry invariant holds in every reachable state.
LEMMA RegistryInvariant == Spec => []RegistryInv
BY RegistryInit, RegistryStep, PTL DEF Spec

(* No order of subscriptions and unsubscriptions gives a target a second   *)
(* entry of an instrument.                                                 *)
THEOREM TargetsAreUnique == Spec => []UniqueTargets
<1>1. RegistryInv => UniqueTargets
  BY DEF RegistryInv, Unique, UniqueTargets
<1> QED
  BY <1>1, RegistryInvariant, PTL

(* The feed delivers all that a registered target wants.                   *)
THEOREM FeedSuffices == Spec => []FeedCoversSubscriptions
<1>1. RegistryInv => FeedCoversSubscriptions
  BY DEF RegistryInv, Covered, FeedCoversSubscriptions
<1> QED
  BY <1>1, RegistryInvariant, PTL

(* What a target put together stays in force, with exactly these flags,    *)
(* whatever the other targets of the instrument do.                        *)
THEOREM SubscriptionsStay == Spec => []SubscriptionsInForce
<1>1. RegistryInv => SubscriptionsInForce
  <2> SUFFICES ASSUME RegistryInv, NEW i \in Instruments, NEW t \in Targets, asked[i][t] # {}
               PROVE  \E k \in DOMAIN reg[i] :
                        /\ reg[i][k].t = t
                        /\ \A f \in Flags : Test(reg[i][k].events, f) <=> f \in asked[i][t]
    BY DEF SubscriptionsInForce
  <2>1. PICK k \in DOMAIN reg[i] : reg[i][k].t = t /\ reg[i][k].events = MapOf(asked[i][t])
    BY DEF RegistryInv, InForce
  <2>2. asked[i][t] \in SUBSET Flags
    BY DEF RegistryInv, TypeOK
  <2>3. \A f \in Flags : Test(MapOf(asked[i][t]), f) <=> f \in asked[i][t]
    BY <2>2, MapsOfFlags
  <2> QED
    BY <2>1, <2>3
<1> QED
  BY <1>1, RegistryInvariant, PTL

-----------------------------------------------------------------------------
(* Broadcasts.  While a thread walks the vector, it has told those of the  *)
(* entries before it that match, and no one can take the lock to change it.*)

\* The targets of the entries of a vector before a position that have one of the events.
ToldBefore(v, next, events) == {v[k].t : k \in {k \in DOMAIN v : k < next /\ v[k].events \cap events # {}}}

Told(b) == b.next <= Len(reg[b.instr]) + 1 /\ b.told = ToldBefore(reg[b.instr], b.next, b.events)

BroadcastInv ==
  /\ TypeOK
  /\ \A th \in Threads : thread[th].at = "broadcast" => Told(thread[th])

\* The broadcast invariant holds at the start.
LEMMA BroadcastInit == Init => BroadcastInv
BY TypeInit DEF Init, BroadcastInv, Idle

\* Every step keeps the broadcast invariant: who is still to be told, and who was.
LEMMA BroadcastStep == BroadcastInv /\ [Next]_vars => BroadcastInv'
<1> SUFFICES ASSUME BroadcastInv, [Next]_vars, NEW x \in Threads, thread'[x].at = "broadcast"
             PROVE  Told(thread[x])'
  BY TypeStep DEF BroadcastInv
<1>1. thread \in [Threads -> {Idle} \cup Broadcasting \cup Clearing] /\ (thread[x].at = "broadcast" => Told(thread[x]))
  BY DEF BroadcastInv, TypeOK
<1>2. ASSUME thread'[x] = thread[x], reg' = reg PROVE Told(thread[x])'
  BY <1>1, <1>2 DEF Told
<1>3. ASSUME NEW i \in Instruments, NEW t \in Targets,
             (\E f \in Flags : Subscribe(i, f, t) \/ Renounce(i, f, t)) \/ Unsubscribe(i, t)
      PROVE  FALSE
  BY <1>3 DEF Subscribe, Renounce, Unsubscribe, SetSubscription, Unlocked
<1>4. ASSUME NEW th \in Threads, StartClear(th) PROVE FALSE
  <2>1. thread[x].at # "broadcast"
    BY <1>4 DEF StartClear, Unlocked
  <2>2. thread'[x] = thread[x] \/ thread'[x].at = "clear"
    BY <1>1, <1>4 DEF StartClear
  <2> QED
    BY <2>1, <2>2
<1>5. ASSUME NEW th \in Threads, NEW i \in Instruments, NEW flags \in SUBSET Flags,
             StartBroadcast(th, i, MapOf(flags))
      PROVE  Told(thread[x])'
  <2>1. CASE x # th
    BY <1>1, <1>2, <1>5, <2>1 DEF StartBroadcast
  <2>2. CASE x = th
    <3>1. /\ thread'[x].next = 1 /\ thread'[x].told = {} /\ thread'[x].instr = i
          /\ reg' = reg /\ reg[i] \in Seq(Entries)
      BY <1>1, <1>5, <2>2 DEF StartBroadcast, BroadcastInv, TypeOK
    <3>2. 1 <= Len(reg[i]) + 1 /\ \A k \in DOMAIN reg[i] : ~(k < 1)
      BY <3>1, EntriesOf
    <3> QED
      BY <3>1, <3>2 DEF Told, ToldBefore
  <2> QED
    BY <2>1, <2>2
<1>6. ASSUME NEW th \in Threads, Visit(th) PROVE Told(thread[x])'
  <2>1. CASE x # th
    BY <1>1, <1>2, <1>6, <2>1 DEF Visit
  <2>2. CASE x = th
    <3> DEFINE b == thread[x]
               v == reg[b.instr]
               e == v[b.next]
               told == IF e.events \cap b.events = {} THEN b.told ELSE b.told \cup {e.t}
    <3>1. b \in Broadcasting /\ b.next <= Len(v) /\ b.at = "broadcast"
      BY <1>1, <1>6, <2>2 DEF Visit, Idle, Clearing
    <3>2. v \in Seq(Entries) /\ b.next \in 1..Len(v)
      BY <3>1 DEF BroadcastInv, TypeOK, Broadcasting
    <3>3. thread' = [thread EXCEPT ![x] = [b EXCEPT !.next = b.next + 1, !.told = told]] /\ reg' = reg
      BY <1>6, <2>2 DEF Visit
    <3>4. b.told = {v[k].t : k \in {k \in DOMAIN v : k < b.next /\ v[k].events \cap b.events # {}}}
      BY <1>1, <3>1 DEF Told, ToldBefore
    <3>5. \A k \in DOMAIN v : k < b.next + 1 <=> k < b.next \/ k = b.next
      BY <3>2, EntriesOf
    <3>6. told = {v[k].t : k \in {k \in DOMAIN v : k < b.next + 1 /\ v[k].events \cap b.events # {}}}
      BY <3>2, <3>4, <3>5, EntriesOf
    <3> HIDE DEF told
    <3>7. /\ thread'[x].next = b.next + 1 /\ thread'[x].told = told
          /\ thread'[x].instr = b.instr /\ thread'[x].events = b.events
      BY <1>1, <3>1, <3>3 DEF Broadcasting
    <3>8. b.next + 1 <= Len(v) + 1
      BY <3>2
    <3>9. told = ToldBefore(v, b.next + 1, b.events)
      BY <3>6 DEF ToldBefore
    <3>10. reg'[thread'[x].instr] = v
      BY <3>3, <3>7
    <3>11. thread'[x].next <= Len(reg'[thread'[x].instr]) + 1
      BY <3>7, <3>8, <3>10
    <3>12. thread'[x].told = ToldBefore(reg'[thread'[x].instr], thread'[x].next, thread'[x].events)
      BY <3>7, <3>9, <3>10
    <3> QED
      BY <3>11, <3>12 DEF Told
  <2> QED
    BY <2>1, <2>2
<1>7. ASSUME NEW th \in Threads, EndBroadcast(th) \/ EndStream(th) \/ EndClear(th)
      PROVE  thread'[x] = thread[x] /\ reg' = reg
  <2>1. CASE x # th
    BY <1>1, <1>7, <2>1 DEF EndBroadcast, EndStream, EndClear
  <2>2. CASE x = th
    <3>1. CASE EndBroadcast(th) \/ EndClear(th)
      BY <1>1, <2>2, <3>1 DEF EndBroadcast, EndClear, Idle
    <3>2. CASE EndStream(th)
      BY <1>1, <2>2, <3>2 DEF EndStream
    <3> QED
      BY <1>7, <3>1, <3>2
  <2> QED
    BY <2>1, <2>2
<1>8. CASE UNCHANGED vars
  BY <1>2, <1>8 DEF vars
<1> QED
  BY <1>2, <1>3, <1>4, <1>5, <1>6, <1>7, <1>8 DEF Next

(* A broadcast that has walked the vector has told exactly the targets     *)
(* whose subscription matches.                                             *)
THEOREM BroadcastsTell == Spec => []BroadcastTellsSubscribers
<1>1. BroadcastInv => BroadcastTellsSubscribers
  <2> SUFFICES ASSUME BroadcastInv, NEW th \in Threads, thread[th].at = "broadcast",
                      thread[th].next > Len(reg[thread[th].instr])
               PROVE  thread[th].told = Matching(thread[th].instr, thread[th].events)
    BY DEF BroadcastTellsSubscribers
  <2> DEFINE b == thread[th]
             v == reg[b.instr]
  <2>1. v \in Seq(Entries) /\ b.next \in Nat
    BY DEF BroadcastInv, TypeOK, Broadcasting, Idle, Clearing
  <2>2. \A k \in DOMAIN v : k < b.next
    BY <2>1, EntriesOf
  <2>3. b.told = {v[k].t : k \in {k \in DOMAIN v : k < b.next /\ v[k].events \cap b.events # {}}}
    BY DEF BroadcastInv, Told, ToldBefore
  <2> QED
    BY <2>2, <2>3 DEF Matching
<1>2. Spec => []BroadcastInv
  BY BroadcastInit, BroadcastStep, PTL DEF Spec
<1> QED
  BY <1>1, <1>2, PTL
=============================================================================
