------------------------------ MODULE Storage ------------------------------
(***************************************************************************)
(* What StrategyContextImpl keeps in its database (impl/context.cpp, with  *)
(* interface/database.h): variables, the records of live orders and fills, *)
(* under keys that begin with the strategy's prefix and a byte for their   *)
(* kind.  Several strategies share one database, ordered by the bytes of   *)
(* its keys.  A context writes to a batch, which is committed after each   *)
(* event; it reads from the database.                                      *)
(*                                                                         *)
(* A key is a sequence of bytes.  The database behind IDatabase is not in  *)
(* the repository: Committed, Between and FirstFrom are what its interface  *)
(* and its callers say of it.                                              *)
(***************************************************************************)
EXTENDS Integers, SequencesExt, FiniteSetsExt

CONSTANTS
    Strategies,
    Prefix,           \* db_prefix of each strategy
    Names,            \* names of variables
    Orders,           \* orders: a stored id and an instrument
    FillsOf,          \* the fills an order can have: an id and a time, in the units of TimeStamp
    Times,            \* times of the strategies' calls
    Instruments,
    Base, Width,      \* a byte is below Base, a number has Width bytes: 256 and 8 in the code
    Micro,            \* units of TimeStamp per microsecond
    MaxTime,          \* TimeStamp::max()
    MaxVersion,       \* bound: how often a variable is set; its values are counted
    MaxKeys,          \* bound: keys in the database and the batches
    MaxGenerators     \* bound: generators of open orders at once

Fills == UNION {FillsOf[o] : o \in Orders}

ASSUME PrefixesDiffer ==
    \A s, t \in Strategies : s # t => ~IsPrefix(Prefix[s], Prefix[t])

\* duration_cast to microseconds rounds towards zero.
Micros(t) == IF t < 0 THEN - ((- t) \div Micro) ELSE t \div Micro

ASSUME ConstantTypes ==
    /\ Base \in Nat \ {0, 1} /\ Width \in Nat /\ Micro \in Nat \ {0} /\ MaxTime \in Nat
    /\ MaxVersion \in Nat

\* Keys are made of sequences of bytes.
ASSUME KeyParts ==
    /\ \A s \in Strategies : Prefix[s] \in Seq(Nat)
    /\ Names \subseteq Seq(Nat)
    /\ \A o \in Orders : o.id \in Seq(Nat) /\ IsFiniteSet(FillsOf[o])
    /\ \A f \in Fills : f.id \in Seq(Nat)

\* The first string of serialize_order is unique across accounts and exchanges, and fill_id is unique;
\* of the fills, no two of one id in one microsecond is enough.
ASSUME IdsDiffer ==
    /\ \A o, p \in Orders : o.id = p.id => o = p
    /\ \A f, g \in Fills : f.id = g.id /\ Micros(f.time) = Micros(g.time) => f = g

ASSUME NumbersFit ==
    /\ 2 * (MaxTime \div Micro) < Base ^ Width
    /\ Times \subseteq - MaxTime .. MaxTime
    /\ \A f \in Fills : f.time \in 0 .. MaxTime - Micro

\* Arithmetic: the powers of Base are what ^ is taken to mean.
ASSUME PowersOfBase ==
    /\ Base ^ 0 = 1
    /\ \A i \in 1 .. Width : Base ^ (i - 1) \in Nat \ {0} /\ Base ^ i = Base * Base ^ (i - 1)

VARIABLES
    db,          \* what is committed: a function from keys
    batch,       \* _batch of each strategy
    restoring    \* the generator of restore_open_orders a strategy iterates

vars == <<db, batch, restoring>>

-----------------------------------------------------------------------------
(* Keys and values. *)

\* A faulty variant: a mark below those of the other kinds.
OrderPrefixFirst == <<33>>

VarPrefix   == <<35>>     \* #
FillPrefix  == <<36>>     \* $
OrderPrefix == <<64>>     \* @

\* A faulty variant: the lowest byte first.
NumberReversed(v) == [i \in 1 .. Width |-> (v \div Base ^ (i - 1)) % Base]

\* append_number: the bytes of an unsigned number, highest first; a negative one wraps.
Number(v) == [i \in 1 .. Width |-> (v \div Base ^ (Width - i)) % Base]

\* The numbers a run needs.
NumberOf == [v \in {Micros(t) : t \in Times \cup {f.time : f \in Fills} \cup {0, MaxTime}} |-> Number(v)]

\* A faulty variant: variables have no mark of their own.
VarKeyBare(s, n) == Prefix[s] \o n

VarKey(s, n)   == Prefix[s] \o VarPrefix \o n
OrderKey(s, o) == Prefix[s] \o OrderPrefix \o o.id
FillKey(s, f)  == Prefix[s] \o FillPrefix \o NumberOf[Micros(f.time)] \o f.id

Var(x)    == [kind |-> "variable", of |-> x]
Record(o) == [kind |-> "order", of |-> o]
FillOf(f) == [kind |-> "fill", of |-> f]
Erased    == [kind |-> "erased", of |-> 0]

Before(a, b) ==
    \E n \in DOMAIN b : /\ \A i \in 1 .. n - 1 : i <= Len(a) /\ a[i] = b[i]
                        /\ n > Len(a) \/ a[n] < b[n]

-----------------------------------------------------------------------------
(* The database. *)

\* A faulty variant: an erasure is written like a value.
CommittedErasures(b) == b @@ db

\* The database once a batch is committed.
Committed(b) ==
    LET live == {k \in DOMAIN b \cup DOMAIN db : k \in DOMAIN b => b[k] # Erased}
    IN  [k \in live |-> IF k \in DOMAIN b THEN b[k] ELSE db[k]]

\* The keys of S, sorted.
Ascending(S) ==
    CHOOSE q \in [1 .. Cardinality(S) -> S] :
        \A i, j \in 1 .. Cardinality(S) : i < j => Before(q[i], q[j])

\* range: the keys from one bound to the other, in descending order if the first is the greater.
Between(from, to) ==
    LET Within(low, high) == {k \in DOMAIN db : ~Before(k, low) /\ Before(k, high)}
    IN  IF Before(to, from) THEN Reverse(Ascending(Within(to, from)))
                            ELSE Ascending(Within(from, to))

\* iterate, forward: the first key it comes to, if there is one.
FirstFrom(from) ==
    {k \in DOMAIN db : ~Before(k, from) /\ \A j \in DOMAIN db : Before(j, k) => Before(j, from)}

-----------------------------------------------------------------------------
(* The calls that only read. *)

\* A faulty variant: what is not committed is read too.
VarGetFromBatch(s, n) ==
    LET k == VarKey(s, n)
    IN  IF k \in DOMAIN batch[s] THEN batch[s][k].of ELSE IF k \in DOMAIN db THEN db[k].of ELSE 0

\* var_get_string; 0 is no value.
VarGet(s, n) == IF VarKey(s, n) \in DOMAIN db THEN db[VarKey(s, n)].of ELSE 0

\* A faulty variant: the second bound has no prefix.
VarListRangeBare(s, from, to) == Between(Prefix[s] \o from, to)

\* var_list_range puts the strategy's prefix before the bounds, but not the mark of variables.
VarListRange(s, from, to) == Between(Prefix[s] \o from, Prefix[s] \o to)

\* The value at the keys of a range of fills.
ExtractFills(keys) == [i \in DOMAIN keys |-> db[keys[i]].of]

FillBound(s, t) == Prefix[s] \o FillPrefix \o NumberOf[Micros(t)]

GetFillsFrom(s, t) == ExtractFills(Between(FillBound(s, t), FillBound(s, MaxTime)))

\* A faulty variant: the bounds in ascending order.
GetRecentFillsForward(s) == ExtractFills(Between(FillBound(s, 0), FillBound(s, MaxTime)))

GetRecentFills(s) == ExtractFills(Between(FillBound(s, MaxTime), FillBound(s, 0)))

-----------------------------------------------------------------------------
(* The calls that write, or that a step of the strategy remembers. *)

NoGenerator == [at |-> {}, order |-> {}, instr |-> 0, got |-> {}]

Init ==
    /\ db = <<>>
    /\ batch = [s \in Strategies |-> <<>>]
    /\ restoring = [s \in Strategies |-> NoGenerator]

\* What is held once values are written over what was.
Over(held, values) ==
    [k \in DOMAIN values \cup DOMAIN held |-> IF k \in DOMAIN values THEN values[k] ELSE held[k]]

Write(s, values) ==
    /\ batch' = [batch EXCEPT ![s] = Over(@, values)]
    /\ Cardinality(UNION {DOMAIN batch'[t] : t \in Strategies} \cup DOMAIN db) <= MaxKeys

\* var_set_string: the value after the one the strategy has set before.
VarSet(s, n) ==
    LET last == IF VarKey(s, n) \in DOMAIN batch[s] THEN batch[s][VarKey(s, n)].of ELSE VarGet(s, n)
    IN  /\ last < MaxVersion
        /\ Write(s, [k \in {VarKey(s, n)} |-> Var(last + 1)])
        /\ UNCHANGED <<db, restoring>>

\* var_erase looks the variable up and erases nothing.
VarErase(s, n) == VarKey(s, n) \in DOMAIN db /\ UNCHANGED vars

\* process_event(Order): all the fills the order has, again at every event, and its record.
ProcessOrder(s, o, state, fills) ==
    /\ LET record == [k \in {OrderKey(s, o)} |-> IF state = "done" THEN Erased ELSE Record(o)]
           stored == [k \in {FillKey(s, f) : f \in fills} |->
                         FillOf(CHOOSE f \in fills : FillKey(s, f) = k)]
       IN  Write(s, Over(stored, record))
    /\ UNCHANGED <<db, restoring>>

\* flush_batches
FlushBatches(s) ==
    /\ batch[s] # <<>>
    /\ db' = Committed(batch[s])
    /\ batch' = [batch EXCEPT ![s] = <<>>]
    /\ UNCHANGED restoring

\* The key after the strategy's own part begins as that of an order.
IsOrderKey(s, k) == IsPrefix(OrderPrefix, SubSeq(k, Len(Prefix[s]) + 1, Len(k)))

\* restore_open_orders: the generator takes the first key from its prefix on, in whatever part of the
\* database that is, and ends if that is not the key of an order.
StartRestore(s, i) ==
    /\ restoring[s] = NoGenerator
    /\ Cardinality({t \in Strategies : restoring[t] # NoGenerator}) < MaxGenerators
    /\ \E k \in FirstFrom(Prefix[s] \o OrderPrefix) :
          /\ IsOrderKey(s, k)
          /\ restoring' = [restoring EXCEPT ![s] =
                             [at |-> {k}, order |-> {db[k].of}, instr |-> i, got |-> {}]]
    /\ UNCHANGED <<db, batch>>

\* A turn of the loop of restore_orders: the exchange restores the order if it is one of the instrument.
\* The loop does not ask the database's generator for the next key.
RestoreTurn(s) ==
    /\ \E o \in restoring[s].order :
          /\ o.instr = restoring[s].instr
          /\ restoring' = [restoring EXCEPT ![s].got = @ \cup {o}]
    /\ UNCHANGED <<db, batch>>

\* The strategy drops the generator.
StopRestore(s) ==
    /\ restoring[s] # NoGenerator
    /\ restoring' = [restoring EXCEPT ![s] = NoGenerator]
    /\ UNCHANGED <<db, batch>>

\* The process of a strategy dies and is started again.
Crash(s) ==
    /\ batch' = [batch EXCEPT ![s] = <<>>]
    /\ restoring' = [restoring EXCEPT ![s] = NoGenerator]
    /\ UNCHANGED db

Next ==
    \E s \in Strategies :
        \/ \E n \in Names : VarSet(s, n) \/ VarErase(s, n)
        \/ \E o \in Orders, state \in {"live", "done"} :
               \E fills \in SUBSET FillsOf[o] : ProcessOrder(s, o, state, fills)
        \/ FlushBatches(s)
        \/ \E i \in Instruments : StartRestore(s, i)
        \/ RestoreTurn(s) \/ StopRestore(s)
        \/ Crash(s)

Spec == Init /\ [][Next]_vars

\* A strategy goes on with the generator it iterates.
FairSpec == Spec /\ \A s \in Strategies : WF_vars(RestoreTurn(s))

-----------------------------------------------------------------------------
(* Properties. *)

Keys(s) == {VarKey(s, n) : n \in Names} \cup {OrderKey(s, o) : o \in Orders} \cup {FillKey(s, f) : f \in Fills}
AllKeys == UNION {Keys(s) : s \in Strategies}
Values == {Var(x) : x \in 1 .. MaxVersion} \cup {Record(o) : o \in Orders} \cup {FillOf(f) : f \in Fills}

\* A value is what the kind of its key says, and names are the ones stored.
TypeOK ==
    /\ DOMAIN db \subseteq AllKeys
    /\ \A k \in DOMAIN db : db[k] \in Values
    /\ \A s \in Strategies :
          /\ DOMAIN batch[s] \subseteq Keys(s)
          /\ \A k \in DOMAIN batch[s] : batch[s][k] \in Values \cup {Erased}
    /\ \A s \in Strategies : restoring[s] = NoGenerator \/ restoring[s].at \subseteq AllKeys

(***************************************************************************)
(* The database holds a ledger of each strategy: whatever the others write *)
(* under their prefixes and whatever is written under the other marks, a   *)
(* commit changes its strategy's part as one step and a crash loses just   *)
(* what was written since.                                                 *)
(***************************************************************************)
FillsHeld(s) == {f \in Fills : FillKey(s, f) \in DOMAIN db}
Part(s) ==
    [vars   |-> [n \in Names |-> VarGet(s, n)],
     orders |-> {o \in Orders : OrderKey(s, o) \in DOMAIN db},
     fills  |-> FillsHeld(s)]
Pending(s) ==
    LET b == batch[s]
    IN  [vars   |-> [n \in Names |-> IF VarKey(s, n) \in DOMAIN b THEN b[VarKey(s, n)].of ELSE 0],
         orders |-> [o \in Orders |-> IF OrderKey(s, o) \notin DOMAIN b THEN "kept"
                                      ELSE IF b[OrderKey(s, o)] = Erased THEN "done" ELSE "live"],
         fills  |-> {f \in Fills : FillKey(s, f) \in DOMAIN b}]

OwnLedgers == INSTANCE Ledgers WITH
    Versions <- 1 .. MaxVersion,
    durable  <- [s \in Strategies |-> Part(s)],
    pending  <- [s \in Strategies |-> Pending(s)]

RefinesLedgers == OwnLedgers!Spec

(***************************************************************************)
(* A strategy that reads a variable never reads it older than it has read  *)
(* it before, also across a crash: var_get does not see what may be lost.  *)
(* Nor does it ever read that there is none again, although the interface  *)
(* has a var_erase.                                                        *)
(***************************************************************************)
ReadsNeverGoBack ==
    [][\A s \in Strategies, n \in Names : VarGet(s, n)' >= VarGet(s, n)]_vars

(***************************************************************************)
(* get_fills_from a time since 1970 returns, in the order of their times to *)
(* the microsecond, each fill since the microsecond of its argument once,  *)
(* although an order stores its fills at every event.  get_recent_fills    *)
(* returns all fills, in the reverse order.                                *)
(***************************************************************************)
FillsInTimeOrder ==
    \A s \in Strategies :
        LET recent == GetRecentFills(s)
        IN  /\ ToSet(recent) = FillsHeld(s)
            /\ \A t \in {t \in Times : t >= 0} :
                  LET fills == GetFillsFrom(s, t)
                  IN  /\ ToSet(fills) = {f \in FillsHeld(s) : Micros(f.time) >= Micros(t)}
                      /\ Cardinality(ToSet(fills)) = Len(fills)
                      /\ \A i, j \in DOMAIN fills : i < j => Micros(fills[i].time) <= Micros(fills[j].time)
                      /\ IsSuffix(fills, Reverse(recent))

(***************************************************************************)
(* A range of variables lists no key of another strategy, whatever its     *)
(* bounds are and whatever is stored: the prefix is before both of them.   *)
(***************************************************************************)
RangeStaysOwn ==
    \A s \in Strategies, from, to \in Names :
        \A k \in ToSet(VarListRange(s, from, to)) : IsPrefix(Prefix[s], k)

(***************************************************************************)
(* restore_open_orders has no end of its own range: it offers an order of  *)
(* another strategy to the exchange, but only to a strategy that has none, *)
(* and, if the prefixes are of one length, only of a neighbour that has    *)
(* stored nothing but orders.  (Where they are not, the byte it looks at   *)
(* is one of a name or of an id.)                                          *)
(***************************************************************************)
StrangersOnlyFromBareNeighbours ==
    \A s \in Strategies :
        \A k \in restoring'[s].at :
            restoring[s] = NoGenerator /\ ~IsPrefix(Prefix[s], k) =>
                /\ Part(s).orders = {}
                /\ \E t \in Strategies :
                      /\ IsPrefix(Prefix[t], k)
                      /\ Len(Prefix[t]) = Len(Prefix[s]) =>
                             Part(t).fills = {} /\ \A n \in Names : VarGet(t, n) = 0
StrangersAreRare == [][StrangersOnlyFromBareNeighbours]_restoring

(***************************************************************************)
(* "Scans database and restores all orders for given instrument"           *)
(* (context.h:164): a generator that stands at an open order and has not   *)
(* made a turn comes to every open order of its instrument from there on,  *)
(* unless the strategy drops it or the order ends before.                  *)
(***************************************************************************)
AheadOf(s) ==
    {o \in Part(s).orders : /\ o.instr = restoring[s].instr /\ restoring[s].got = {}
                            /\ restoring[s].at # {} /\ restoring[s].at \subseteq DOMAIN db
                            /\ \A k \in restoring[s].at : ~Before(OrderKey(s, o), k)}

RestoresAll ==
    \A s \in Strategies, o \in Orders :
        (o \in AheadOf(s))
            ~> (o \in restoring[s].got \/ restoring[s] = NoGenerator \/ o \notin Part(s).orders)
=============================================================================
