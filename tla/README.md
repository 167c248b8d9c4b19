# Quarkbot in TLA+

Quarkbot is a framework for trading strategies in C++. A strategy is a set of coroutines that
wait for events of exchanges, timers and messages, place orders and store variables; the
framework runs them on one loop and keeps orders and fills in a key-value database. This directory holds
TLA+ specifications of it, translated from the source, the TLC instances that check them, and
proofs checked by TLAPS. Paths below are relative to the repository (`src/impl/context.cpp`).

## The system

| component | state | operations | correct if |
|---|---|---|---|
| Strategy context: the loop (`impl/context.cpp`, `impl/ischeduler.h`) | `_queue`, `_alert`, `_quit_flag`, `_event_time`, seven kinds of distributors, `_internal_scheduler`, `_mx` | `push_event`, `pop_event`, `main_loop`, `process_event` (7 overloads), `flush_batches`, `handle_exception` | every event is dispatched once and in order; no coroutine is lost or resumed twice; no wakeup is lost; quit ends the loop |
| Strategy context: calls (`interface/context.h`) | the awaiters, `_next_timer_id`, `_batch_place`, `_batch_cancel`, `_batch` | `on_event` … `on_market`, `sleep_until`, `sleep_for`, `interrupt`, `place_order`, `prepare_order`, `update_account`, `update_instrument`, `restore_open_orders`, `var_*`, `get_*fills*` | nobody waits for what cannot happen any more; a sleeper wakes |
| Orders (`interface/order.h`, `impl/prepared_order.h`) | the `OrderState` of each order object, its fills | `apply_update`, `is_final`, `replace` | final states are final |
| Stored orders, fills, variables (`interface/database.h`) | database and batch; key spaces `@` orders, `$` fills, `#` variables behind the strategy's prefix | `set_key`, `erase_key`, `commit_batch`, ranges | what one event writes becomes durable together; the record of an order exists exactly while it is live; ranges return the keys meant |
| Subscriber (`impl/subscriber.h`) | `_reg`: per instrument a vector of targets and events; a shared mutex | `set_subscription`, `broadcast`, `clear` | the feed delivers what any target wants; a broadcast reaches the targets registered for it |
| Persistent AVL tree (`interface/wandering_bst.h`) | immutable shared nodes, a root per version; iterators with a path | `insert`, `replace`, `erase`, `find`, `lower_bound`, `upper_bound` | ordered, balanced, heights right; old versions unchanged |
| Order book (`interface/orderbook.h`) | two trees with opposite orders | `update`, `trim`, `remove_*_to`, `update_from_ticker`, `update_ticker` | holds the levels it was told; a ticker is on top and what is behind it stays; every read is of a level |
| Named enums, lookup table (`lib/utils/named_enum.h`, `static_lookup_table.h`) | constant tables | the parser of an enum's text, `get`, `from_string`, `to_string` | names and values correspond as the compiler has them |
| Flags (`lib/utils/flagmap.h`, `interface/market_event.h`) | bits | `set`, `reset`, `test`, the operators | a flag that is set is found again |
| Instrument arithmetic (`interface/fastdecimal.h`, `basic_types.h`, `instrument_info.h`) | – | rounding, `align_price`, `align_quantity`, `get_min_quantity_at_price`, `calculate_pnl` | on the grid, on the right side, no more off than rounding makes it |
| Configuration, parameters (`lib/utils/config.h`, `interface/parameters.h`) | the section being read | `parseIniStream`, `get_param` | values come back as written, errors are errors |
| Example strategy (`examples/strategy.cpp`) | two orders | quotes around the ticker | never crosses the book it quotes from |
| Serialization (`lib/utils/serialize.h`) | – | encodings | unused and not instantiable |
| Exchange, message queue, REST, websocket | – (interfaces) | – | external |

The interactions: exchanges and the message queue call `push_event` of a context, from the
scheduler's thread while the loop sleeps or from inside a coroutine's call; the loop resumes
coroutines through distributors, which call back into the context; orders and fills go to the
batch and, at `flush_batches`, to the database; the registry of an exchange pushes market events
to the contexts. A strategy takes its parameters from configuration, by names of enums among others,
and computes its prices from an order book and the information of an instrument.

What is hard here: the queue is written by the loop, by coroutines resumed inside the loop (even
inside `pop_event`, see below) and by other code; coroutines are held as handles that resume when
they are destroyed; one event is delivered through up to three distributors whose awaiters
register again meanwhile; the process may die between the writes of an event and their commit; the
registry is walked and changed by several threads; the strategies of one database are kept apart by the
bytes of their keys only; numbers are rounded several times on the way from a book to an order.

## Modules

- `StrategyContext.tla`: the loop and the strategy's calls, with orders, records, batches and
  restarts. Checked by `MCStrategyContext.tla` with `loop.cfg`, `live.cfg` and the
  counterexamples `burst.cfg`, `sleeper.cfg`.
- `StrategyContextProofs.tla`: theorems about it, for every value of its constants; about the loop, what is stored of an
  order, and who holds the handles of coroutines.
- `Storage.tla`: the key space of the database, what several strategies write to it and read from it.
  Checked by `MCStorage.tla` with `storage.cfg`, also against `Ledgers.tla`, a ledger per strategy, which it
  implements; counterexample `restoreall.cfg`.
- `StorageProofs.tla` (lemmas about keys and the bytes of numbers, the invariant and the refinement) and `RangeProofs.tla`
  (what ranges return): theorems about it.
- `Subscriber.tla`, over `FlagMap.tla`: the registry of subscriptions and the threads that use it. Checked by
  `MCSubscriber.tla` with `subscriber.cfg`; counterexample `unsubscribe.cfg`. `SubscriberProofs.tla`: theorems about it.
- `WanderingTree.tla`: the persistent AVL tree on a heap of shared nodes, its copies and iterators. Checked by
  `MCWanderingTree.tla` with `tree.cfg`, also against `MapCopies.tla`, the independent sorted maps it implements.
  `TreeProofs.tla` (lemmas about the functions on nodes) and `CopyProofs.tla`: theorems about it.
- `OrderBook.tla`: the order book over the sorted maps; `FastDecimal.tla`, `Market.tla`, `InstrumentInfo.tla`: numbers with
  decimals, market types and instruments, as pure operators; `Quotes.tla`: what a strategy computes from a book with
  them. Checked by `MCOrderBook.tla` with `book.cfg`; counterexample `firstticker.cfg`. `BookProofs.tla`: theorems about the book and about the numbers.
- `SortedMap.tla`: sorted maps as values, with what the tree's bounds return; used by `WanderingTree`, `MapCopies` and `OrderBook`.
- `NamedEnum.tla`, over `LookupTable.tla`: the parser of the text of an enum and the table it fills; `Config.tla`: the reader of
  configuration files; `Parameters.tla`: both together, the parameters of a strategy. Checked by `MCNamedEnum.tla` with `enums.cfg`.
  `EnumProofs.tla`: theorems about the parser and the tables.

### StrategyContext

`pc` is the place of `main_loop`: `top` (the outer loop), `drain` (the call of `pop_event`),
`popping` (inside `pop_back`, while it destroys an event), `process` (the event is dispatched),
`event out` / `timer out` / `idle out` (awaiters are being resumed; `todo` lists the
distributors still to be broadcast), `timers`, `rest` (the check of `_idle_dist`), `asleep`
(`sleep_until_alertable`), `quit`, and the two ends the code can come to, `hung` and `crashed`.
`resuming` holds the coroutines a broadcast has taken from a distributor, `cur` the one that runs; everything
of the loop waits until both are empty, as the C++ code does by calling them. A coroutine runs in
steps: any number of calls (`PlaceOrder`, `VarSet`, `Interrupt`, …) and then one suspension
(`Await`, `Sleep`, `AwaitOperation`, `Finish`).

`pop_event` is modelled as written: it moves from `_queue.front()` and drops `_queue.back()`.
`Popped` leaves the first event with an empty handle and removes the last; `DroppedCoro` is the
coroutine in the event destroyed. Minicoro's `prepared_coro` resumes what it holds when it is
destroyed, so it runs in state `popping`. If code run from there pushes an event, the push constructs in the
slot being destroyed: undefined, modelled as either the ordinary push or `crashed`.

`held` is who has locked `_mx`: `main_loop` from its first line until it returns, and `pop_event` or `push_event` for the time
of a call, while the loop has it. A second lock by the one thread is undefined behaviour of `std::mutex`. `mxLocks` (chosen at the
start, never changed) is its outcome: the second lock blocks (`CanLock` fails, and the loop is `hung`), or it does nothing, as
in a program linked without a thread runtime. That a mutex that locks stops the loop at its first event follows from `held` and is not
a property: nothing in the repository says which of the two is meant. All properties are checked for both.

Everything runs on one thread (the scheduler's), so other code pushes while the loop sleeps, before it starts, or from a
coroutine's call (`MayPush`). `LateLaunch` says whether a coroutine of the strategy may be started
by other code while the loop sleeps; then its `interrupt` leaves an event no alert announces.

What is abstracted: an order's contents (its closing fill has the order's name), the values of
messages and market events, `get_*` accessors, `cancel_all_orders` and channels (they only
forward); what keys look like is `Storage`'s. An exchange that supports order serialization is assumed
(`process_event` stores no record otherwise). `flush_batches` clears the orders to place and to
cancel and hands them to nobody; the exchange of the model knows an order once it has been created.

### Storage

A key is a sequence of bytes: the prefix of the strategy, a mark for the kind (`#`, `$`, `@`) and a name, or for a fill its time as a
number of eight bytes (here `Width` bytes below `Base`) and its id. `db` is a function from keys, `batch[s]` what a context has written
since its last `flush_batches`. The reads (`VarGet`, `VarListRange`, `GetFillsFrom`, `GetRecentFills`) are operators on `db`, the
writes and the turns of `restore_orders` are actions. `Between` and `FirstFrom` are what `IDatabase::range` and `iterate` are taken to
do: keys in the order of their bytes, the first bound included and the second not. `Ledgers` is the abstract
specification: a ledger of variables, live orders and fills per strategy, where what one event writes becomes durable together or
is lost together; `RefinesLedgers` maps `db` and `batch` to it key by key.

`restore_open_orders` has two surprises. Its iteration has no upper bound, and the byte at the place of the mark is all it
compares: `StrangersAreRare` says when it may offer another strategy's record; what it says of the neighbour holds for prefixes of one
length, since otherwise the byte compared belongs to a name or an id. And its loop never asks the database for the
next key, so it restores the first order for ever (`RestoresAll`). `var_erase` is a step that changes nothing;
`var_list_range` adds the strategy's prefix to its bounds, so that it lists keys of the strategy alone (`RangeStaysOwn`), but not the
mark of variables, so that between two names it finds orders, fills or nothing.

### Subscriber

`reg[i]` is the vector of an instrument. `Without` is the swap-and-pop of an unsubscription, `With` the update or
append of a subscription. `thread` holds what a thread does under the lock (`broadcast`,
entry by entry, under the shared lock) or after it (`clear`'s second half); `SetSubscription` and `StartClear`
need the lock exclusively and are atomic. `asked` is a history variable. The strategies make their maps with `FlagMap`, whose bit for the enumerator `f` is `1 << f`, as if the bitset of
32 were a number: the fifth and sixth throw, and then `set_subscription` is not called and the subscription stays as it was.

### WanderingTree and OrderBook

`heap` maps addresses to nodes. The functions on nodes (`DuplicateNode`, `Rotate`, `InsertInternal`, `DeleteInternal`) take a
heap and return the heap they leave with a node, so an assignment to a shared node is seen by every copy; this is what
makes `RefinesMapCopies` worth checking: the copies behave as maps of their own although the code assigns
heights in nodes they share. `Settle` ends each call: nodes no root reaches are freed, and the others are renamed to the first copy that
holds them and their key. The names are never compared but for equality, so renaming them only merges states.
Left and right are one definition with a side as an argument.

`stale` (and the variable `dangling`) marks a comparison of `*finkey` after an inner rotation has replaced the node it points into.
`FinkeyAlive` says it never happens: after an insertion has rotated, the heights above are what they were.

`upper_bound` does not return the first greater key: from a key of the map it returns the next smaller one, from another key
whichever neighbour the search ended on. `SortedMap!UpperBounds` is the set of its answers over all shapes of the
tree; `IteratorsFollowMap` checks that the tree's answer is in it, and `OrderBook` uses the set and not the tree. `trim` is
built on it; `TrimKeepsTail` says what it does, the reverse of what its parameters' names suggest. Nothing in the repository calls `trim`.

`OrderBook` has one action per call; the loops are recursive functions of the side that is left. A removal that runs off a side sets `undefined` and ends the
behaviour: the code reads an array 32 GB beyond its start. The prices of a book are multiples of its unit, so the comparators, which round a
difference, are exact; for prices off that grid they are not transitive, and nothing is modelled of it. The timestamp and the stream output are left out.

### FastDecimal, Market, InstrumentInfo, Quotes

A `double` is a fraction `[value, over]` of units of `10^-Decimals`, and a `FastDecimal` keeps its value unrounded and rounds it to its
count of decimals whenever it is converted. The error of a product or quotient of doubles is taken off by that rounding, with one exception that is
modelled: `align_price` and `align_quantity` take the floor, the ceiling or the nearest whole number of a quotient, which may come out next to the
whole number it is (`1.12 / 0.01` is just above 112, and its ceiling 113). `Floors`, `Ceils` and `Nearests` are the sets of what they may
make of it: a price on a tick may be moved by one, and aligning twice may move it twice. `MarketType` and `InstrumentInfo` compute with both, and where
the conversions fall decides the results: the multiplied price in
`get_min_quantity_at_price` and the profit of `calculate_pnl` are rounded to the decimals of the prices because their products are
`FastDecimal`s. The properties in `Quotes` are about every ticker, level and pair of levels of every reachable book, and every outcome of the
quotients: the example's quotes (`QuotesOutsideSpread`), asks that cover fees (`AsksCoverFees`), the quantity for a least volume
(`QuantityAllowed`) and profits (`PnlToPriceDecimals`).

### NamedEnum, LookupTable, Config, Parameters

`NamedEnum` reads the text of a declaration character by character, one action per case of `enumSyntaxParser`, and at
the end builds the table (`Indexed`, by any order `std::sort` may leave equal keys in). `Enumerators` is what the compiler
makes of the same declaration. A value that is a named constant is skipped by the parser; `OrderState` has one (`open = xxx`), and
`ParsedAsCompiled` says what becomes of such an enum. `LookupTable` has the branch-free search over the sorted index, by
its cycles.

`Config` reads a file line by line; a file is given by its entries, the blanks between them and the end of its lines. When the enum is
parsed, `Parameters` opens a file and takes its values for parameters of every type. An outcome is the set of the
value, empty for a `ConfigError`. `ConfigReadBack` follows a carriage return or a comment at the end of lines: they become part of the
values, and sections are lost. `ParametersTaken` is about the values of plain lines, and about booleans of any.

## Runs

| run | instance | shows |
|---|---|---|
| `loop` | 2 coroutines (symmetric), 1 order, 1 instrument, 1 variable, 3 pushes, 1 interruptible sleep, late launches, 1 restart | `TypeOK`, `HeldOnce`, `QuitEndsService`, `NoWaiterOnFinalOrder`, `RecordFollowsState`, `SettledTogether`; 1,600,000 states |
| `live` | 2 coroutines, operations, interrupts, exceptions, timers and a variable, 3 pushes, fair | `NoLostWakeup`, `QueuedCoroRuns`, `QueueDrains`; 360,000 states |
| `subscriber` | 3 targets, 2 threads, 3 flags of which one throws, 1 instrument | `TypeOK`, `UniqueTargets`, `FeedCoversSubscriptions`, `SubscriptionsInForce`, `BroadcastTellsSubscribers`; 57,000 states |
| `tree` | 2 copies, 5 keys, one of them with 2 values | `TypeOK`, `Balanced`, `FinkeyAlive`, `IteratorsFollowMap`, `RefinesMapCopies`; 32,000 states |
| `book` | prices 0, 1, 2 and 4, amounts 0 to 2; two normal instruments and an inversed one with other ticks, steps, fees and multipliers | `TypeOK`, `TickerOnTop`, `TickerRoundTrip`, `TrimKeepsTail`, `QuotesOutsideSpread`, `AsksCoverFees`, `QuantityAllowed`, `PnlToPriceDecimals`; 6,700 states |
| `storage` | 2 strategies, 2 variables, 2 orders with 3 fills, up to 3 keys, crashes | `TypeOK`, `FillsInTimeOrder`, `RangeStaysOwn`, `RefinesLedgers`, `ReadsNeverGoBack`, `StrangersAreRare`; 66,000 states |
| `enums` | declarations of 3 items in every notation and of up to 8 with gaps; files of two entries | `ParsedAsCompiled`, `BackAndForth`, `FirstOfEqualKeys`, `ConfigReadBack`, `ParametersTaken`; 36,000 states |
| `burst` | two events at once | `PopTakesHead` fails: the last event is lost, the first one stays, empty |
| `sleeper` | one sleep and no event | `SleeperWakes` fails: timers are served only after an event |
| `firstticker` | tickers given to a book that is empty at first | `TickerSimulatesBook` fails: the first ticker reads past the end of the empty sides |
| `unsubscribe` | one target | `Unsubscribes` fails: the last entry of a vector is never removed |
| `restoreall` | one strategy, two orders of one instrument, no variables | `RestoresAll` fails: with both orders open in the database, the loop hands the first record to the exchange at every turn |

The bounds. `MaxPush` bounds the events ever pushed: three put a first, a middle and a last event in
the queue, which is all `pop_event` distinguishes. Two coroutines are one that acts and one that is acted on (interrupted,
dropped, overtaken). The records of several orders are kept apart by their keys, which is `Storage`'s subject (`RefinesLedgers`, two orders);
here one order with a coroutine beside it lets its events fall between any two steps. One restart suffices because a second starts from the same kind of state, a database and the
exchange's orders. `MaxTime` 1 or 2 lets a timer be due or not. Instruments only select a vector
or a distributor. Three targets are a first, a middle and a last entry. Five keys
give every kind of rotation below another node and the erasure of a node with two children whose successor has a child or a
parent in between; rotations at two levels of one erasure need twelve keys and are beyond the run. One key with two values shows a
replacement in one copy to the other. Four prices leave levels on both sides of, at and
between any limits; they are in hundredths, and the ticks divide them, as prices of an exchange are multiples of its tick. The three
instruments have ticks with none, one and two decimals, so that the price wanted, the multiplied price and the profit are rounded in
some and exact in others, and steps that do and do not divide the quantities.
`book` stops where the code's behaviour ends, at the undefined read that `firstticker` shows.
Two strategies are one and its neighbour in the order of keys; numbers of three bytes below two have a highest, a middle and a lowest
byte, with two units of time to a microsecond; three keys put two of any kinds beside one of any other; one generator at once, since
generators share nothing. A name that begins with `@` tells marks from names. Tables of up to eight items include lengths at and
beside powers of two; the search sees every set of gaps. The enum of the parameters has a value with a number. Deadlock checking is off
for `StrategyContext`, where the bounds and `quit`, `hung` and `crashed` end behaviours.

Fairness (`FairSpec`): weak fairness of the loop's steps, of resuming the next coroutine, of a
running coroutine's next suspension, and of the clock. The code justifies the first two (plain calls
on one thread), the third is an obligation of the strategy, which blocks the loop otherwise. No
fairness is assumed of exchanges, operations or pushes. `Storage`'s `FairSpec` has weak fairness of the turns of a generator: a
strategy that iterates it goes on, or drops it.

Each property of a passing run is shown to depend on the code by a variant of a definition with a plausible bug
(the operators commented "A faulty variant", used only for that): for example `PopEventForgets` destroys
the dropped event's coroutine instead of resuming it, and `FlushBatchesPartly` commits the fills of an event
before its order.

Where the code and its comments disagree, a property states only what both say, and the models are written as the code is. Runs
of their own show the five disagreements listed as violated above. Those that no run shows:

- An announcement of a restored order erases its record although the order may be open at the exchange, since `is_final` holds for
  `restored` (`impl/context.cpp:156`, against `interface/context.h:170-171`). `RecordFollowsState` is about reported states.
- `var_list_range` does not put the mark `#` before its bounds (`impl/context.cpp:331`, against `interface/context.h:136-141`): between two names it
  lists no variables, unless the caller has put the mark before both.
- `get_fills_from` a time before 1970 finds nothing: the time wraps to a number above all others (`impl/context.cpp:360`, against
  `interface/context.h:156-160`). `FillsInTimeOrder` is about times since 1970.
- `align_price` for a bid with `cover_fees` subtracts one plus the fee ratio (`interface/instrument_info.h:92`, against 69-72): the bid of a dear
  price does not cover the fee, and that of a cheap one is negative. `AsksCoverFees` is about asks.
- `get_min_quantity_at_price` is not always the "absolute minimum" (`interface/instrument_info.h:176`): it is at least the tick size, which is a
  price; the multiplied price is rounded, so the least volume may be missed; and a quotient of doubles may come out a step too high.
  `QuantityAllowed` is that the quantity is not too small where the multiplied price is exact.
- A text that is no name of an enum is a zero, and a number ignores what is behind it (`interface/parameters.h:39` and `:48`, against
  `interface/context.h:254`, an error for an unexpected format). `ParametersTaken` is about values of their format.

## Proofs

Every theorem is about all values of the constants that satisfy the named assumptions of the modules, so about any number of
coroutines, orders, targets, strategies, prices and instruments and any bounds; all bounds in the models only limit what can be
pushed or counted. Each theorem but `DefinedIfDeep` states a property that a run checks too.

| module | theorems | argument |
|---|---|---|
| `StrategyContextProofs` | `TypeCorrect`, `QuitService`, `NoWaiter`, `NoLostWakeups`, `RecordsFollowStates`, `FillsSettle`, `CoroutinesHeldOnce` | below |
| `SubscriberProofs` | `TypeCorrect`, `TargetsAreUnique`, `FeedSuffices`, `SubscriptionsStay`, `BroadcastsTell` | `RegistryInv`, `BroadcastInv` |
| `StorageProofs` | `RecordsFitKeys`, `ReadsStay`, `LedgersImplemented` | `StorageInv`; a refinement, step by step |
| `RangeProofs` | `FillsOrdered`, `RangesOwn`, `StrangersRare` | the order of keys, over `StorageInv` |
| `CopyProofs`, over `TreeProofs` | `TreeTypeOK`, `TreeBalanced`, `TreeFinkeyAlive`, `TreeRefinesMaps`, `TreeIterators` | the inductive `TreeInv`; a refinement, step by step |
| `EnumProofs` | `EnumeratorsFound`, `FirstKeysFound`, `NamesConverted` | `ParserInv`, character by character; the halvings keep what is sought in their part |
| `BookProofs` | `LevelsPositive`, `TrimKeeps`, `DefinedIfDeep`, `TickerIsOnTop`, `TickerReadBack`, `QuotesOutside`, `AsksAreCovered`, `QuantityIsAllowed`, `PnlIsRounded` | closed forms of the loops; arithmetic of rounding; over `TypeOK` |

The loop. From `NamesDiffer` (names of distributors and `None` are distinct) and `ConstantTypes`:

- `TypeCorrect`: one lemma per group of actions.
- `QuitService`: `QuitEndsService` alone is not inductive (the loop could hang with the flag set). `LoopHolds` is that a mutex that locks is
  with `main_loop` from its first line on, at the program points before the first dispatch; so `QuitInv` can add that such a
  loop never sets the flag.
- `NoWaiter`: `NoWaiterOnFinalOrder`, inductive together with the types: the check in
  `on_order_update` guards every new awaiter, and `apply_update` is followed by the broadcast that is first in `todo`.
- `NoLostWakeups`: `WakeInv` adds that coroutines run only inside the loop's calls (if none is launched
  while it sleeps) and that the loop goes to rest on an empty queue.
- `RecordsFollowStates`: `RecordFollowsState`, inductive with the types; `StoredOrder` and `CommitKeepsOrders`
  say what a write and a commit do to the records.
- `CoroutinesHeldOnce`: `HeldOnce` counts what is in nine kinds of places. `HeldInv` says instead that exactly one place has
  the handle (`HeldIn`) and has it once (`OneWait`, `OneTimer`, `OneQueued`), which every action moves from one place to
  another. It needs to know that the loop only overwrites its event when the handle in it has been taken
  (`EventTaken`) and the list of the coroutines to resume when it is empty (`ResumedFirst`); a state where an event is popped over
  an undelivered one would lose a handle. It says nothing of a `crashed` loop.
- `FillsSettle`: `SettledTogether` is about the database only. Its inductive form `SettledInv` follows an order through everything that is
  on its way: an order that was not placed has left no trace (`Unplaced`); updates behind a final one in the queue are final, and
  the exchange has closed the order (`FinalIsLast`); once the closing fill has been written, the order has no record, in batch or database,
  and no update that would write one is pending (`FillClosed`). Without `FinalIsLast` an update that is still in the queue would bring the
  record back in a batch of its own.

The registry. From `BitsDiffer` (`Position` gives different flags different bits). `RegistryInv` has three parts that need each other: a
target is once in a vector, the feed is told at least the events of all entries, and an entry has what its target asked for. The swap-and-pop keeps the
others' entries only because targets are unique. `BroadcastInv` says of a thread in the middle of a vector that it has told the entries
before its position that have one of its events (`Told`), which holds as no vector changes under the shared lock.

The key space. From `PrefixesDiffer` (no strategy's prefix begins another's), `KeyParts` and `IdsDiffer` (keys are bytes, ids of
orders are unique and so are ids of fills of one time), `NumbersFit` (times fit in `Width` bytes) and `PowersOfBase` (what `^` is taken to
mean). `StorageProofs` first shows that keys of different strategies, kinds or contents differ (a number of fixed width is followed by an id) and that the bytes of
a number are in the order of the numbers. `StorageInv` is that every key holds a value of its kind and is of its strategy, that a variable in a
batch is not older than in the database, and that a generator is at a key. `LedgersImplemented` shows
that the initial states are those of `Ledgers` and each step is one of its steps or a stutter. In `RangeProofs` the sorted enumeration of a range is the only
sequence that is ascending and has its elements: a key's position is the number of keys before it (`Rank`).

The tree. From `LessAssumption` (`Less` is a strict total order), `ItemsAssumption` and `CopiesAssumption`. `Tree(h, n, H, I)` says that the
nodes of heap `h` from `n` down are a balanced search tree of height `H` with the items `I`; each function on nodes is shown to take such trees to
such a tree, with items and a height told (`TreeProofs`: rotations, insertions, erasures), in a heap that is the old one and new nodes. The calls
recurse on children, which are lower: a set of nodes with a property that fails has a lowest node where it fails. `TreeInv` is that every node is in
a tree of a copy and nothing freed has been read; an insertion that rotates keeps the height it had, and so nothing above it rotates or reads `finkey`.
`Settle` renames nodes and keeps trees (`Settles`), although it moves nodes that copies share. `TreeRefinesMaps` maps a copy to the function its items are
(`Mapping`), and shows each call to be the call of a map. For `TreeIterators` the path of a search is followed down: it ends at the key, or at a nearest
key on one side, which is all `upper_bound` knows of it; `next` and `prev` go to the nearest key of the whole tree (`WentOn`), since what is beyond a
subtree is above the last turn of the path.

The parser. From `LettersAlone` (blanks, commas, equality signs and apostrophes are in no identifier) and `DeclarationsWritten` (a declaration has
items, names of at most `Longest` letters and values in the documented notations, or names of constants in which no digit stands). `ParserInv` places
the parser in an item (`Within`): what is left of the text is what is behind that place, what has been collected is the beginning of the item's name, or the name
and the remainder of the number that the beginning of its value is (`ItemRead`, `ValueRead`), and what has been found is what the compiler
makes of the items before. One lemma per class of characters says which action reads it. Since remainders can be taken at any digit
(`Remainders`), an overflow in between does not matter. A constant in whose name a digit stands would be read as that digit, which the assumption excludes.

The tables. `FirstKeysFound` needs no assumption: the search of a table of length n has at most `log2[n]` halvings. Beside the part the code
keeps, the proof counts a part that is halved exactly (`Narrowed`): the code's part is no longer, or longer by one while its first item is below what is
sought, so that n positions are halved down to nothing and the one after the part is the boundary (`LowerBoundIs`). What `std::sort` leaves is a
permutation in which nothing stands before what is less (`SortingsSort`); the constructor orders equal keys by their position. `NamesConverted` also needs
`CharactersCoded` (characters have codes of their own, so of two names one is less, `NamesOrdered`) and `DeclarationsCompile` (names differ and values
fit their type): `TableInv` says that the table is one of those the items found may become (`Reordered`), the index
finds the only item of a name (`FindsName`), and no search finds what is not there (`FindsNoKey`, `FindsNoName`), in a sequence of keys or not.

The book. From `PricesAssumption` (a finite set of natural prices on the book's grid), `AmountsAssumption`, `PowersOfTen`, `InfoTypes` (what is
not negative or zero in an instrument) and `TicksDividePrices`. A loop over a side is shown to be the set of levels that are not removed
(`RemoveAsks`, `RemoveBids`, `TrimBids`, `TrimAsks`): the closed form solves the equation of the loop, and no other function does. So a removal is
undefined exactly if no level is left to end it (`DefinedIfDeep`), and `trim` has one result although each `upper_bound` may have several. The numbers rest
on what a division is: what `Floors`, `Ceils` and `Nearests` hold is a multiple of the grain, not above, not below, or off by half of it at most, and
no further off than a grain; `Round` is off by at most half a grain, leaves what is on the grid, is odd, and only
depends on the ratio of its arguments (`RoundScale`). For the quotes: the ticker is a multiple of the tick, and so of the decimals, so neither the rounding to
decimals nor a quotient that comes out next to its whole number carries the price over the ticker. For the profit of an inversed market: the fraction has a
factor of `One` above and below.

Induction over data is out of the prover's reach; what stands in for it here are least elements: a set of naturals has a least one
(`LeastNat`), and among sets of prices with a property there is one that contains no other with it (`LeastSet`). A recursive function is shown
to exist in the same way (`RecursiveFunction`, where a rank of the arguments decreases), and to be unique.

Only model-checked: the liveness properties (`QueuedCoroRuns`, `QueueDrains`), which are out of the prover's reach; and
`ConfigReadBack` and `ParametersTaken`, which the run checks for the texts it enumerates.

## Plan

Done: `StrategyContext`, `Subscriber` with flags, `WanderingTree` and `MapCopies`, `OrderBook`, `Storage` and
`Ledgers`, the instrument arithmetic and quotes, enums, configuration and parameters; theorems about all of them but configuration and
parameters.

Left: theorems about files of parameters, and the hazards that no property covers yet.

## Not modelled

- REST and websocket clients: interfaces without code. Accounts, instruments, positions, wrappers, generators and iterators: handles that
  forward and value types.
- `serialize.h`: nothing includes it, and most of its templates do not compile when they are instantiated, so there is no behaviour.
- `Config::parse`, a stub, and with it the sections that `open` and `get_derived_sections` look up; `get_param_string`, which is
  declared and defined nowhere.
- Floating point but for the quotients of the alignments: its other errors are taken to be smaller than what is rounded off. The count of decimals
  in the last bits of the mantissa. Printing.
- The order the example strategy cancels and replaces its orders in, and what exchanges do behind their interface.
- Minicoro itself, a submodule whose sources are absent: its distributors, schedulers and coroutine handles are
  modelled from their use. The database behind `IDatabase`, likewise.
- The limit of 64 levels of a tree iterator; data races on the heights of nodes that copies of a tree share.
- The lock order of `broadcast`/`push_event` and `set_subscription`: with a mutex that locks, the loop hangs at its first event
  (`LoopHolds`), before a coroutine could call `set_subscription`.
