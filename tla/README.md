# Verification of rtex

rtex connects to the Binance spot exchange with web sockets. It has two
programs: the *trader* (`src/trader_main.cpp`), which runs the triangular
arbitrage strategy `CircularArb`, and the *recorder* (`src/recorder_main.cpp`),
which appends market data to one CSV file per symbol between two dates. Both
own a `BNBBroker` (requests and answers) and a `BNBFeeder` (subscriptions and
updates); both of these are `WebSocketListener`s: a websocketpp client with one
thread that runs its event loop. Paths below are relative to the repository.

Everything here is TLA+, checked with TLC on small instances; the modules named
`*Proofs` hold theorems for every value of the constants, checked with TLAPS.

## Inventory

| component | state | operations | what makes it correct |
|---|---|---|---|
| `WebSocketListener` (`src/common`) | `isConnected_`, `hdl_`, `con_`, the mutex and condition of a connection; the client's event loop | `connect`, `startClient`, `stopClient`, `onOpen`, `onFail`, `onClose`, `writeWS` | no message before the handle is there; no message given up on a live connection; writers are released; a stop is never lost |
| `BNBBroker` | `pending_requests_`, `stored_responses_`, `response_cv_`, `brunning_`, `bws_thread_` | `start`, `stop`, destructor, `sendRequest`, `getResponseForId`, `onMessage` | every answer reaches everyone who waits for it, whatever the order; the thread ends before the object |
| `BNBFeeder` | `update_queue_`, `queue_cv_`, `pending_requests_`, `frunning_`, `fws_thread_`, `wsPersistConnection_`, `maxStreamsSubs_` | `start`, `stop`, destructor, `subscribeToTickers`, `getUpdate`, `onMessage`, `onClose`, `onFail` | every symbol subscribed once; updates handed out in order, once; no consumer sleeps on a queued update |
| `CircularArb` | `stratPaths_`, `balance_`, `marketData_` | `initialize`, `computeArbitragePaths`, `evaluatePath`, `onMarketData`, `run` | the paths are the triangles; the view of a book is current or known to be late; a signal can be executed at the books it was computed from |
| `ExchangeInfo`, `SymbolFilter`, `Order`, `Symbol`, `Signal` | none | parsing, rounding, validation | rounding stays within the means and the filter; the validators agree with the exchange |
| `BNBRecorder` | `symbol_file_map_`, the files and their streams | constructor, `run`, `getSubscriptionList`, `recordData`, `openFileForSymbol`, destructor | files of several runs: order, no loss, headers; ends with its date |
| `Scheduler`, `RecorderMonitor` | start and stop time; gauges and counters | `waitStart`, `timeUntil`; `updateMetrics` | nothing outside the date; the counters are what was recorded |
| `StreamsClient` | `pendingRequests_`, `nextRequestId_`, `maxStreamsSubs_` | `subscribeToStreams`, `unSubscribeToStreams`, `listSubscriptions`, `setProperty`, `onMessage` | every name in one request; pending requests are those that wait |
| `BNBRequests` | the keys of the last broker (`RequestsBuilder::getInstance`), the ids | `exchangeInformation`, `information`, `symbolOrderBookTicker`, `testNewOrder`, `signRequestHMAC` | a signature the exchange can verify; a quantity that survives its text |
| the mains, `BNBMarketConnectionConfig`, `CircularArbConfig` | the options, the configuration | `main`, `loadConfig`, the constructors | the loop is reached only as asked for; a failure is reported |
| market data frames, `logger` | none | formatting | not modelled: pure functions and output |
| `RLStrategy`, `LiveTrader` | | | not modelled: nothing builds or uses them at this commit |

How they interact. The main thread creates broker and feeder, calls `start` on
each, and from then on there are three threads: the main one and an event loop
for each connection. Broker: main thread writes a request through `writeWS`,
the event loop runs `onMessage` when the answer comes, `response_mutex_` and
`response_cv_` join the two. Feeder: the event loop pushes frames on
`update_queue_`, the main thread pops them in `getUpdate`; `pending_requests_`
of the feeder is shared *without* a lock. The handlers of a lost connection run
on the event-loop thread. Destructors run in the opposite order of the members,
also on the way of an exception to the handler of a main.

What is hard: answers that race with the question; condition variables with
several waiters and spurious wake-ups; a `stop` that races with a thread which
has not begun; handlers that call `stop` on the thread they run on; the loss of
a connection at any moment; a market that moves between the steps of a startup;
a recorder that dies between two writes and is started again over its files;
streams that fail without a word; dates compared at some points of a loop only;
chunk sizes computed by division; filters read with other defaults than the
exchange's; a remainder of doubles compared with zero; threads whose death is the
death of the process; a key that is used with whatever method the configuration names.
`PROJECT.json` lists the hazards at their lines with the properties that watch
them.

## Modules

| module | models | composes |
|---|---|---|
| `WebSocketListener` | the base class, its thread, its writers, the network | |
| `BNBBroker` | the broker, its owner, its callers, the exchange's answers | EXTENDS `WebSocketListener` |
| `BNBFeeder` | the feeder, its owner, its consumers, the exchange's streams | EXTENDS `WebSocketListener` |
| `RequestReply` | *abstract*: what a broker promises its callers | |
| `UpdateStream` | *abstract*: what a feeder promises its consumers | |
| `StreamsClient` | the streams connection that is to replace the feeder's own code | EXTENDS `WebSocketListener` |
| `SymbolFilter` | rounding and validation, pure | |
| `ExchangeInfo` | symbols and filters of a response, and the exchange's reading of them, pure | EXTENDS `SymbolFilter` |
| `FilterRules` | the filters of a symbol against the exchange's, quantity by quantity | EXTENDS `ExchangeInfo`; INSTANCE `BNBRequests` |
| `ArbPaths` | path search, path evaluation, pure | EXTENDS `ExchangeInfo` |
| `CircularArb` | the trader | EXTENDS `ArbPaths`; INSTANCE `RequestReply`, `UpdateStream` |
| `BNBRequests` | the requests: ids, parameters, signatures, numbers in texts, pure | |
| `Programs` | the two programs from the command line to the loop and out again | EXTENDS `BNBRequests` |
| `Scheduler` | the arithmetic of the schedule, pure | |
| `BNBRecorder` | the recorder, its files, its restarts | EXTENDS `Scheduler`; INSTANCE `UpdateStream` |
| `MC_*` | the instances for TLC | |
| `*Proofs` | theorems | |

`BNBBroker` and `BNBFeeder` are shown to implement `RequestReply` and
`UpdateStream`; the two programs are then modelled over these promises, so that
a market and three threads do not have to be explored together. Names of
variables and actions are those of the code. Definitions under a comment that
begins with `Mutant:` are plausible wrong versions of an operation; they are
part of no specification and are there to see that the properties notice them.

### WebSocketListener

`thread` is where the event-loop thread is: created, in `connect`, in
`startClient`, in `client_.run()`, between the two halves of a handler, gone.
`con_`, `stopped` and the handlers' dispatch are websocketpp's, modelled from
their use. `onOpen` is two steps, because `hdl_` is stored outside the mutex
and `isConnected_` inside. `writeWS` is four: the call, the test of
`~isConnected_` (the bitwise complement of a `bool`, never zero: every writer
goes on to the lock, and the comment's fast path does not exist), the critical
section that waits, and the `send`, which may throw; the message is then logged
and forgotten (`dropped`). A critical section that cannot block inside is one
step. `proc` says how the process died: a null `con_` dereferenced by the log
statement of `startClient`, `std::terminate`, or an assertion (no build file
defines `NDEBUG`, so the assertions of the json library are live).

### BNBBroker

One action per operation; `getResponseForId` is `GetResponseForId` (the look at
both maps under the lock) and `AwaitResponse` (a return from the wait);
`SpuriousResponseWake` wakes for nothing. `stop` is the steps of its body, as it
runs on the owner's thread while the event loop goes on. `OnMessageWithoutId` is
an answer with no usable id: `value()` throws, the handler's own `catch`
(`BNBBroker.cpp:143`) logs, nothing is stored. `answered` is a history variable: what the exchange said. The owner may
stop and destroy at any time no call is in progress. One connection per broker:
after a `stop` the io_service stays stopped and no owner starts a broker twice.
The branch of `onMessage` for the answer of a login is not modelled: with login
on connection, `start` throws at the missing key before a login can be sent
(`Programs` shows what becomes of that exception).

### BNBFeeder

`subscribeToTickers` is its wait for the connection, then for each chunk the cut
(`NextChunk`), the write, and the insertion of the id, in that order; the
response may come before the insertion (`OnUnexpectedResponse`, which reaches
the parser of market data and its assertion) or during it (`OnResponseRacing`,
a data race on the set: a hit or a miss). A loss of the connection is one
handler: for a persistent feeder it calls `stop` on its own thread, whose
`join` throws (`proc = "terminate"`). `OnFrame` pushes under the lock,
`NotifyFrame` notifies after it. At this commit `BNBFeeder.cpp` still names
`connection_mutex_`, `connection_cv_` and `is_connected_`, members that moved to
the base class under other names (`connectionMutex_`, ...): the tree does not
compile as it is; the model takes them to be the base class's. (Nor does the
recorder: `BNBRecorder.cpp:32` passes a function `BNBRequests::getExchangeInfo`,
which does not exist, and `{}` to the broker's `sendRequest`, which takes an id
and a text; the model takes it for the request of `exchangeInformation`, as the
trader makes it.) Nobody calls a
feeder that is being destroyed; the thread `Stopper` may stop it at any other
time, also in the middle of a subscription.

### StreamsClient

The class under `marketConnection/ws` that is to take over the subscriptions; it
handles them as the feeder does, with four differences the model keeps: the list
is not cut at the limit, an answer that is not found is ignored (it does not
reach a parser), errors remove their id too, and `listSubscriptions` and
`setProperty` end without a `return` (the id a caller gets is any number,
`InsertSingle`). Its caller makes one call at a time; other threads write texts
of their own through the public `writeWS`, and any thread may stop the client,
so that the run of this module is also the run of the base class. The insertion
of an id races with its lookup as in the feeder (`OnResponseRacing`); `raced`
and `unmatched` are history variables, and `PendingAccounted` says how far the
accounts are right in spite of it.

### SymbolFilter, ExchangeInfo, BNBRequests

Pure. Decimals are multiples of `Grain`, and a double is the number that the
constant `Rounding` gives for an exact result (`Nearest`): what `std::stod` makes
of a text (`Stod`), and what an addition, a subtraction or a multiplication of
doubles makes of their exact result. Of `Rounding` only what IEEE 754 asks of
rounding to nearest is assumed (`RoundingAssumption`: a double stays, the order is
kept), and that it is off by less than a `Precision`-th (`PrecisionAssumption`;
2^53 for a double, 2^9 in the instance). `fmod` of two doubles is exact, but it is
the remainder by the double of the step: `RoundToNearest` rounds its difference
and its sum, and the remainder of a decimal multiple of the step need not be zero.
A division is left out, nothing here divides.

`ExchangeInfo` folds the entries of a response into a `SymbolFilter`; a filter
that is not sent is zeros, a later entry of a type replaces an earlier one, and
its operator `ExchangeTakes` is the reading the exchange gives the same entries,
in decimals (external: its documentation is what the field names come from).
`FilterRules` walks a decimal quantity upwards under each list of filters, gives
the program the double nearest to it, and compares; prices are whole numbers,
and nothing is so large that its last decimal is lost in a double
(`ValuesAssumption`). `MC_Filter` has several thousand lists, in tenths, and
doubles of nine bits, in which 0.1, 0.2, 0.3 ... are off as they are in 53.
`BNBRequests` keeps of a request its id, method and parameters; a signature is a
term that nobody makes without the same secret and payload, and `TextOf` is the
six decimals of `std::to_string`.

### Programs

Three threads: the main one from `getopt` to the exit code, and from `Start` on
those of the broker and of the feeder. An option is a letter with its argument,
the ini file maps keys to texts; a key that is not there is `Missing`, which is
not the empty text: `loadConfig` throws or takes its default for the first and
takes the second as it is. Of an endpoint it matters whether `get_connection`
takes it for a URI (`""` stands for one that it rejects). `Throws` sends an
exception to the handler of `main` where there is one (the recorder), by way of
the destructors (`Leave`), or to `std::terminate` (the trader, up to the end of
its constructor). The broker's `start` creates its thread before it throws over a
login.

What the threads of the connections do to the process, whatever main is doing, is
in `StartClientDies` (`connect` gave up on the endpoint, and `startClient`
dereferences the null `con_`), `ReconnectDies` (a feeder with `ws_persist_connection`
whose connection fails or closes joins its own thread) and `ParseDataDies` (the
response to a subscription came before its id was inserted, `ResponseTooEarly`, and
an assertion fails; main may be in its loop by then). Main gets past a request or
the subscription only when the connection is open, that is when the thread runs and
the endpoint is a URI; it waits for ever otherwise. The destructors join the
broker's thread always and the feeder's once `frunning_` is TRUE (`JoinsReturn`: a
thread on its way to its death is waited for, and dies); the destructor of a feeder
whose thread has not begun destroys a joinable `std::thread`. The exchange sends
what it documents: a frame that is no market data, or a response of another form,
is not among the causes. What the loops do is in `CircularArb` and `BNBRecorder`;
of the trader's loop only the requests are kept.

### CircularArb and ArbPaths

A book is its version in the history `Books[name]`. The main thread asks three
times (symbols, balances, snapshot), subscribes, then loops: take an update,
look for a signal, send its orders one by one. `MarketMoves` may happen between
any two steps, and is fed only if subscribed; an answer carries the books of the
moment it is made, not of the moment it is read. `FeedLost` is what `BNBFeeder`
does on a loss, seen from the strategy: the process ends, or silence.
`missed` is a history variable. The feed begins in one step with the return of
the subscription; in the code the frames of its first requests may come a little
before it returns and those of the last after it, while the strategy reads neither.
Amounts are integers and products with the fee are rounded down, where the code has
doubles: `ExactAssumption` says that every amount is a double, and the properties
compare amounts by their order only (spend at most what came in). What doubles do
to the rounding of an amount is in `FilterRules`.
`onMarketData` never sets `maxPnl`: the *last* profitable path is returned, not
the best one, and the model says so. `TradedSymbols` is the loop of
`ExchangeInfo`: an exception in one symbol's filters leaves the loop and drops
all symbols after it.

### BNBRecorder

`now` is time in half seconds (`Second = 2`), so that the cuts to whole seconds
of `Scheduler` show. `files` and nothing else survives `Die`; `Restart` begins a
new run. `recordData` is the test of the map, `openFileForSymbol` as the creation
of the file and then its header, and the write of the line: a crash may fall
between any two. A line is written whole or not at all: a crash or a full disk in the middle
of one `write` would leave a part of it, which the model counts as lost. A file is
opened with `ios::app` if it exists. `endl` flushes
each line. The streams of the symbols in `Fragile` may fail to open (no file
handle) or fail while they write (a full disk): the code looks at neither, the
stream stays in the map, and everything written to it afterwards is lost
(`swallowed`), except that the line whose flush failed may yet reach the file
when it is closed.

## Runs

All of them with `tlc -workers 2 -config X.cfg M`. Every property of a passing
run is violated by at least one mutant of the code (`PROJECT.json`, `mutants`).

| run | instance | question | result |
|---|---|---|---|
| `listener` | `StreamsClient` over the base class: the caller and another writer, lists of 2 and 3 names, limits 3 and 8, 2 requests | is a message ever sent without a handle, or dropped on a live connection; are writers and the thread released; is a list cut without loss; are the pending requests those that wait | holds |
| `broker` | 2 threads, 2 requests, 2 answers | are requests and answers matched in every order; does anyone sleep on an answer; do `stop` and the destructor end the thread; does it implement `RequestReply` (with liveness) | holds |
| `broker_answered` | 1 thread, 1 request | is a request that was made always found | **violated** |
| `feeder` | 2 threads, one of which stops, lists of 1 and 5 symbols, limits 3, 4 and 9, 4 requests, 2 frames | is each symbol subscribed once within the limit; does a consumer sleep on a frame; do subscription, `stop` and destructor complete; does it implement `UpdateStream` (with liveness) | holds |
| `feeder_recovery` | 1 thread, 1 symbol | does a feeder survive the loss of its connection | **violated** |
| `feeder_early_ack` | 1 thread, 1 symbol | is a response ever taken for market data | **violated** |
| `feeder_stop` | 2 threads, 1 symbol | does a consumer leave `getUpdate` when the feeder is stopped | **violated** |
| `filter` | lists of LOT_SIZE, MARKET_LOT_SIZE, NOTIONAL, MIN_NOTIONAL, MAX_POSITION, PRICE_FILTER with steps 0, 0.1, 0.2, 0.3, 0.5, minima 0, 0.6, maxima 0, 0.6, 1; quantities 0, 0.1, ... 1.5, prices 1, 2, 3; doubles of 9 bits | does a rounded order stay within the means, in its text too; does rounding validate; what do the validators accept that the exchange refuses, and the other way round | holds |
| `programs` | every command line of up to 3 options; ini files with a key present, empty, missing or unreadable, with endpoints that are and are not URIs | what does a process die of without an exit code, on any of its threads; is the loop reached only as asked for; is a request signed so that the exchange can verify it | holds |
| `arb` | a triangle and a pair outside it, prices that make either direction profitable, with every order of moves; all lists of up to 4 of 6 pairs and triangles with an odd pair, with frozen books | are the paths the triangles; is the view of the market current; are signals affordable and none overlooked | holds |
| `recorder` | 2 symbols, one with a fragile stream, 3 updates, 2 runs, time 0..7, start 3, stop 5 | are the files of several runs, crashed at any step, in order, complete but for their ends, and headed at most once; does a run keep to its date | holds |
| `recorder_header` | same | has a file with data a header | **violated** |

Bounds, and why they are enough.

- Threads: 2. The broker's and feeder's conditions distinguish "the right
  waiter" from "another waiter"; two are needed and a third adds nothing but
  symmetric copies. The theorems about broker, feeder and `StreamsClient` hold for
  any number.
- `Message`, `MaxRequests`: two requests let answers overtake each other; the
  second message of `listener` is the text 0 that is no request. The feeder has 4 because a list of 5 under limit 4 (chunk size 1) is 4 chunks after
  the cut; the trader has 6, three for its startup and three orders of a signal.
- `MaxFrames` 2 (two consumers, one frame each, or both for one); `MaxUpdates` 3
  (two of one symbol, one of another); `MaxRuns` 2 (a run over the files of
  another; a third meets the same files).
- `MaxStreams` 4 in the programs: never below 4, where the feeder's chunks are
  empty and it subscribes for ever (`SubscribeReturns` of `feeder`, whose limits
  contain 3, is stated from 4 on for this reason).
- `Fragile` has one symbol of two: a stream that fails beside one that does not.
- `TextUnit` 2: quantities on and off the grid of a text; the worse outcome of a
  tie (up) is taken.
- The inputs of `programs` have a member for each way an option, a key or a file
  can be wrong, and up to three options, as many as a program has.
- `MaxTime` 7 leaves time before the date, in it, at its end and after it.
- The filters' bounds are multiples of their step, as the exchange's are.
- `MaxDouble` stands for the largest double, the limit of a filter without a
  maximum; it is larger than any amount of the instance.
- Doubles of nine bits (`NineBits`), with tenths of 2048 units: below 1.6 their
  distance is a 256th or less, and decimals are rounded up, down and not at all
  (0.5). `MaxAmount`, 4.5, is as far as their precision tells tenths apart with room
  to spare. All exceptions the properties name occur in the instance.

`CHECK_DEADLOCK FALSE` everywhere: the process may die, end, or wait for ever
for an answer that was lost, and the bounded market and time run out.

## Fairness

- Threads that can take a step do (weak fairness of the event-loop thread, of a
  thread in `writeWS`, `getResponseForId`, `subscribeToTickers`, `stop`): the
  operating system schedules them, and no critical section is held while blocked,
  so weak fairness is enough. Spurious wake-ups are allowed and never required.
- Callers owe nothing: nobody has to send, ask, stop or destroy.
- The exchange and the network owe nothing: no answer, frame or opening of a
  connection has to come. Liveness properties are conditional on what has come.
- In the recorder time passes (`WF(Tick)`), as clocks do.

## Properties of note

- `HandleBeforeFlag`, `WritersReleased`, `DroppedOnlyAfterClose`,
  `StoppedThreadExits` (listener): the order of the two halves of `onOpen`, the
  notification that no writer misses, the `stop` that overtakes the new thread.
- `PendingOrStored`, `NoSleepOnAnswer` (broker): the two maps as one state,
  seen by several threads; `notify_all` and not `notify_one`.
- `DestructorJoins`: the broker's `brunning_` starts as TRUE and its destructor
  always joins; the feeder's starts as FALSE, and its destructor meets a joinable
  thread exactly when it overtakes the thread on its way to `frunning_ = true`
  (the property states that window and no other).
- `DiesOnlyOf`: all the ways a program dies without an exit code, each with its
  cause: where it can meet that window, and what its other threads do to it. So a
  recorder of one symbol whose endpoints are URIs and whose feeder is not asked to
  reconnect dies of nothing but a response that comes too early, and a trader
  with such endpoints that has traded of nothing but that and a reconnection.
- `SubscriptionComplete`, `EveryNameOnce`: the arithmetic of the chunks.
- `PendingAccounted` (`StreamsClient`): an id that is inserted after its request
  was sent is inserted after its answer came, too, and then stays for ever.
- `RoundedValidates`: what is rounded is valid under steps of which doubles hold
  every multiple; under one of 0.1 it need not be.
- `ValidationSound`, `ValidationComplete`: what the validators of a filter and
  the exchange make of the same response, with every exception named: minima that
  are not looked at, two lots that do not divide each other, missing filters whose
  maximum is zero, bounds that do not apply to market orders, a remainder by a lot
  that is no double, a product rounded across a bound.
- `SignedAsConfigured`: a request is signed over all it carries, and verifies
  only with an HMAC key, although the constructor takes other methods too.
- `StaleOnlyIfMissed`, `MarketDataNeverRegresses` (trader): the snapshot is
  taken before the subscription, so that no queued update is older than it, and
  the price paid is a book that moved in between, which stays late until it
  moves again.
- `UpdatesKept`, `LostTail`, `HeaderOnTopOnly`, `CountersMatchFiles`,
  `RecordsInItsDate`, `UpdateEndsRun` (recorder): the files over several runs,
  what they lose and where, what the metrics do not show, and the date.

## What disagrees

Five runs end in a violation, each of something the repository says of itself
(`PROJECT.json`, `findings`, quotes the line).

1. `broker_answered`: `getResponseForId` looks for the id among pending requests
   only; an answer that came first makes it throw "no request was made with this
   ID". The callers' three startup requests and every order are exposed.
2. `feeder_recovery`: the recovery of a persistent feeder joins its own thread.
3. `feeder_early_ack`: the id is inserted after the request was written.
4. `feeder_stop`: `stop` does not notify `queue_cv_`.
5. `recorder_header`: a file is created before its header is written, and the
   next run looks at the existence of the file only.

Seen while modelling and part of the models, without a run of their own:

- the test of `writeWS` that never skips the lock;
- `fmod` on doubles (`SymbolFilter.cpp:8`): under a step of 0.1, 0.3 has a remainder
  of almost 0.1, so that `roundQty` makes 0.2 of it and `validateQuantity` refuses it,
  though it is on the exchange's grid; 0.95 rounds to 0.9, which the validators refuse
  and another rounding takes to 0.8; and 3 * 0.1 exceeds a maximal notional of 0.3;
- an endpoint that is no URI, which ends the process with a null pointer on the
  thread of the connection;
- the minimum of LOT_SIZE that is computed and ignored (`SymbolFilter.cpp:44`);
  MIN_NOTIONAL's `avgPriceMins` read as a text where NOTIONAL's is a number, so
  that one filter of the wrong kind drops the symbols after it;
- the sleep until the start, cut to whole seconds, which may end early; the
  run-time gauge that gets a negative number; the end of the date, looked at
  between updates only, so that a recorder without updates outlives it;
- the last and not the best signal;
- the value `True` in `config/test_config.ini:4`, which is no `bool` for the ini
  reader and leaves the persistence off;
- keys of ED25519 and RSA, which are loaded and then used for an HMAC;
- the trader's handler, which reports nothing of a failed startup, because the
  strategy is constructed outside it;
- the answers of a run, which `stored_responses_` keeps to the end
  (`BNBBroker.cpp:134`);
- `listSubscriptions` and `setProperty`, which return no value;
- `placeNewOrder`, which nobody calls and whose parameter `symbol` is the word
  "symbol".

## Proofs

`tlapm X.tla` checks them. Every invariant and every action property that a
passing run checks is also a theorem, for every value of the constants; what is
left to TLC is liveness. A module proves an inductive invariant, which TLC has
checked on the instance of its run too, and its theorems from that; about pure
functions (filters, paths) it proves lemmas for every argument.

The only assumptions are the named ones of the modules, on constants, and TLC
evaluates them on every run:

- special values are not ordinary ones (`NoMessageAssumption`, `MainAssumption`,
  `ReplyAssumption`, `ErrorAssumption`, `HeaderAssumption`, ...) and bounds are
  numbers (`BoundAssumption`, `NumbersAssumption`, ...);
- `FeeAssumption`: the fee is a part, at most all, of an amount;
- `BooksAssumption`, `SymbolsAssumption`: a book has a bid and an ask that are not
  zero, a response lists a name once and no pair of an asset with itself, and the
  numbers of filters are numbers. This is what the exchange sends: the evaluation
  of a path divides by an ask, and a pair listed twice makes two paths of one;
- `ListsAssumption`: a symbol has one filter of each type, with bounds that are
  multiples of its step, and one more step does not overflow; `RoundingAssumption`,
  `PrecisionAssumption`, `ValuesAssumption`: what rounding to nearest is, and that
  amounts are small enough for doubles to tell decimals apart. `Rounding` is any
  function of this kind, the one of 53 bits among them;
- `ExactAssumption`: the amounts of the trader are doubles;
- `InputsAssumption`: an input is of one of the two programs, with a sequence of
  options. Nothing is assumed of the ini file.

- `WebSocketListenerProofs`: `ListenerTypeCorrect`, `ListenerHandleStored`,
  `ListenerKeepsMessages`. Invariant `WSInv`: types and `LinkInv`, the relation
  between handle, flag and connection. `HandleBeforeFlag` alone is not inductive:
  it needs that a writer past the wait has seen the flag, that the flag implies
  the handle, and that the connection is closed only after it was open. The
  lemma is stated for the steps a subclass takes over, and is cited by the next
  three.
- `BNBBrokerProofs`: `BrokerTypeCorrect`, `BrokerPendingOrStored`,
  `BrokerNoSleepOnAnswer`, `BrokerDestructor`, `BrokerRefinesRequestReply`.
  Invariant `IInv`: the listener's, `PendingInv` (an id is on at most one of the
  ways from `sendRequest` to its answer, else one answer would find it twice),
  `AskInv` (what is stored is what the exchange said), `OwnerInv` (the owner's
  position decides what `brunning_` and the thread may be). The refinement is
  the safety part: initial states and every step.
- `BNBFeederProofs`: `FeederTypeCorrect`, `FeederSubscribes`,
  `FeederNoSleepOnFrame`, `FeederDestructor`, `FeederRefinesUpdateStream`.
  Invariant `FeederInv`: the listener's, `LifeInv` (`frunning_` is FALSE on a
  joinable thread only before the thread begins and while `stop` joins it),
  `SubscribeInv` (the requests so far cover a prefix of the list, none of them
  twice; `Covered` is one chunk ahead of the loop's position while a request is
  written), `QueueInv`. The refinement needs `DeliveryInv` on top: what was
  pushed is what was returned, then what is queued; and only a feeder whose
  connection was open has threads in `getUpdate`, so that an end of the stream is
  a stop.
- `StreamsClientProofs`: `StreamsEveryNameOnce`, `StreamsPendingAccounted`,
  `StreamsHandleStored`. Invariant `StreamsInv`: the listener's, types,
  `RequestInv` (the request in hand is the last id, and nobody else writes it;
  past its write it is due, given up or was answered), `ChunkInv` (the ids so far
  cover a prefix).
- `BNBRecorderProofs`: `RecorderTypeCorrect`, `RecorderHeaderOnTop`,
  `RecorderInItsDate` from `IInv`: types, `FileInv` (an open stream that has
  not failed has its file, and a header is written to an empty one only),
  `DateInv` (after a late record the loop is left before the next update, and the
  sleep ends less than a second before the start). `RecorderKeepsUpdates`,
  `RecorderLosesTheTail`, `RecorderCounts` from `KeptInv` on top of it.
  None of the three is inductive: the order of the lines needs that what is
  settled (in a file or swallowed) is older than the update in hand and those
  that wait (`NumberInv`), over all runs; the bound of the loss needs that every
  update handed out is settled, in hand, or was counted when its run was cut
  short (`LossInv`); the tail needs that in a run that goes on all it is done
  with is in its file unless the stream has failed (`TailInv`), so that once
  something is missing nothing of that symbol is added.
- `CircularArbProofs`: `TypeCorrect`, `StaleOnlyMissed`, `SignalsAffordable`,
  `PathsComputed`, `ViewNeverRegresses`, `NoneOverlooked`. Invariant `ArbInv`:
  `TaskInv` (the paths are triangles; an order belongs to a signal), the
  affordability itself, `CallInv` (only the last request can be without an
  answer, and only while the strategy waits for it), `FeedInv` (versions grow
  from the strategy's view over the unread frames to the market, and an answer is
  no newer than the market), `StaleInv` (the market's book of a name is the
  strategy's, or is among the unread frames, or the name is `missed`). The last
  two are why the snapshot comes before the subscription: `FeedInv` needs that
  nothing is fed before the answer of the snapshot is used. `PathsComputed` is about the search itself, for every list of
  symbols: `ExtensionsAre` (the extensions of a path, each once), `AllExtended`,
  `ThreeOrders`, `TradedAre` (the loop over the symbols of the response), and from
  them the two inclusions and that no triangle is found twice (`TrianglesFound`).
  `FillIs` and `Evaluated` say what the evaluation of one path returns.
- `FilterProofs`: `SentQtyHolds`, `RoundedValidatesHolds`, `ValidationSoundHolds`,
  `ValidationCompleteHolds`, for every list of filters. First lemmas on
  division (`DivMod`, `Multiple`, `TextBelow`), then on decimals and their doubles
  (`Close`, `Apart`: two decimals that differ have doubles that differ, in the same
  order; `TextNear`: the text of a double close to a decimal is that decimal), then
  what rounding returns (`RoundedIs`, `RoundQtyIs`; `RoundedOnGrid`: a quantity
  rounded down is the double of a multiple of the step that is not above it, or
  as good as that; `ExactMultiple`, `RoundedExactly`: under an
  exact step a rounded value is a multiple of it), what a filter of a list is (`EntryRead`,
  `FilterRead`: the last entry of its type), and the comparison filter by filter.
- `ProgramsProofs`: `DiesOnly`, `StartsAsAsked`, `SignsAsConfigured`, for every
  command line, however long, every ini file and any number of orders. Invariant
  `ProgramsInv`: `OptInv` (an option has the argument of the last token read that
  gives it), `StageInv` (where configuration, broker and feeder are made, and from
  what), `EndInv` (a feeder whose thread has not begun is left behind only by a
  recorder that failed in the one request it makes; each death with its cause),
  `OrderInv` (orders are for the loop, and a subscription for after the requests),
  `SentInv`. `Signing` says that
  the signature covers the key and everything else.

Recursive definitions. The induction theorems of the library take an operator,
which the provers cannot instantiate; `FilterProofs` derives induction up to a
bound from the least element of a set (`Smallest`, `InductionTo`, `RecursionTo`)
and from that what `Keep` and `FlattenSeq` return for every sequence (`KeepRange`,
`FlattenRange`). `ExchangeInfo` defines `Keep` itself for this reason: `SelectSeq`
has no definition the provers know.

Only model-checked, because they are beyond TLAPS here: the liveness properties
(`WritersReleased`, `StoppedThreadExits`, `StopCompletes`, `SubscribeReturns`,
`UpdateEndsRun`) and the fairness part of the two refinements, whose safety part
is proved.

## Not modelled

- Wording, logging, the text of frames, the printing of times.
- Requests that nobody sends: ping, time, trades, klines, average price,
  statistics, login, placing an order (`order.test` is what the trader sends).
- The login of the broker, which cannot be reached; a second `start` of a
  listener, which no owner makes.
- Two gauges of the monitor that are set and read by nothing else; the exposer.
- `getRelatedSymbols` and `shutdown` of `IStrategy`, which nobody calls.
- `RLStrategy`: it is not in `CMakeLists.txt`, the headers it includes are not in
  the tree, and what it decides comes out of a neural network. `LiveTrader` is a
  declaration without a definition.

## Plan

Order: what every other part stands on first. Done: listener, broker, feeder,
their promises; the two programs over them and from the command line;
`StreamsClient`; the filters against the exchange; eight modules of proofs, with
a theorem for every invariant and action property of a run.

Next: an abstract specification of the recorder (a log for each symbol that only
grows, over all runs) and the refinement, from `KeptInv`; the same for the
trader's view of a book, from `FeedInv`.
