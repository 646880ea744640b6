------------------------------- MODULE CircularArb -------------------------------
(***************************************************************************)
(* The trader (strategies/CircularArb): its main thread asks the broker    *)
(* for the symbols, the balances and a snapshot of the books, subscribes   *)
(* to the feed, then takes updates and sends the orders of the signals it  *)
(* finds, waiting for each answer.  The broker and the feeder are what     *)
(* they promise, RequestReply and UpdateStream; the market moves by itself *)
(* and the feed carries its moves from the subscription on.                *)
(*                                                                         *)
(* A book is a version, its position in the history Books[name]; names are *)
(* numbers, in the order of the std::set of names.                         *)
(***************************************************************************)
EXTENDS ArbPaths, FiniteSets

CONSTANTS Main,          \* the thread
          NoRequest, NoReply, Refused, Error,  \* values of RequestReply
          SymbolLists,   \* what exchangeInfo may return
          StartingAssetName,
          Balance,       \* of the starting asset
          Books,         \* name -> sequence of books, as the market moves
          MaxStreams,    \* maxStreamsSubs_ of the feeder
          MaxRequests    \* bound on request ids

Name  == DOMAIN Books
ReqId == 1..MaxRequests

ASSUME ErrorAssumption ==
  /\ Error # NoReply /\ Error # Refused /\ NoReply # Refused
  /\ Error \notin [Name -> Nat] /\ NoReply \notin [Name -> Nat]

ASSUME NumbersAssumption == MaxRequests \in Nat /\ MaxStreams \in Nat /\ Balance \in Nat

\* Amounts are doubles, and so are the results of their rounding; what becomes of
\* decimals that are not is in FilterRules.
ASSUME ExactAssumption == \A x \in 0..MaxDouble : Rounding[x] = x

\* A book always has a bid and an ask.
ASSUME BooksAssumption ==
  \A n \in Name :
    /\ n \in Nat /\ Books[n] \in Seq(ToSet(Books[n])) /\ Books[n] # <<>>
    /\ \A i \in DOMAIN Books[n] : Books[n][i].bid \in Nat \ {0} /\ Books[n][i].ask \in Nat \ {0}

\* A name is listed once, and its pair has two assets.
ASSUME SymbolsAssumption ==
  \A list \in SymbolLists :
    /\ list \in Seq(ToSet(list))
    /\ \A i, j \in DOMAIN list : list[i].name = list[j].name => i = j
    /\ \A i \in DOMAIN list :
         /\ list[i].name \in Name /\ list[i].base # list[i].quote
         /\ list[i].filters \in Seq(ToSet(list[i].filters))
         /\ \A k \in DOMAIN list[i].filters : HasNumbers(list[i].filters[k])

VARIABLES
  issued, reply, asking, result,              \* the broker, see RequestReply
  arrived, taken, getting, closing, halted,   \* the feeder, see UpdateStream
  market,       \* the version of each book
  fed,          \* names the exchange feeds
  missed,       \* history: names that moved after the snapshot, not seen since
  symbolsList,  \* what exchangeInfo returns
  task,         \* what Main is doing, see TypeOK
  step,         \* where it is with its request
  requestId,
  stratPaths_,
  balance_,     \* of the starting asset, 0 when there is no entry
  marketData_,  \* the version of the book of each name, 0 when there is no entry
  signal

brokerVars == <<issued, reply, asking, result>>
feederVars == <<arrived, taken, getting, closing, halted>>
worldVars  == <<market, fed, missed, symbolsList>>
stratVars  == <<stratPaths_, balance_, marketData_, signal>>
mainVars   == <<task, step, requestId>>
vars       == <<brokerVars, feederVars, worldVars, stratVars, mainVars>>

Broker == INSTANCE RequestReply WITH
  Caller <- {Main}, Request <- ReqId, Reply <- [Name -> Nat] \cup {Error}
Feeder == INSTANCE UpdateStream WITH
  Caller <- {Main}, Frame <- Name \X Nat, asking <- getting

Startup == {"exchangeInfo", "account", "ticker"}

TypeOK ==
  /\ issued \subseteq ReqId
  /\ DOMAIN arrived = 1..Len(arrived) /\ Len(taken) <= Len(arrived)
  /\ market \in [Name -> Nat]
  /\ fed \subseteq Name /\ missed \subseteq Name
  /\ symbolsList \in SymbolLists
  /\ task \in Startup \cup {"subscribe", "getUpdate", "order", "terminated", "ended"}
  /\ step \in {"send", "ask", "wait", "use"}
  /\ requestId \in 0..MaxRequests
  /\ balance_ \in {0, Balance}
  /\ marketData_ \in [Name -> Nat]
  /\ IF task = "order" THEN signal.orders # <<>> ELSE task = "ended" \/ signal = NoSignal

Init ==
  /\ Broker!RRInit
  /\ Feeder!USInit
  /\ market = [n \in Name |-> 1]
  /\ fed = {}
  /\ missed = {}
  /\ symbolsList \in SymbolLists
  /\ task = "exchangeInfo"
  /\ step = "send"
  /\ requestId = 0
  /\ stratPaths_ = <<>>
  /\ balance_ = 0
  /\ marketData_ = [n \in Name |-> 0]
  /\ signal = NoSignal
-----------------------------------------------------------------------------
(* The exchange.                                                           *)

\* The book of a listed symbol moves; the feed carries the move if it has been subscribed to.
MarketMoves(n) ==
  /\ \E i \in DOMAIN symbolsList : symbolsList[i].name = n
  /\ market[n] < Len(Books[n])
  /\ market' = [market EXCEPT ![n] = @ + 1]
  /\ IF n \in fed
     THEN /\ Feeder!Arrive(<<n, market[n] + 1>>)
          /\ missed' = missed \ {n}
     ELSE /\ missed' = missed \cup {n}
          /\ UNCHANGED feederVars
  /\ UNCHANGED <<fed, symbolsList, brokerVars, stratVars, mainVars>>

\* An answer carries the books of its moment, or an error.
Answers(r) ==
  /\ \/ /\ Broker!Answer(r, market)
        /\ missed' = IF task = "ticker" THEN {} ELSE missed
     \/ /\ Broker!Answer(r, Error)
        /\ missed' = IF task = "ticker" THEN Name ELSE missed
  /\ UNCHANGED <<market, fed, symbolsList, feederVars, stratVars, mainVars>>
-----------------------------------------------------------------------------
(* A request of Main: sendRequest, then getResponseForId.                  *)

\* The names of the symbols of all paths.
RelatedSymbols ==
  {stratPaths_[i][j].symbol.name : i \in DOMAIN stratPaths_, j \in 1..3}

SendRequest ==
  /\ task \in Startup \cup {"order"} /\ step = "send"
  /\ requestId < MaxRequests
  /\ Broker!Issue(requestId + 1)
  /\ requestId' = requestId + 1
  /\ step' = "ask"
  /\ UNCHANGED <<task, feederVars, worldVars, stratVars>>

GetResponse ==
  /\ task # "terminated" /\ step = "ask"
  /\ Broker!Ask(Main, requestId)
  /\ step' = "wait"
  /\ UNCHANGED <<task, requestId, feederVars, worldVars, stratVars>>

\* The exception of getResponseForId: nothing catches it in the constructor, and
\* run leaves its loop.
GetResponseThrows ==
  /\ task # "terminated" /\ step = "ask"
  /\ Broker!Refuse(Main, requestId)
  /\ task' = IF task = "order" THEN "ended" ELSE "terminated"
  /\ step' = "send"
  /\ UNCHANGED <<requestId, feederVars, worldVars, stratVars>>

ResponseReturned ==
  /\ task # "terminated" /\ step = "wait"
  /\ Broker!Deliver(Main)
  /\ step' = "use"
  /\ UNCHANGED <<task, requestId, feederVars, worldVars, stratVars>>

\* The names it subscribes to are the first of the set, up to the feeder's limit;
\* the number the feeder returns is not looked at.
Subscribable == {n \in RelatedSymbols : Cardinality({k \in RelatedSymbols : k < n}) < MaxStreams}

Use(t, next) ==
  /\ task = t /\ step = "use"
  /\ task' = next
  /\ step' = "send"
  /\ UNCHANGED <<requestId, brokerVars, feederVars, worldVars>>
-----------------------------------------------------------------------------
(* initialize.                                                             *)

\* A response without "result" is an assertion of the json library.
ExchangeInfo ==
  /\ IF result[Main] = Error
     THEN Use("exchangeInfo", "terminated") /\ UNCHANGED stratPaths_
     ELSE /\ Use("exchangeInfo", "account")
          /\ stratPaths_' = ComputeArbitragePaths(TradedSymbols(symbolsList),
                                                 StartingAssetName, 3)
  /\ UNCHANGED <<balance_, marketData_, signal>>

\* Mutant: the strategy subscribes before it asks for the snapshot.
AccountThenSubscribe ==
  /\ task = "account" /\ step = "use"
  /\ task' = "ticker"
  /\ step' = "send"
  /\ balance_' = IF result[Main] = Error THEN 0 ELSE Balance
  /\ fed' = Subscribable
  /\ UNCHANGED <<requestId, market, missed, symbolsList, stratPaths_, marketData_, signal,
                 brokerVars, feederVars>>

\* An error has no balances: the loop over them does nothing.
AccountInformation ==
  /\ Use("account", "ticker")
  /\ balance_' = IF result[Main] = Error THEN 0 ELSE Balance
  /\ UNCHANGED <<stratPaths_, marketData_, signal>>

\* The snapshot of the related symbols; an error has none.
SymbolOrderBookTicker ==
  /\ Use("ticker", "subscribe")
  /\ marketData_' = [n \in Name |-> IF n \in RelatedSymbols /\ result[Main] # Error
                                    THEN result[Main][n] ELSE 0]
  /\ UNCHANGED <<stratPaths_, balance_, signal>>

\* A request the exchange refuses, or a connection that is lost, feeds nothing.
SubscribeToTickers ==
  /\ task = "subscribe"
  /\ fed' \in SUBSET Subscribable
  /\ task' = "getUpdate"
  /\ UNCHANGED <<step, requestId, market, missed, symbolsList, brokerVars, feederVars,
                 stratVars>>

-----------------------------------------------------------------------------
(* run.                                                                    *)

GetUpdate ==
  /\ task = "getUpdate"
  /\ Feeder!Ask(Main)
  /\ UNCHANGED <<brokerVars, worldVars, stratVars, mainVars>>

BookOf(data) == [n \in {k \in Name : data[k] # 0} |-> Books[n][data[n]]]

\* The next update is taken, data becomes the strategy's view, and a signal is
\* looked for.
TakeUpdate(name, data) ==
  LET found == FindSignal(stratPaths_, name, balance_, BookOf(data))
  IN  /\ task = "getUpdate"
      /\ Feeder!Take(Main)
      /\ marketData_' = data
      /\ signal' = found
      /\ task' = IF found.found THEN "order" ELSE "getUpdate"
      /\ UNCHANGED <<step, requestId, stratPaths_, balance_, brokerVars, worldVars>>

NextFrame == arrived[Len(taken) + 1]

\* Mutant: marketData_ is filled with insert, which keeps the entry it has.
OnMarketDataInsert ==
  LET f == NextFrame
  IN  TakeUpdate(f[1], [marketData_ EXCEPT ![f[1]] = IF @ = 0 THEN f[2] ELSE @])

\* onMarketData; the orders of a signal are sent one after the other.
OnMarketData ==
  LET f == NextFrame
  IN  TakeUpdate(f[1], [marketData_ EXCEPT ![f[1]] = f[2]])

\* Mutant: the signal outlives the loop over its orders.
OrderAnsweredKeepsSignal ==
  /\ Use("order", IF Len(signal.orders) > 1 THEN "order" ELSE "getUpdate")
  /\ signal' = [signal EXCEPT !.orders = Tail(@)]
  /\ UNCHANGED <<stratPaths_, balance_, marketData_>>

\* The answer to an order is logged, and the next one is sent.
OrderAnswered ==
  /\ Use("order", IF Len(signal.orders) > 1 THEN "order" ELSE "getUpdate")
  /\ signal' = IF Len(signal.orders) > 1
               THEN [signal EXCEPT !.orders = Tail(@)] ELSE NoSignal
  /\ UNCHANGED <<stratPaths_, balance_, marketData_>>

\* The feed is lost, and either the feeder's handler ends the process or nothing
\* tells the strategy (see BNBFeeder).
FeedLost ==
  /\ task \notin {"terminated", "ended"}
  /\ \/ /\ Feeder!Stop /\ halted'
        /\ task' = "terminated"
        /\ signal' = NoSignal
        /\ UNCHANGED fed
     \/ /\ fed # {} /\ fed' = {}
        /\ UNCHANGED <<feederVars, task, signal>>
  /\ UNCHANGED <<step, requestId, stratPaths_, balance_, marketData_, brokerVars, market,
                 missed, symbolsList>>

Trading ==
  \/ SendRequest \/ GetResponse \/ GetResponseThrows \/ ResponseReturned
  \/ ExchangeInfo \/ AccountInformation \/ SymbolOrderBookTicker \/ SubscribeToTickers
  \/ GetUpdate \/ OnMarketData \/ OrderAnswered

Next ==
  \/ \E n \in Name : MarketMoves(n)
  \/ \E r \in ReqId : Answers(r)
  \/ FeedLost
  \/ Trading

Spec == Init /\ [][Next]_vars /\ WF_vars(Trading)
-----------------------------------------------------------------------------
(* Properties.                                                             *)

\* All paths: three orders on three different pairs, each spending what the one
\* before it returned, from the starting asset back to it.  The pairs trade, and
\* no pair that trades before them has filters that do not parse.
Triangles ==
  LET known  == {i \in DOMAIN symbolsList :
                   symbolsList[i].trading
                     /\ \A j \in 1..i : symbolsList[j].trading => ParsesAll(symbolsList[j])}
      orders == {NewOrder(NewSymbol(symbolsList[i]), way) : i \in known, way \in {"BUY", "SELL"}}
  IN  {p \in {<<a, b, c>> : a \in orders, b \in orders, c \in orders} :
         /\ StartingAsset(p[1]) = StartingAssetName
         /\ ResultingAsset(p[1]) = StartingAsset(p[2])
         /\ ResultingAsset(p[2]) = StartingAsset(p[3])
         /\ ResultingAsset(p[3]) = StartingAssetName
         /\ \A i, j \in 1..3 : i # j => ~SameSymbol(p[i].symbol, p[j].symbol)}

\* computeArbitragePaths finds every triangle, once, and the paths stay.
PathsAreTriangles ==
  [][IF task = "exchangeInfo" /\ task' = "account"
     THEN ToSet(stratPaths_') = Triangles /\ Len(stratPaths_') = Cardinality(Triangles)
     ELSE stratPaths_' = stratPaths_]_vars

\* The strategy's view of a book never goes back in time: the snapshot is taken
\* before the subscription, so that no update is older than it.
MarketDataNeverRegresses ==
  [][\A n \in Name : marketData_'[n] >= marketData_[n]]_vars

\* Once the queue is drained, a book the strategy knows is the exchange's, or its
\* symbol is not fed, or it moved between the snapshot and the subscription and
\* not since.
StaleOnlyIfMissed ==
  task = "getUpdate" /\ taken = arrived =>
    \A n \in RelatedSymbols :
      marketData_[n] = market[n] \/ n \notin fed \/ n \in missed

\* What a signal orders can be executed at the books it was computed from: no
\* leg spends more than the balance or than the leg before it returned after
\* the fee, and the last leg returns more than the balance.
Returns(o) == AfterFee(IF o.way = "SELL" THEN o.qty * o.price ELSE o.qty)
Spends(o)  == IF o.way = "SELL" THEN o.qty ELSE o.qty * o.price
SignalAffordable ==
  signal.found /\ Len(signal.orders) = 3 =>
    /\ Spends(signal.orders[1]) <= balance_
    /\ \A i \in 1..2 : Spends(signal.orders[i + 1]) <= Returns(signal.orders[i])
    /\ Returns(signal.orders[3]) = balance_ + signal.pnl /\ signal.pnl > 0

\* A profitable path that uses the symbol of an update is not overlooked: after
\* the update there is a signal, or none of them is profitable.
NoSignalOverlooked ==
  [][\A n \in Name :
       marketData_'[n] # marketData_[n] /\ task = "getUpdate" /\ task' = "getUpdate" =>
         \A i \in DOMAIN stratPaths_ :
           Uses(stratPaths_[i], n) =>
             ~EvaluatePath(stratPaths_[i], balance_, BookOf(marketData_')).found]_vars

=============================================================================
