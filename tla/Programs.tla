-------------------------------- MODULE Programs --------------------------------
(***************************************************************************)
(* The two programs from their command line to their loop and out of it:   *)
(* the mains, loadConfig of the connection and of the strategy, the        *)
(* constructors, the requests they send, and what becomes of the process   *)
(* on the threads of the broker and of the feeder.  What the loops do is   *)
(* in CircularArb and BNBRecorder.  An option is a letter and its          *)
(* argument; the ini file maps keys to texts, Missing for a key that is    *)
(* not there.  Of an endpoint it matters whether get_connection takes it   *)
(* for a URI: "" stands for all texts that it rejects.                     *)
(***************************************************************************)
EXTENDS BNBRequests, Sequences, SequencesExt

CONSTANTS Inputs,      \* programs, command lines, ini files, as records
          Missing,     \* what the ini file has for a key that is not there
          Quantities,  \* of orders
          MaxRequests  \* bound

ASSUME InputsAssumption ==
  \A i \in Inputs : i.program \in {"trader", "recorder"} /\ i.argv \in Seq(ToSet(i.argv))

VARIABLES
  input,      \* the program, its command line, the content of the ini file
  optind, options,
  step,       \* where the main thread is
  config, instance,
  bws_thread_,  \* of the broker: "none", "created", "running"
  fws_thread_,  \* of the feeder: the same (frunning_ is TRUE when it runs), or
                \* "astray": it has taken a response for market data
  sent,       \* requests sent
  exit        \* how the process ended, "" before

inputVars == <<input>>
threadVars == <<bws_thread_, fws_thread_>>
vars == <<input, optind, options, step, config, instance, threadVars, sent, exit>>

Trader   == input.program = "trader"
Recorder == input.program = "recorder"
ini      == input.ini

Letters  == IF Trader THEN {"c", "s"} ELSE {"s", "d", "c"}
Required == IF Trader THEN {"c"} ELSE {"s", "d", "c"}

Init ==
  /\ input \in Inputs
  /\ optind = 1 /\ options = [o \in {"s", "d", "c"} |-> ""]
  /\ step = "options"
  /\ config = <<>> /\ instance = NoInstance
  /\ bws_thread_ = "none" /\ fws_thread_ = "none"
  /\ sent = <<>>
  /\ exit = ""

Ends(code) == step' = "gone" /\ exit' = code

\* An exception of the recorder is caught by main, after the destructors; of the
\* trader, up to the end of its constructor, by nobody.
Throws ==
  IF Recorder THEN step' = "catch" /\ UNCHANGED exit ELSE Ends("terminate")
-----------------------------------------------------------------------------
(* main: the options.                                                      *)

\* Mutant: the first of several is kept.
SetOptionOnce(o, arg) == IF options[o] = "" THEN [options EXCEPT ![o] = arg] ELSE options

SetOption(o, arg) == [options EXCEPT ![o] = arg]

\* getopt: an unknown option, or one without its argument, is the end.
ParseOption ==
  /\ step = "options" /\ optind <= Len(input.argv)
  /\ LET token == input.argv[optind] IN
       IF token.opt \in Letters
       THEN options' = SetOption(token.opt, token.arg) /\ UNCHANGED <<step, exit>>
       ELSE Ends("1") /\ UNCHANGED options
  /\ optind' = optind + 1
  /\ UNCHANGED <<inputVars, config, instance, threadVars, sent>>

CheckOptions ==
  /\ step = "options" /\ optind > Len(input.argv)
  /\ IF \E o \in Required : options[o] = ""
     THEN Ends("1") ELSE step' = "loadConfig" /\ UNCHANGED exit
  /\ UNCHANGED <<inputVars, optind, options, config, instance, threadVars, sent>>
-----------------------------------------------------------------------------
(* The configuration.                                                      *)

\* get with a default gives the default for a text that does not convert, "True"
\* and "yes" among them.
ToBool(text)  == text \in {"1", "true"}
ToLimit(text) == IF text = "300" THEN 300 ELSE 200

SignMethod == IF ini.sign_method = Missing THEN "HMAC" ELSE ini.sign_method
SecretKey  == IF SignMethod = "HMAC" THEN ini.api_secret ELSE ini.private_key_path

\* The file named cannot be read, or a key is missing.
ConfigThrows ==
  \/ options["c"] # "ini"
  \/ Missing \in {ini.streams_ws_endpoint, ini.api_ws_endpoint, ini.api_key, SecretKey}

LoadedConfig ==
  [streamsWsEndpoint |-> ini.streams_ws_endpoint, apiWsEndpoint |-> ini.api_ws_endpoint,
   apiKey |-> ini.api_key, signMethod |-> SignMethod, secret |-> SecretKey,
   maxStreamsSubs      |-> ToLimit(ini.maximum_streams_subscriptions),
   wsPersistConnection |-> ToBool(ini.ws_persist_connection),
   loginOnConnection   |-> ToBool(ini.login_on_connection)]

LoadConfig ==
  /\ step = "loadConfig"
  /\ IF ConfigThrows
     THEN Throws /\ UNCHANGED config
     ELSE /\ config' = LoadedConfig
          /\ step' = IF Trader THEN "strategy" ELSE "construct"
          /\ UNCHANGED exit
  /\ UNCHANGED <<inputVars, optind, options, instance, threadVars, sent>>

\* The trader's strategy: a null pointer unless its name is known.
MakeStrategy ==
  /\ step = "strategy"
  /\ IF options["s"] # "CircularArb" THEN Ends("segfault")
     ELSE IF ini.startingAsset = Missing THEN Throws
     ELSE step' = "construct" /\ UNCHANGED exit
  /\ UNCHANGED <<inputVars, optind, options, config, instance, threadVars, sent>>
-----------------------------------------------------------------------------
(* The constructors and the start.                                         *)

\* The recorder's schedule and monitor come before its broker.
ScheduleThrows == Recorder /\ options["d"] = "bad"
BrokerThrows ==
  \/ config.signMethod \notin {"HMAC", "ED25519", "RSA"}
  \/ config.signMethod # "HMAC" /\ config.secret = "unreadable"

Construct ==
  /\ step = "construct"
  /\ IF ScheduleThrows \/ BrokerThrows
     THEN Throws /\ UNCHANGED instance
     ELSE /\ instance' = [apiKey |-> config.apiKey, secretKey |-> config.secret]
          /\ step' = "start" /\ UNCHANGED exit
  /\ UNCHANGED <<inputVars, optind, options, config, threadVars, sent>>

\* The port of the monitor is taken.
ExposerThrows ==
  /\ step = "construct" /\ Recorder /\ ~ScheduleThrows
  /\ Throws
  /\ UNCHANGED <<inputVars, optind, options, config, instance, threadVars, sent>>

\* waitStart: the date is over.
DateIsOver ==
  /\ step = "start" /\ Recorder
  /\ step' = "return"
  /\ UNCHANGED <<inputVars, optind, options, config, instance, threadVars, sent, exit>>

\* Mutant: the feeder is started first.
StartFeederFirst ==
  /\ step = "start"
  /\ fws_thread_' = "created" /\ bws_thread_' = "created"
  /\ IF config.loginOnConnection
     THEN IF Trader THEN Throws ELSE step' = "return" /\ UNCHANGED exit
     ELSE step' = "requests" /\ UNCHANGED exit
  /\ UNCHANGED <<inputVars, optind, options, config, instance, sent>>

\* The broker's start creates its thread; with a login it throws then, whatever the
\* sign method, and run of the recorder returns.  The feeder's start follows.
Start ==
  /\ step = "start"
  /\ bws_thread_' = "created"
  /\ IF config.loginOnConnection
     THEN /\ IF Trader THEN Throws ELSE step' = "return" /\ UNCHANGED exit
          /\ UNCHANGED fws_thread_
     ELSE step' = "requests" /\ fws_thread_' = "created" /\ UNCHANGED exit
  /\ UNCHANGED <<inputVars, optind, options, config, instance, sent>>
-----------------------------------------------------------------------------
(* The threads, while main does something else or waits for them.          *)

mainVars == <<inputVars, optind, options, config, instance, sent>>

BrokerThreadBegins ==
  /\ bws_thread_ = "created" /\ step # "gone"
  /\ bws_thread_' = "running"
  /\ UNCHANGED <<mainVars, fws_thread_, step, exit>>

FeederThreadBegins ==
  /\ fws_thread_ = "created" /\ step # "gone"
  /\ fws_thread_' = "running"
  /\ UNCHANGED <<mainVars, bws_thread_, step, exit>>

\* connect left con_ null and startClient dereferences it.
NoConnection ==
  \/ bws_thread_ = "running" /\ config.apiWsEndpoint = ""
  \/ fws_thread_ = "running" /\ config.streamsWsEndpoint = ""

StartClientDies ==
  /\ NoConnection /\ step # "gone"
  /\ Ends("segfault")
  /\ UNCHANGED <<mainVars, threadVars>>

\* onClose or onFail of a feeder that is to reconnect: it joins its own thread.
ReconnectDies ==
  /\ fws_thread_ = "running" /\ step # "gone"
  /\ config.streamsWsEndpoint # "" /\ config.wsPersistConnection
  /\ Ends("terminate")
  /\ UNCHANGED <<mainVars, threadVars>>

\* An assertion of the json library on the response that is no market data.
ParseDataDies ==
  /\ fws_thread_ = "astray" /\ step # "gone"
  /\ Ends("abort")
  /\ UNCHANGED <<mainVars, threadVars>>
-----------------------------------------------------------------------------
(* The requests before the loop, and the loop.                             *)

NextId == Len(sent) + 1

\* Of the trader: symbols, balances, books of the symbols it may trade.
StartRequests ==
  IF Trader
  THEN <<ExchangeInformation(NextId, {}), Information(instance, NextId, NextId),
         SymbolOrderBookTicker(NextId, {"BTCUSDT"})>>
  ELSE IF options["s"] = "all" THEN <<ExchangeInformation(NextId, {})>> ELSE <<>>

\* The broker's connection is open only after its thread has begun.  The answer
\* comes; or it came too early, or it cannot be used, and a call throws.
Request ==
  /\ step = "requests" /\ NextId <= Len(StartRequests)
  /\ bws_thread_ = "running" /\ config.apiWsEndpoint # ""
  /\ sent' = Append(sent, StartRequests[NextId])
  /\ UNCHANGED <<step, exit>> \/ Throws
  /\ UNCHANGED <<inputVars, optind, options, config, instance, threadVars>>

\* The feeder's connection is open only after its thread has begun.
Subscribing ==
  /\ step = "requests" /\ NextId > Len(StartRequests)
  /\ fws_thread_ \in {"running", "astray"} /\ config.streamsWsEndpoint # ""

\* The response to a request of the subscription is looked up before its id is
\* inserted.
ResponseTooEarly ==
  /\ Subscribing /\ fws_thread_ = "running"
  /\ fws_thread_' = "astray"
  /\ UNCHANGED <<mainVars, bws_thread_, step, exit>>

SubscribeToTickers ==
  /\ Subscribing
  /\ step' = "loop"
  /\ UNCHANGED <<inputVars, optind, options, config, instance, threadVars, sent, exit>>

\* An order of a signal.
SendOrder ==
  /\ step = "loop" /\ Trader
  /\ NextId <= MaxRequests
  /\ \E side \in {"BUY", "SELL"}, qty \in Quantities :
       sent' = Append(sent, TestNewOrder(instance, NextId, NextId, "BTCUSDT", side, "MARKET",
                                         qty, 0))
  /\ UNCHANGED <<inputVars, optind, options, step, config, instance, threadVars, exit>>

\* Both loops catch their exceptions.
LoopEnds ==
  /\ step = "loop"
  /\ step' = "return"
  /\ UNCHANGED <<inputVars, optind, options, config, instance, threadVars, sent, exit>>

\* Threads that the destructors join come to their end.
JoinsReturn ==
  /\ bws_thread_ # "none" => config.apiWsEndpoint # ""
  /\ fws_thread_ = "running" => config.streamsWsEndpoint # ""
  /\ fws_thread_ # "astray"

\* The destructors, after run or on the way to the handler of main: that of the
\* broker always joins its thread; that of the feeder finds frunning_ FALSE when its
\* thread has not begun, and destroys it.
Leave ==
  /\ step \in {"return", "catch"}
  /\ JoinsReturn
  /\ Ends(IF fws_thread_ = "created" THEN "terminate" ELSE IF step = "return" THEN "0" ELSE "1")
  /\ UNCHANGED <<mainVars, threadVars>>

Next ==
  \/ ParseOption \/ CheckOptions \/ LoadConfig \/ MakeStrategy \/ Construct \/ ExposerThrows
  \/ DateIsOver \/ Start \/ BrokerThreadBegins \/ FeederThreadBegins
  \/ StartClientDies \/ ReconnectDies \/ ParseDataDies
  \/ Request \/ ResponseTooEarly \/ SubscribeToTickers \/ SendOrder \/ LoopEnds \/ Leave

Spec == Init /\ [][Next]_vars
-----------------------------------------------------------------------------
(* Properties.                                                             *)

LastGiven(o) == LET last == SelectLastInSeq(input.argv, LAMBDA token : token.opt = o)
                IN  IF last = 0 THEN "" ELSE input.argv[last].arg

\* An order has been sent.
Ordered == \E i \in DOMAIN sent : sent[i].method = "order.test"

\* Everything a process dies of without an exit code.  Of a null pointer: a trader
\* whose strategy has no known name, or the thread of a connection whose endpoint is
\* no URI.  Of an assertion: the feeder's thread, on a response to a subscription,
\* so never before the requests have been answered.  Of std::terminate: a feeder
\* asked to reconnect; a recorder that fails between the start of the feeder and
\* the beginning of its thread, which takes a request, so never when it records one
\* symbol; and a trader whose configuration or whose startup fails, so never one
\* that has traded.  The trader's own handler reports no failure at all.
DiesOnlyOf ==
  /\ exit = "segfault" =>
       \/ Trader /\ LastGiven("s") # "CircularArb" /\ instance = NoInstance
       \/ bws_thread_ = "running" /\ ini.api_ws_endpoint = ""
       \/ fws_thread_ = "running" /\ ini.streams_ws_endpoint = ""
  /\ exit = "abort" => fws_thread_ = "astray" /\ NextId > Len(StartRequests)
  /\ exit = "terminate" =>
       \/ fws_thread_ = "running" /\ ini.ws_persist_connection \in {"1", "true"}
       \/ Recorder /\ fws_thread_ = "created" /\ LastGiven("s") = "all"
       \/ Trader /\ ~Ordered
  /\ Trader /\ exit = "1" => instance = NoInstance /\ config = <<>>

\* The loop is reached only as asked for: with the last arguments given, a sign
\* method the broker knows, no login, and a feeder that reconnects only if the
\* ini file says so in the words the reader knows.
StartedAsAsked ==
  step = "loop" =>
    /\ \A o \in Letters : options[o] = LastGiven(o)
    /\ \A o \in Required : options[o] # ""
    /\ config.signMethod \in {"HMAC", "ED25519", "RSA"} /\ ~config.loginOnConnection
    /\ config.wsPersistConnection => ini.ws_persist_connection \in {"1", "true"}

\* What the exchange makes of a request with the key the ini file names: a
\* signature must cover all other parameters, and an HMAC needs an HMAC key.
Signed(r)   == "signature" \in DOMAIN r.params
Verifies(r) ==
  /\ SignMethod = "HMAC" /\ r.params["apiKey"] = ini.api_key
  /\ r.params["signature"] =
       HMAC(ini.api_secret, [p \in DOMAIN r.params \ {"signature"} |-> r.params[p]])

\* Signed requests verify exactly when the key is an HMAC key (the other methods
\* are accepted by the constructor, and sign with an HMAC all the same), and a
\* request that needs a signature is never sent without one.
SignedAsConfigured ==
  \A i \in DOMAIN sent :
    /\ Signed(sent[i]) => (Verifies(sent[i]) <=> SignMethod = "HMAC")
    /\ ~Signed(sent[i]) => sent[i].method \in {"exchangeInfo", "ticker.book"}

=============================================================================
