----------------------------- MODULE ProgramsProofs -----------------------------
(***************************************************************************)
(* Proofs about Programs: what becomes of any command line and any ini     *)
(* file.                                                                   *)
(***************************************************************************)
EXTENDS Programs, SequenceTheorems, TLAPS

\* After n - 1 tokens an option has the argument of the last one that gives it.
LastTo(o, n) ==
  \/ options[o] = "" /\ \A k \in 1..(n - 1) : input.argv[k].opt # o
  \/ \E k \in 1..(n - 1) :
       /\ input.argv[k].opt = o /\ options[o] = input.argv[k].arg
       /\ \A j \in (k + 1)..(n - 1) : input.argv[j].opt # o

\* The program is past its options, or ended over something else than them.
Parsed == step # "options" /\ (step = "gone" => exit # "1")

OptInv ==
  /\ input \in Inputs
  /\ DOMAIN options = {"s", "d", "c"}
  /\ optind \in 1..(Len(input.argv) + 1)
  /\ \A o \in Letters : LastTo(o, optind)
  /\ Parsed => optind = Len(input.argv) + 1 /\ \A o \in Required : options[o] # ""

Broker == [apiKey |-> ini.api_key, secretKey |-> SecretKey]

\* Where the configuration, the broker, the feeder and the threads are made.
StageInv ==
  /\ step \in {"options", "loadConfig"} => config = <<>>
  /\ step \in {"strategy", "construct", "start", "requests", "loop"} => config = LoadedConfig
  /\ step \in {"options", "loadConfig", "strategy", "construct"} => instance = NoInstance
  /\ step \in {"start", "requests", "loop"} => ~BrokerThrows /\ instance = Broker
  /\ step \in {"requests", "loop"} => ~config.loginOnConnection
  /\ step \in {"options", "loadConfig", "strategy", "construct", "start"} =>
       bws_thread_ = "none" /\ fws_thread_ = "none"
  /\ bws_thread_ # "none" \/ fws_thread_ # "none" => config = LoadedConfig
  /\ step = "loop" => fws_thread_ \in {"running", "astray"}

\* A main that catches is a recorder's.  A feeder whose thread has not begun is left
\* behind only by a recorder that failed in the one request it makes.
EndInv ==
  /\ step = "strategy" => Trader
  /\ step = "catch" => Recorder
  /\ step \in {"return", "catch"} /\ fws_thread_ = "created" =>
       step = "catch" /\ options["s"] = "all"
  /\ step # "gone" => exit = ""
  /\ exit \in {"", "0", "1", "terminate", "segfault", "abort"}
  /\ exit = "segfault" =>
       \/ Trader /\ options["s"] # "CircularArb" /\ instance = NoInstance
       \/ bws_thread_ = "running" /\ ini.api_ws_endpoint = ""
       \/ fws_thread_ = "running" /\ ini.streams_ws_endpoint = ""
  /\ exit = "abort" => fws_thread_ = "astray"
  /\ exit = "terminate" =>
       \/ fws_thread_ = "running" /\ ini.ws_persist_connection \in {"1", "true"}
       \/ Recorder /\ fws_thread_ = "created" /\ options["s"] = "all"
       \/ Trader /\ ~Ordered
  /\ Trader /\ exit = "1" => instance = NoInstance /\ config = <<>>

\* The number of requests before the loop.
StartLength == IF Trader THEN 3 ELSE IF options["s"] = "all" THEN 1 ELSE 0

\* Orders are for the loop, and the loop and the subscription for after the requests.
OrderInv ==
  /\ Ordered => step \in {"loop", "return", "gone"}
  /\ fws_thread_ = "astray" => NextId > StartLength /\ step # "options"

\* A sequence of whatever it holds.
IsSequence(s) == s \in Seq(ToSet(s))

SentInv == IsSequence(sent) /\ SignedAsConfigured

ProgramsInv == OptInv /\ StageInv /\ EndInv /\ OrderInv /\ SentInv

-----------------------------------------------------------------------------
(* The options.                                                            *)

\* A command line is a sequence.
LEMMA ArgvType ==
  ASSUME NEW i \in Inputs
  PROVE  /\ i.program \in {"trader", "recorder"}
         /\ Len(i.argv) \in Nat /\ DOMAIN i.argv = 1..Len(i.argv)
<1> DEFINE Tokens == ToSet(i.argv)
<1>1. i.program \in {"trader", "recorder"} /\ i.argv \in Seq(Tokens)
  BY InputsAssumption
<1> HIDE DEF Tokens
<1> QED
  BY <1>1

\* The last of the tokens that give an option.
LEMMA LastGivenIs ==
  ASSUME OptInv, NEW o, LastTo(o, Len(input.argv) + 1)
  PROVE  options[o] = LastGiven(o)
<1> DEFINE argv == input.argv
<1> DEFINE I == {i \in 1..Len(argv) : argv[i].opt = o}
<1>1. Len(argv) \in Nat /\ DOMAIN argv = 1..Len(argv)
  BY ArgvType DEF OptInv
<1>2. SelectLastInSeq(argv, LAMBDA token : token.opt = o) = IF I # {} THEN Max(I) ELSE 0
  BY DEF SelectLastInSeq
<1>3. CASE options[o] = "" /\ I = {}
  BY <1>2, <1>3 DEF LastGiven
<1>4. ASSUME NEW k \in I, options[o] = argv[k].arg, \A j \in (k + 1)..Len(argv) : argv[j].opt # o
      PROVE  options[o] = LastGiven(o)
  <2>1. \A j \in I : j <= k
    BY <1>1, <1>4
  <2>2. Max(I) = k /\ k # 0
    BY <2>1, <1>1, <1>4 DEF Max
  <2>3. LastGiven(o) = argv[k].arg
    BY <2>2, <1>2, <1>4 DEF LastGiven
  <2> QED
    BY <2>3, <1>4
<1>5. \/ options[o] = "" /\ \A k \in 1..Len(argv) : argv[k].opt # o
      \/ \E k \in 1..Len(argv) :
           /\ argv[k].opt = o /\ options[o] = argv[k].arg
           /\ \A j \in (k + 1)..Len(argv) : argv[j].opt # o
  <2> DEFINE n == Len(argv) + 1
  <2>1. LastTo(o, n) /\ n - 1 = Len(argv)
    BY <1>1
  <2> HIDE DEF n
  <2> QED
    BY <2>1 DEF LastTo
<1>6. (options[o] = "" /\ I = {})
      \/ \E k \in I : options[o] = argv[k].arg /\ \A j \in (k + 1)..Len(argv) : argv[j].opt # o
  BY <1>5
<1> QED
  BY <1>3, <1>4, <1>6

-----------------------------------------------------------------------------
(* The requests.                                                           *)

\* Signed with a key, by a signature that covers everything else.
SignedWith(params, apiKey, secretKey) ==
  /\ "signature" \in DOMAIN params /\ params["apiKey"] = apiKey
  /\ params["signature"] =
       HMAC(secretKey, [p \in DOMAIN params \ {"signature"} |-> params[p]])

\* A signature covers the key and all parameters, when neither is there before.
LEMMA Signing ==
  ASSUME NEW params, "apiKey" \notin DOMAIN params, "signature" \notin DOMAIN params,
         NEW apiKey, NEW secretKey
  PROVE  SignedWith(SignRequestHMAC(params, apiKey, secretKey), apiKey, secretKey)
<1> DEFINE keyed == Insert(params, "apiKey", apiKey)
<1> DEFINE digest == HMAC(secretKey, GeneratePayload(keyed))
<1> DEFINE signed == Insert(keyed, "signature", digest)
<1>1. /\ keyed = [p \in DOMAIN params \cup {"apiKey"} |->
                    IF p \in DOMAIN params THEN params[p] ELSE apiKey]
      /\ DOMAIN keyed = DOMAIN params \cup {"apiKey"} /\ keyed["apiKey"] = apiKey
  BY DEF Insert
<1>2. "signature" \notin DOMAIN keyed
  BY <1>1
<1> HIDE DEF keyed, digest
<1>3. /\ signed = [p \in DOMAIN keyed \cup {"signature"} |->
                     IF p \in DOMAIN keyed THEN keyed[p] ELSE digest]
      /\ DOMAIN signed = DOMAIN keyed \cup {"signature"} /\ signed["signature"] = digest
      /\ \A p \in DOMAIN keyed : signed[p] = keyed[p]
  BY <1>2 DEF Insert
<1> HIDE DEF signed
<1>4. [p \in DOMAIN signed \ {"signature"} |-> signed[p]] = [p \in DOMAIN keyed |-> keyed[p]]
  BY <1>2, <1>3
<1>5. keyed = [p \in DOMAIN keyed |-> keyed[p]]
  BY <1>1
<1>6. digest = HMAC(secretKey, [p \in DOMAIN signed \ {"signature"} |-> signed[p]])
  BY <1>4, <1>5 DEF digest, GeneratePayload
<1>7. SignRequestHMAC(params, apiKey, secretKey) = signed
  BY DEF SignRequestHMAC, signed, digest, keyed
<1> QED
  BY <1>1, <1>3, <1>6, <1>7 DEF SignedWith

\* A sequence, and one longer.
LEMMA SeqType ==
  ASSUME NEW s, IsSequence(s)
  PROVE  Len(s) \in Nat /\ DOMAIN s = 1..Len(s)
<1> DEFINE S == ToSet(s)
<1>1. s \in Seq(S)
  BY DEF IsSequence
<1> HIDE DEF S
<1> QED
  BY <1>1

LEMMA SeqNotEmpty ==
  ASSUME NEW s, NEW n \in Nat, n + 1 <= Len(s)
  PROVE  s # <<>>
<1> SUFFICES ASSUME s = <<>> PROVE FALSE
  OBVIOUS
<1>1. Len(s) = 0
  OBVIOUS
<1> QED
  BY <1>1

LEMMA Appended ==
  ASSUME NEW s, IsSequence(s), NEW r
  PROVE  LET t == Append(s, r)
         IN  /\ IsSequence(t) /\ Len(t) = Len(s) + 1
             /\ \A i \in DOMAIN t : t[i] = r \/ (i \in DOMAIN s /\ t[i] = s[i])
<1> DEFINE t == Append(s, r)
<1>1. Len(s) \in Nat /\ DOMAIN s = 1..Len(s)
  BY SeqType
<1> DEFINE T == ToSet(s) \cup {r}
<1>2. s \in Seq(T)
  <2> DEFINE S == ToSet(s)
  <2>1. s \in Seq(S) /\ S \subseteq T
    BY DEF IsSequence
  <2> HIDE DEF S, T
  <2> QED
    BY <2>1
<1>3. r \in T
  OBVIOUS
<1> HIDE DEF T
<1>4. t \in Seq(T) /\ Len(t) = Len(s) + 1
  BY <1>2, <1>3
<1>5. DOMAIN t = 1..(Len(s) + 1)
  BY <1>4
<1>6. \A i \in DOMAIN t : t[i] = r \/ (i \in DOMAIN s /\ t[i] = s[i])
  BY <1>1, <1>2, <1>3, <1>5
<1>7. \A i \in 1..Len(t) : t[i] \in ToSet(t)
  BY <1>1, <1>4, <1>5 DEF ToSet
<1>8. IsSequence(t)
  <2> DEFINE U == ToSet(t)
  <2>1. \A i \in 1..Len(t) : t[i] \in U
    BY <1>7
  <2> HIDE DEF U
  <2>2. t \in Seq(U)
    BY <1>4, <2>1
  <2> QED
    BY <2>2 DEF U, IsSequence
<1> QED
  BY <1>4, <1>6, <1>8

\* What SignedAsConfigured says of one request.
Fits(r) ==
  /\ Signed(r) => (Verifies(r) <=> SignMethod = "HMAC")
  /\ ~Signed(r) => r.method \in {"exchangeInfo", "ticker.book"}

\* A request signed by the broker that the ini file asks for.
LEMMA SignedFits ==
  ASSUME NEW now, NEW id, NEW method, NEW params,
         {"apiKey", "signature"} \cap DOMAIN params = {}
  PROVE  Fits(ParamsSignedRequest(Broker, now, id, method, params))
<1> DEFINE stamped == Assign(params, "timestamp", now)
<1> DEFINE signed == SignRequestHMAC(stamped, ini.api_key, SecretKey)
<1> DEFINE r == ParamsSignedRequest(Broker, now, id, method, params)
<1>1. "apiKey" \notin DOMAIN stamped /\ "signature" \notin DOMAIN stamped
  BY DEF Assign
<1>2. Broker # NoInstance
  BY DEF Broker, NoInstance
<1>3. r = [id |-> id, method |-> method, params |-> signed]
  BY <1>2 DEF ParamsSignedRequest, Broker
<1> HIDE DEF stamped, r
<1>4. SignedWith(signed, ini.api_key, SecretKey)
  BY <1>1, Signing
<1> HIDE DEF signed
<1>5. r.params = signed
  BY <1>3
<1>6. SignMethod = "HMAC" => SecretKey = ini.api_secret
  BY DEF SecretKey
<1>7. Signed(r) /\ (Verifies(r) <=> SignMethod = "HMAC")
  BY <1>4, <1>5, <1>6 DEF SignedWith, Signed, Verifies
<1> QED
  BY <1>7 DEF Fits, r

LEMMA UnsignedFits ==
  ASSUME NEW id, NEW symbols
  PROVE  /\ Fits(ExchangeInformation(id, symbols))
         /\ Fits(SymbolOrderBookTicker(id, symbols))
<1> DEFINE params == SymbolParams(symbols)
<1>1. "signature" \notin DOMAIN params
  BY DEF SymbolParams, NoParams
<1> HIDE DEF params
<1>2. ASSUME NEW method \in {"exchangeInfo", "ticker.book"}
      PROVE  Fits(ParamsUnsignedRequest(id, method, params))
  BY <1>1 DEF ParamsUnsignedRequest, Fits, Signed
<1> QED
  BY <1>2 DEF ExchangeInformation, SymbolOrderBookTicker, params

\* The requests before the loop, and the orders.
LEMMA RequestsFit ==
  ASSUME instance = Broker
  PROVE  /\ \A i \in DOMAIN StartRequests : Fits(StartRequests[i])
         /\ \A id, side, qty :
              Fits(TestNewOrder(instance, id, id, "BTCUSDT", side, "MARKET", qty, 0))
<1>1. Fits(Information(instance, NextId, NextId))
  BY SignedFits DEF Information
<1>2. Fits(ExchangeInformation(NextId, {})) /\ Fits(SymbolOrderBookTicker(NextId, {"BTCUSDT"}))
  BY UnsignedFits
<1>3. ASSUME NEW i \in DOMAIN StartRequests
      PROVE  Fits(StartRequests[i])
  <2> DEFINE a == ExchangeInformation(NextId, {})
  <2> DEFINE b == Information(instance, NextId, NextId)
  <2> DEFINE c == SymbolOrderBookTicker(NextId, {"BTCUSDT"})
  <2>1. StartRequests \in {<<a, b, c>>, <<a>>, <<>>}
    BY DEF StartRequests
  <2> HIDE DEF a, b, c
  <2>2. StartRequests[i] \in {a, b, c}
    BY <2>1, <1>3
  <2> QED
    BY <2>2, <1>1, <1>2 DEF a, b, c
<1>4. ASSUME NEW id, NEW side, NEW qty
      PROVE  Fits(TestNewOrder(instance, id, id, "BTCUSDT", side, "MARKET", qty, 0))
  <2> DEFINE params == OrderParams("BTCUSDT", side, "MARKET", qty, 0)
  <2>1. {"apiKey", "signature"} \cap DOMAIN params = {}
    BY DEF OrderParams
  <2> HIDE DEF params
  <2>2. Fits(ParamsSignedRequest(Broker, id, id, "order.test", params))
    BY <2>1, SignedFits
  <2> QED
    BY <2>2 DEF TestNewOrder, params
<1> QED
  BY <1>3, <1>4

-----------------------------------------------------------------------------
(* The inductive invariant.                                                *)

\* A program never gets another input.
LEMMA SameInput ==
  ASSUME [Next]_vars
  PROVE  /\ input' = input /\ ini' = ini
         /\ Trader' = Trader /\ Recorder' = Recorder
         /\ Letters' = Letters /\ Required' = Required
         /\ SignMethod' = SignMethod /\ SecretKey' = SecretKey
         /\ LoadedConfig' = LoadedConfig /\ Broker' = Broker
<1>1. input' = input
  BY DEF Next, ParseOption, CheckOptions, LoadConfig, MakeStrategy, Construct, ExposerThrows,
    DateIsOver, Start, BrokerThreadBegins, FeederThreadBegins, StartClientDies, ReconnectDies,
    ParseDataDies, Request, ResponseTooEarly, SubscribeToTickers, SendOrder, LoopEnds,
    Leave, inputVars, mainVars, vars
<1>2. Trader' = Trader /\ Recorder' = Recorder
  BY <1>1 DEF Trader, Recorder
<1>3. Letters' = Letters /\ Required' = Required
  BY <1>1 DEF Letters, Required, Trader
<1>4. ini' = ini
  BY <1>1 DEF ini
<1>5. SignMethod' = SignMethod
  BY <1>4 DEF SignMethod
<1>6. SecretKey' = SecretKey
  BY <1>4, <1>5 DEF SecretKey
<1>7. LoadedConfig' = LoadedConfig
  BY <1>4, <1>5, <1>6 DEF LoadedConfig
<1>8. Broker' = Broker
  BY <1>4, <1>6 DEF Broker
<1> QED
  BY <1>1, <1>2, <1>3, <1>4, <1>5, <1>6, <1>7, <1>8

LEMMA InitInv == Init => ProgramsInv
<1> SUFFICES ASSUME Init PROVE ProgramsInv
  OBVIOUS
<1>1. OptInv
  <2>1. Len(input.argv) \in Nat /\ optind = 1 /\ ~Parsed
    BY ArgvType DEF Init, Parsed
  <2>2. \A o \in Letters : options[o] = ""
    BY DEF Init, Letters
  <2>5. 1..(optind - 1) = {}
    BY <2>1
  <2>3. \A o \in Letters : LastTo(o, optind)
    BY <2>2, <2>5 DEF LastTo
  <2>4. optind \in 1..(Len(input.argv) + 1)
    BY <2>1
  <2> QED
    BY <2>1, <2>3, <2>4 DEF Init, OptInv
<1>2. StageInv /\ EndInv
  BY ArgvType DEF Init, StageInv, EndInv, Trader, Recorder
<1>4. OrderInv
  <2>1. sent = <<>> /\ fws_thread_ = "none"
    BY DEF Init
  <2>2. ~Ordered
    BY <2>1 DEF Ordered
  <2> QED
    BY <2>1, <2>2 DEF OrderInv
<1>3. SentInv
  <2>1. sent = <<>>
    BY DEF Init
  <2>2. IsSequence(sent)
    BY <2>1 DEF IsSequence
  <2>3. SignedAsConfigured
    BY <2>1 DEF SignedAsConfigured
  <2> QED
    BY <2>2, <2>3 DEF SentInv
<1> QED
  BY <1>1, <1>2, <1>3, <1>4 DEF ProgramsInv

LEMMA OptStep ==
  ASSUME OptInv, StageInv, [Next]_vars
  PROVE  OptInv'
<1> DEFINE n == Len(input.argv)
<1>1. n \in Nat /\ input.program \in {"trader", "recorder"} /\ DOMAIN input.argv = 1..n
  BY ArgvType DEF OptInv
<1>2. /\ input' = input /\ input \in Inputs
      /\ Letters' = Letters /\ Required' = Required
      /\ Letters \subseteq {"s", "d", "c"}
  BY SameInput, <1>1 DEF OptInv, Letters
<1> HIDE DEF n
<1>3. CASE ParseOption
  <2> DEFINE token == input.argv[optind]
  <2>1. /\ optind \in 1..n /\ optind' = optind + 1
        /\ step = "options" /\ ~Parsed'
    BY <1>3, <1>1 DEF ParseOption, OptInv, n, Parsed, Ends
  <2>2. \/ /\ token.opt \in Letters
           /\ options' = [options EXCEPT ![token.opt] = token.arg]
        \/ token.opt \notin Letters /\ options' = options
    BY <1>3 DEF ParseOption, SetOption
  <2>3. optind' \in 1..(n + 1)
    BY <2>1, <1>1
  <2>5. DOMAIN options' = {"s", "d", "c"}
    BY <2>2 DEF OptInv
  <2>4. ASSUME NEW o \in Letters
        PROVE  LastTo(o, optind)'
    <3>1. optind' - 1 = optind /\ optind - 1 \in Nat
      BY <2>1, <1>1
    <3>4. LastTo(o, optind)
      BY <2>4 DEF OptInv
    <3>2. CASE token.opt = o
      <4>1. options'[o] = token.arg
        BY <2>2, <2>4, <3>2, <1>2 DEF OptInv
      <4>2. optind \in 1..(optind' - 1) /\ (optind + 1)..(optind' - 1) = {}
        BY <2>1, <1>1, <3>1
      <4> QED
        BY <4>1, <4>2, <3>2, <1>2 DEF LastTo
    <3>3. CASE token.opt # o
      <4>1. options'[o] = options[o]
        BY <2>2, <2>4, <3>3, <1>2 DEF OptInv
      <4>2. \A j \in 1..(optind' - 1) : j \in 1..(optind - 1) \/ j = optind
        BY <2>1, <1>1
      <4>3. 1..(optind - 1) \subseteq 1..(optind' - 1)
        BY <2>1, <1>1
      <4>4. \A k \in 1..(optind - 1) : \A j \in (k + 1)..(optind' - 1) :
              j \in (k + 1)..(optind - 1) \/ j = optind
        BY <2>1, <1>1
      <4> QED
        BY <4>1, <4>2, <4>3, <4>4, <3>3, <3>4, <1>2 DEF LastTo
    <3> QED
      BY <3>2, <3>3
  <2> QED
    BY <2>1, <2>3, <2>4, <2>5, <1>2 DEF OptInv, n
<1>4. CASE ~ParseOption
  <2>1. optind' = optind /\ options' = options
    BY <1>4 DEF Next, CheckOptions, LoadConfig, MakeStrategy, Construct, ExposerThrows,
      DateIsOver, Start, BrokerThreadBegins, FeederThreadBegins, StartClientDies, ReconnectDies,
      ParseDataDies, Request, ResponseTooEarly, SubscribeToTickers, SendOrder, LoopEnds,
      Leave, mainVars, vars
  <2>2. ASSUME NEW o \in Letters
        PROVE  LastTo(o, optind)'
    <3>1. LastTo(o, optind)
      BY <2>2 DEF OptInv
    <3> QED
      BY <3>1, <2>1, <1>2 DEF LastTo
  <2>3. step = "options" => bws_thread_ = "none" /\ fws_thread_ = "none"
    BY DEF StageInv
  <2>4. Parsed' => Parsed \/ (optind = n + 1 /\ \A o \in Required : options[o] # "")
    <3>1. CASE CheckOptions
      <4>1. optind = n + 1
        <5>1. optind \in 1..(n + 1)
          BY DEF OptInv, n
        <5>2. optind > n
          BY <3>1 DEF CheckOptions, n
        <5> QED
          BY <5>1, <5>2, <1>1
      <4>2. (\A o \in Required : options[o] # "") \/ ~Parsed'
        BY <3>1 DEF CheckOptions, Ends, Parsed
      <4> QED
        BY <4>1, <4>2
    <3>2. CASE step = "options" /\ ~CheckOptions
      <4>1. ~NoConnection /\ fws_thread_ = "none" /\ bws_thread_ = "none"
        BY <2>3, <3>2 DEF NoConnection
      <4>2. step' = step
        BY <3>2, <4>1, <1>4 DEF Next, LoadConfig, MakeStrategy, Construct, ExposerThrows,
          DateIsOver, Start, BrokerThreadBegins, FeederThreadBegins, StartClientDies,
          ReconnectDies, ParseDataDies, Request, ResponseTooEarly, SubscribeToTickers,
          SendOrder, LoopEnds, Leave, Subscribing, mainVars, vars
      <4> QED
        BY <3>2, <4>2 DEF Parsed
    <3>3. CASE step = "gone"
      <4>1. step' = step /\ exit' = exit
        BY <3>3, <1>4 DEF Next, CheckOptions, LoadConfig, MakeStrategy, Construct,
          ExposerThrows, DateIsOver, Start, BrokerThreadBegins, FeederThreadBegins, StartClientDies,
          ReconnectDies, ParseDataDies, Request, ResponseTooEarly, SubscribeToTickers,
          SendOrder, LoopEnds, Leave, Subscribing, mainVars, vars
      <4> QED
        BY <3>3, <4>1 DEF Parsed
    <3>4. CASE step \notin {"options", "gone"}
      BY <3>4 DEF Parsed
    <3> QED
      BY <3>1, <3>2, <3>3, <3>4
  <2> QED
    BY <2>1, <2>2, <2>4, <1>2 DEF OptInv, n
<1> QED
  BY <1>3, <1>4

LEMMA StageStep ==
  ASSUME OptInv, StageInv, EndInv, [Next]_vars
  PROVE  StageInv'
<1>1. /\ Trader' = Trader /\ Recorder' = Recorder /\ (Trader <=> ~Recorder)
      /\ LoadedConfig' = LoadedConfig /\ Broker' = Broker
  BY SameInput, ArgvType DEF OptInv, Trader, Recorder
<1>2. config' = config => (BrokerThrows' <=> BrokerThrows)
  BY DEF BrokerThrows
<1> USE DEF StageInv, Throws, Ends, threadVars, mainVars
<1>3. CASE ParseOption
  BY <1>3 DEF ParseOption
<1>4. CASE CheckOptions
  BY <1>4 DEF CheckOptions
<1>5. CASE LoadConfig
  BY <1>1, <1>5 DEF LoadConfig
<1>6. CASE MakeStrategy
  BY <1>1, <1>6 DEF MakeStrategy
<1>7. CASE Construct
  <2>1. config = LoadedConfig /\ fws_thread_ = "none"
    BY <1>7 DEF Construct
  <2>2. Broker = [apiKey |-> config.apiKey, secretKey |-> config.secret]
    BY <2>1 DEF Broker, LoadedConfig
  <2> QED
    BY <1>1, <1>2, <1>7, <2>1, <2>2 DEF Construct
<1>8. CASE ExposerThrows
  BY <1>1, <1>8 DEF ExposerThrows
<1>9. CASE DateIsOver
  BY <1>1, <1>9 DEF DateIsOver
<1>10. CASE Start
  BY <1>1, <1>2, <1>10 DEF Start
<1>11. CASE BrokerThreadBegins
  BY <1>1, <1>2, <1>11 DEF BrokerThreadBegins
<1>12. CASE FeederThreadBegins
  BY <1>1, <1>2, <1>12 DEF FeederThreadBegins
<1>13. CASE StartClientDies \/ ReconnectDies \/ ParseDataDies
  BY <1>1, <1>13 DEF StartClientDies, ReconnectDies, ParseDataDies
<1>14. CASE Request
  BY <1>1, <1>2, <1>14 DEF Request
<1>15. CASE ResponseTooEarly
  BY <1>1, <1>2, <1>15 DEF ResponseTooEarly, Subscribing
<1>16. CASE SubscribeToTickers
  BY <1>1, <1>2, <1>16 DEF SubscribeToTickers, Subscribing
<1>17. CASE SendOrder
  BY <1>1, <1>2, <1>17 DEF SendOrder
<1>18. CASE LoopEnds
  BY <1>1, <1>18 DEF LoopEnds
<1>19. CASE Leave
  BY <1>1, <1>19 DEF Leave
<1>20. CASE UNCHANGED vars
  BY <1>1, <1>2, <1>20 DEF vars
<1> QED
  BY <1>3, <1>4, <1>5, <1>6, <1>7, <1>8, <1>9, <1>10, <1>11, <1>12, <1>13, <1>14, <1>15,
    <1>16, <1>17, <1>18, <1>19, <1>20 DEF Next

\* The requests before the loop are as many as StartLength says.
LEMMA StartLengthIs == Len(StartRequests) = StartLength /\ StartLength \in Nat
<1> DEFINE a == ExchangeInformation(NextId, {})
<1> DEFINE b == Information(instance, NextId, NextId)
<1> DEFINE c == SymbolOrderBookTicker(NextId, {"BTCUSDT"})
<1>1. StartRequests = IF Trader THEN <<a, b, c>>
                      ELSE IF options["s"] = "all" THEN <<a>> ELSE <<>>
  BY DEF StartRequests
<1> HIDE DEF a, b, c
<1>2. Len(<<a, b, c>>) = 3 /\ Len(<<a>>) = 1 /\ Len(<<>>) = 0
  OBVIOUS
<1> QED
  BY <1>1, <1>2 DEF StartLength

\* The one that is sent is among them.
LEMMA RequestIndex ==
  ASSUME SentInv, Request
  PROVE  NextId \in 1..Len(StartRequests) /\ NextId <= StartLength
<1>1. Len(sent) \in Nat
  BY SeqType DEF SentInv
<1>2. NextId \in Nat \ {0}
  BY <1>1 DEF NextId
<1>3. NextId <= Len(StartRequests)
  BY DEF Request
<1>4. Len(StartRequests) = StartLength /\ StartLength \in Nat
  BY StartLengthIs
<1> QED
  BY <1>2, <1>3, <1>4

\* A request before the loop makes the sequence longer by something that is no order.
LEMMA RequestIsNoOrder ==
  ASSUME StageInv, SentInv, Request, ~Ordered
  PROVE  ~Ordered'
<1> DEFINE r == StartRequests[NextId]
<1>1. sent' = Append(sent, r) /\ NextId \in 1..Len(StartRequests) /\ instance = Broker
  <2>1. NextId \in 1..Len(StartRequests)
    BY RequestIndex
  <2> QED
    BY <2>1 DEF Request, StageInv
<1>2. r.method # "order.test"
  <2> DEFINE a == ExchangeInformation(NextId, {})
  <2> DEFINE b == Information(instance, NextId, NextId)
  <2> DEFINE c == SymbolOrderBookTicker(NextId, {"BTCUSDT"})
  <2>1. instance # NoInstance
    BY <1>1 DEF Broker, NoInstance
  <2>2. a.method = "exchangeInfo" /\ c.method = "ticker.book"
    BY DEF ExchangeInformation, SymbolOrderBookTicker, ParamsUnsignedRequest
  <2>3. b.method = "account.status"
    BY <2>1 DEF Information, ParamsSignedRequest
  <2>4. StartRequests \in {<<a, b, c>>, <<a>>, <<>>}
    BY DEF StartRequests
  <2> HIDE DEF a, b, c
  <2>5. r \in {a, b, c}
    BY <2>4, <1>1
  <2> HIDE DEF r
  <2> QED
    BY <2>2, <2>3, <2>5
<1> HIDE DEF r
<1>3. \A i \in DOMAIN sent' : sent'[i] = r \/ (i \in DOMAIN sent /\ sent'[i] = sent[i])
  BY <1>1, Appended DEF SentInv
<1> QED
  BY <1>2, <1>3 DEF Ordered

LEMMA OrderStep ==
  ASSUME OptInv, StageInv, OrderInv, SentInv, [Next]_vars
  PROVE  OrderInv'
<1>1. Trader' = Trader /\ (Trader => ~Recorder)
  BY SameInput DEF Trader, Recorder
<1>2. Len(sent) \in Nat /\ NextId \in Nat /\ NextId = Len(sent) + 1
  BY SeqType DEF SentInv, NextId
<1>3. CASE ParseOption
  BY <1>3 DEF ParseOption, OrderInv, StageInv, Ordered, threadVars, Ends
<1>4. CASE ~ParseOption
  <2>1. StartLength' = StartLength
    <3>1. options' = options
      BY <1>4 DEF Next, CheckOptions, LoadConfig, MakeStrategy, Construct, ExposerThrows,
        DateIsOver, Start, BrokerThreadBegins, FeederThreadBegins, StartClientDies,
        ReconnectDies, ParseDataDies, Request, ResponseTooEarly, SubscribeToTickers, SendOrder,
        LoopEnds, Leave, mainVars, vars
    <3> QED
      BY <3>1, <1>1 DEF StartLength
  <2>2. CASE Request
    <3>1. step = "requests" /\ ~Ordered /\ fws_thread_' = fws_thread_
      BY <2>2 DEF Request, OrderInv, threadVars
    <3>2. fws_thread_ # "astray"
      <4>1. NextId <= StartLength
        BY <2>2, RequestIndex
      <4>2. ~(NextId > StartLength)
        BY <4>1, <1>2, StartLengthIs
      <4> QED
        BY <4>2 DEF OrderInv
    <3> QED
      BY <3>1, <3>2, <2>2, RequestIsNoOrder DEF OrderInv
  <2>3. CASE SendOrder
    <3>1. PICK r : sent' = Append(sent, r)
      BY <2>3 DEF SendOrder
    <3>2. Len(sent') = Len(sent) + 1
      BY <3>1, Appended DEF SentInv
    <3>3. NextId' = NextId + 1
      BY <3>2, <1>2 DEF NextId
    <3>4. step = "loop" /\ step' = "loop" /\ fws_thread_' = fws_thread_
      BY <2>3 DEF SendOrder, threadVars
    <3> QED
      BY <3>3, <3>4, <2>1, <1>2, StartLengthIs DEF OrderInv
  <2>4. CASE ~Request /\ ~SendOrder
    <3>1. sent' = sent /\ NextId' = NextId /\ (Ordered' <=> Ordered)
      BY <2>4, <1>4 DEF Next, CheckOptions, LoadConfig, MakeStrategy, Construct, ExposerThrows,
        DateIsOver, Start, BrokerThreadBegins, FeederThreadBegins, StartClientDies,
        ReconnectDies, ParseDataDies, ResponseTooEarly, SubscribeToTickers, LoopEnds, Leave,
        mainVars, vars, NextId, Ordered
    <3>2. step \in {"loop", "return", "gone"} => step' \in {"loop", "return", "gone"}
      BY <2>4, <1>4 DEF Next, CheckOptions, LoadConfig, MakeStrategy, Construct, ExposerThrows,
        DateIsOver, Start, BrokerThreadBegins, FeederThreadBegins, StartClientDies,
        ReconnectDies, ParseDataDies, ResponseTooEarly, SubscribeToTickers, LoopEnds, Leave,
        mainVars, vars, Ends, Subscribing
    <3>3. CASE fws_thread_' = fws_thread_
      <4>1. step # "options" => step' # "options"
        BY <2>4, <1>4 DEF Next, CheckOptions, LoadConfig, MakeStrategy, Construct,
          ExposerThrows, DateIsOver, Start, BrokerThreadBegins, FeederThreadBegins,
          StartClientDies, ReconnectDies, ParseDataDies, ResponseTooEarly, SubscribeToTickers,
          LoopEnds, Leave, mainVars, vars, Ends, Throws
      <4> QED
        BY <4>1, <3>1, <3>2, <3>3, <2>1 DEF OrderInv
    <3>4. CASE ResponseTooEarly
      BY <3>1, <3>2, <3>4, <2>1, StartLengthIs DEF ResponseTooEarly, Subscribing, OrderInv
    <3>5. CASE fws_thread_' # "astray"
      BY <3>1, <3>2, <3>5 DEF OrderInv
    <3>6. fws_thread_' = fws_thread_ \/ ResponseTooEarly \/ fws_thread_' # "astray"
      BY <2>4, <1>4 DEF Next, CheckOptions, LoadConfig, MakeStrategy, Construct, ExposerThrows,
        DateIsOver, Start, BrokerThreadBegins, FeederThreadBegins, StartClientDies,
        ReconnectDies, ParseDataDies, SubscribeToTickers, LoopEnds, Leave, threadVars, vars
    <3> QED
      BY <3>3, <3>4, <3>5, <3>6
  <2> QED
    BY <2>2, <2>3, <2>4
<1> QED
  BY <1>3, <1>4

LEMMA EndStep ==
  ASSUME OptInv, StageInv, EndInv, OrderInv, SentInv, [Next]_vars
  PROVE  EndInv'
<1>1. /\ Trader' = Trader /\ Recorder' = Recorder /\ (Trader <=> ~Recorder) /\ ini' = ini
  BY SameInput, ArgvType DEF OptInv, Trader, Recorder
<1>2. ~Request /\ ~SendOrder => (Ordered' <=> Ordered)
  <2>1. ~Request /\ ~SendOrder => sent' = sent
    BY DEF Next, ParseOption, CheckOptions, LoadConfig, MakeStrategy, Construct, ExposerThrows,
      DateIsOver, Start, BrokerThreadBegins, FeederThreadBegins, StartClientDies, ReconnectDies,
      ParseDataDies, ResponseTooEarly, SubscribeToTickers, LoopEnds, Leave, mainVars, vars
  <2> QED
    BY <2>1 DEF Ordered
<1>3. step \notin {"loop", "return", "gone"} => ~Ordered
  BY DEF OrderInv
<1> HIDE DEF Ordered
<1> USE DEF EndInv, Throws, Ends, threadVars, mainVars
<1>4. CASE ParseOption
  BY <1>1, <1>4 DEF ParseOption, StageInv
<1>5. CASE CheckOptions
  BY <1>1, <1>5 DEF CheckOptions, StageInv
<1>6. CASE LoadConfig
  <2>1. ~Ordered'
    BY <1>2, <1>3, <1>6 DEF LoadConfig, Request, SendOrder
  <2> QED
    BY <1>1, <1>6, <2>1 DEF LoadConfig, StageInv
<1>7. CASE MakeStrategy
  <2>1. ~Ordered'
    BY <1>2, <1>3, <1>7 DEF MakeStrategy, Request, SendOrder
  <2> QED
    BY <1>1, <1>7, <2>1 DEF MakeStrategy, StageInv
<1>8. CASE Construct
  <2>1. ~Ordered'
    BY <1>2, <1>3, <1>8 DEF Construct, Request, SendOrder
  <2> QED
    BY <1>1, <1>8, <2>1 DEF Construct, StageInv
<1>9. CASE ExposerThrows
  BY <1>1, <1>9 DEF ExposerThrows, StageInv
<1>10. CASE DateIsOver
  BY <1>1, <1>10 DEF DateIsOver, StageInv
<1>11. CASE Start
  <2>1. ~Ordered'
    BY <1>2, <1>3, <1>11 DEF Start, Request, SendOrder
  <2> QED
    BY <1>1, <1>11, <2>1 DEF Start, StageInv
<1>12. CASE BrokerThreadBegins \/ FeederThreadBegins
  BY <1>1, <1>12 DEF BrokerThreadBegins, FeederThreadBegins
<1>13. CASE StartClientDies
  <2>1. \/ bws_thread_ = "running" /\ ini.api_ws_endpoint = ""
        \/ fws_thread_ = "running" /\ ini.streams_ws_endpoint = ""
    <3>1. NoConnection
      BY <1>13 DEF StartClientDies
    <3>2. config = LoadedConfig
      BY <3>1 DEF NoConnection, StageInv
    <3>3. /\ config.apiWsEndpoint = ini.api_ws_endpoint
          /\ config.streamsWsEndpoint = ini.streams_ws_endpoint
      BY <3>2 DEF LoadedConfig
    <3> QED
      BY <3>1, <3>3 DEF NoConnection
  <2> QED
    BY <1>1, <1>13, <2>1 DEF StartClientDies
<1>14. CASE ReconnectDies
  <2>1. fws_thread_ = "running" /\ ini.ws_persist_connection \in {"1", "true"}
    <3>1. fws_thread_ = "running" /\ config.wsPersistConnection
      BY <1>14 DEF ReconnectDies
    <3>2. config = LoadedConfig
      BY <3>1 DEF StageInv
    <3>3. config.wsPersistConnection = ToBool(ini.ws_persist_connection)
      BY <3>2 DEF LoadedConfig
    <3> QED
      BY <3>1, <3>3 DEF ToBool
  <2> QED
    BY <1>1, <1>14, <2>1 DEF ReconnectDies
<1>15. CASE ParseDataDies
  BY <1>1, <1>15 DEF ParseDataDies
<1>16. CASE Request
  <2>1. Len(sent) \in Nat /\ Len(sent) + 1 <= Len(StartRequests)
    BY <1>16, SeqType DEF Request, NextId, SentInv
  <2>2. StartRequests # <<>>
    BY <2>1, SeqNotEmpty
  <2>3. Recorder => options["s"] = "all"
    BY <2>2, <1>1 DEF StartRequests
  <2>4. ~Ordered'
    BY <1>3, <1>16, RequestIsNoOrder DEF Request
  <2> QED
    BY <1>1, <1>16, <2>3, <2>4 DEF Request
<1>17. CASE ResponseTooEarly
  BY <1>1, <1>17 DEF ResponseTooEarly, Subscribing
<1>18. CASE SubscribeToTickers
  BY <1>1, <1>18 DEF SubscribeToTickers, Subscribing
<1>19. CASE SendOrder
  BY <1>1, <1>19 DEF SendOrder
<1>20. CASE LoopEnds
  BY <1>1, <1>20 DEF LoopEnds, StageInv
<1>21. CASE Leave
  BY <1>1, <1>21 DEF Leave
<1>22. CASE UNCHANGED vars
  <2>1. Ordered' <=> Ordered
    BY <1>22 DEF vars, Ordered
  <2> QED
    BY <1>1, <1>22, <2>1 DEF vars
<1> QED
  BY <1>4, <1>5, <1>6, <1>7, <1>8, <1>9, <1>10, <1>11, <1>12, <1>13, <1>14, <1>15, <1>16,
    <1>17, <1>18, <1>19, <1>20, <1>21, <1>22 DEF Next

\* Every request fits, and one more.
LEMMA SentStep ==
  ASSUME OptInv, StageInv, SentInv, [Next]_vars
  PROVE  SentInv'
<1>1. SignedAsConfigured <=> \A i \in DOMAIN sent : Fits(sent[i])
  BY DEF SignedAsConfigured, Fits
<1>2. SignedAsConfigured' <=> \A i \in DOMAIN sent' : Fits(sent'[i])
  BY SameInput DEF SignedAsConfigured, Fits, Signed, Verifies
<1>3. CASE UNCHANGED sent
  BY <1>1, <1>2, <1>3 DEF SentInv
<1>4. ASSUME NEW r, sent' = Append(sent, r), Fits(r)
      PROVE  SentInv'
  <2>1. IsSequence(sent)
    BY DEF SentInv
  <2>2. /\ IsSequence(sent')
        /\ \A i \in DOMAIN sent' : sent'[i] = r \/ (i \in DOMAIN sent /\ sent'[i] = sent[i])
    BY <2>1, <1>4, Appended
  <2>3. \A i \in DOMAIN sent' : Fits(sent'[i])
    BY <2>2, <1>1, <1>4 DEF SentInv
  <2> QED
    BY <2>2, <2>3, <1>2 DEF SentInv
<1>5. CASE Request
  <2>1. sent' = Append(sent, StartRequests[NextId]) /\ instance = Broker
    BY <1>5 DEF Request, StageInv
  <2>2. NextId \in 1..Len(StartRequests)
    BY <1>5, RequestIndex
  <2>3. DOMAIN StartRequests = 1..Len(StartRequests)
    <3> DEFINE a == ExchangeInformation(NextId, {})
    <3> DEFINE b == Information(instance, NextId, NextId)
    <3> DEFINE c == SymbolOrderBookTicker(NextId, {"BTCUSDT"})
    <3>1. StartRequests \in {<<a, b, c>>, <<a>>, <<>>}
      BY DEF StartRequests
    <3> HIDE DEF a, b, c
    <3> QED
      BY <3>1
  <2>4. Fits(StartRequests[NextId])
    BY <2>1, <2>2, <2>3, RequestsFit
  <2> QED
    BY <2>1, <2>4, <1>4
<1>6. CASE SendOrder
  <2>1. PICK side, qty : sent' = Append(sent, TestNewOrder(instance, NextId, NextId, "BTCUSDT",
                                                           side, "MARKET", qty, 0))
    BY <1>6 DEF SendOrder
  <2>2. instance = Broker
    BY <1>6 DEF SendOrder, StageInv
  <2>3. Fits(TestNewOrder(instance, NextId, NextId, "BTCUSDT", side, "MARKET", qty, 0))
    BY <2>2, RequestsFit
  <2> QED
    BY <2>1, <2>3, <1>4
<1> QED
  BY <1>3, <1>5, <1>6 DEF Next, ParseOption, CheckOptions, LoadConfig, MakeStrategy, Construct,
    ExposerThrows, DateIsOver, Start, BrokerThreadBegins, FeederThreadBegins, StartClientDies,
    ReconnectDies, ParseDataDies, ResponseTooEarly, SubscribeToTickers, LoopEnds, Leave,
    mainVars, vars

THEOREM ProgramsInvariant == Spec => []ProgramsInv
<1>1. ProgramsInv /\ [Next]_vars => ProgramsInv'
  BY OptStep, StageStep, EndStep, OrderStep, SentStep DEF ProgramsInv
<1> QED
  BY <1>1, InitInv, PTL DEF Spec

\* Everything a process dies of without an exit code, for every command line and
\* every ini file, on whichever of its three threads.
THEOREM DiesOnly == Spec => []DiesOnlyOf
<1>1. ProgramsInv => DiesOnlyOf
  <2> SUFFICES ASSUME ProgramsInv PROVE DiesOnlyOf
    OBVIOUS
  <2>1. exit \in {"terminate", "segfault"} => options["s"] = LastGiven("s")
    <3> SUFFICES ASSUME exit \in {"terminate", "segfault"} PROVE options["s"] = LastGiven("s")
      OBVIOUS
    <3>1. LastTo("s", Len(input.argv) + 1)
      BY DEF ProgramsInv, OptInv, EndInv, Parsed, Letters
    <3> QED
      BY <3>1, LastGivenIs DEF ProgramsInv
  <2>2. exit = "abort" => fws_thread_ = "astray" /\ NextId > Len(StartRequests)
    BY StartLengthIs DEF ProgramsInv, EndInv, OrderInv
  <2> QED
    BY <2>1, <2>2 DEF ProgramsInv, EndInv, DiesOnlyOf
<1> QED
  BY <1>1, ProgramsInvariant, PTL

\* What it takes to reach the loop.
THEOREM StartsAsAsked == Spec => []StartedAsAsked
<1>1. ProgramsInv => StartedAsAsked
  <2> SUFFICES ASSUME ProgramsInv, step = "loop" PROVE StartedAsAsked
    BY DEF StartedAsAsked
  <2>1. optind = Len(input.argv) + 1 /\ \A o \in Required : options[o] # ""
    BY DEF ProgramsInv, OptInv, Parsed
  <2>2. ASSUME NEW o \in Letters
        PROVE  options[o] = LastGiven(o)
    BY <2>1, LastGivenIs DEF ProgramsInv, OptInv
  <2>3. /\ config.signMethod \in {"HMAC", "ED25519", "RSA"} /\ ~config.loginOnConnection
        /\ config = LoadedConfig
    BY DEF ProgramsInv, StageInv, BrokerThrows
  <2>4. config.wsPersistConnection => ini.ws_persist_connection \in {"1", "true"}
    BY <2>3 DEF LoadedConfig, ToBool
  <2> QED
    BY <2>1, <2>2, <2>3, <2>4 DEF StartedAsAsked
<1> QED
  BY <1>1, ProgramsInvariant, PTL

\* What the exchange makes of the requests.
THEOREM SignsAsConfigured == Spec => []SignedAsConfigured
<1>1. ProgramsInv => SignedAsConfigured
  BY DEF ProgramsInv, SentInv
<1> QED
  BY <1>1, ProgramsInvariant, PTL

=============================================================================

