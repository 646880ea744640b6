------------------------------ MODULE BNBRequests ------------------------------
(***************************************************************************)
(* The requests of bnb/utils/BNBRequests.  A request is its id and a text: *)
(* a method and parameters, a function of their names.  A number in a text *)
(* has six decimals, multiples of TextUnit.                                *)
(***************************************************************************)
EXTENDS Integers

CONSTANT TextUnit

ASSUME TextUnitAssumption == TextUnit \in Nat \ {0}

\* std::to_string rounds to the nearest multiple; of two, a binary fraction may go
\* either way, the larger one being the worse for an order.
TextOf(x) == ((2 * x + TextUnit) \div (2 * TextUnit)) * TextUnit

\* The digest of a payload; nobody without the secret makes the same.
HMAC(secret, payload) == [secret |-> secret, payload |-> payload]

\* All parameters, in the order of their names.
GeneratePayload(params) == params

\* Of a std::map: insert leaves an entry that is there, operator[] overwrites it.
Insert(params, name, value) ==
  [p \in DOMAIN params \cup {name} |-> IF p \in DOMAIN params THEN params[p] ELSE value]
Assign(params, name, value) ==
  [p \in DOMAIN params \cup {name} |-> IF p = name THEN value ELSE params[p]]

\* Mutant: the signature does not cover the key.
SignRequestHMACFirst(params, apiKey, secretKey) ==
  Insert(Insert(params, "apiKey", apiKey),
         "signature", HMAC(secretKey, GeneratePayload(params)))

SignRequestHMAC(params, apiKey, secretKey) ==
  LET keyed == Insert(params, "apiKey", apiKey)
  IN  Insert(keyed, "signature", HMAC(secretKey, GeneratePayload(keyed)))

NoParams == [name \in {} |-> 0]

ParamsUnsignedRequest(id, method, params) == [id |-> id, method |-> method, params |-> params]

NoInstance   == <<>>
EmptyRequest == [id |-> "", method |-> "", params |-> NoParams]

\* Signed with the keys of the last broker, whatever its sign method; before the
\* first broker there are none.
ParamsSignedRequest(instance, now, id, method, params) ==
  IF instance = NoInstance THEN EmptyRequest
  ELSE [id |-> id, method |-> method,
        params |-> SignRequestHMAC(Assign(params, "timestamp", now),
                                   instance.apiKey, instance.secretKey)]

\* No symbols are all symbols.
SymbolParams(symbols) == IF symbols = {} THEN NoParams ELSE [symbols |-> symbols]

ExchangeInformation(id, symbols)   == ParamsUnsignedRequest(id, "exchangeInfo", SymbolParams(symbols))
SymbolOrderBookTicker(id, symbols) == ParamsUnsignedRequest(id, "ticker.book", SymbolParams(symbols))
Information(instance, now, id) ==
  ParamsSignedRequest(instance, now, id, "account.status", [omitZeroBalances |-> "true"])

\* Without a price, one of zero, the market decides.
OrderParams(symbol, side, type, quantity, price) ==
  LET params == [symbol |-> symbol, side |-> side, type |-> type,
                 quantity |-> TextOf(quantity), computeCommissionRates |-> "true"]
  IN  IF price > 0 THEN Assign(params, "price", TextOf(price)) ELSE params

TestNewOrder(instance, now, id, symbol, side, type, quantity, price) ==
  ParamsSignedRequest(instance, now, id, "order.test",
                      OrderParams(symbol, side, type, quantity, price))

=============================================================================
