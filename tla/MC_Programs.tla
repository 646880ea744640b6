------------------------------ MODULE MC_Programs ------------------------------
(***************************************************************************)
(* Programs: every command line of up to three options over one ini file,  *)
(* and every ini file under complete command lines.                        *)
(***************************************************************************)
EXTENDS Programs

Opt(o, arg) == [opt |-> o, arg |-> arg]

TraderOptions   == {Opt("c", "ini"), Opt("c", "nofile"), Opt("c", ""), Opt("s", "CircularArb"),
                    Opt("s", "Other"), Opt("d", "today")}
RecorderOptions == {Opt("c", "ini"), Opt("c", "nofile"), Opt("s", "all"), Opt("s", "btcusdt"),
                    Opt("d", "today"), Opt("d", "bad"), Opt("x", "")}
CommandLines(opts) == UNION {[1..n -> opts] : n \in 0..3}

Whole == [streams_ws_endpoint |-> "wss", api_ws_endpoint |-> "wss", api_key |-> "key",
          sign_method |-> "HMAC", api_secret |-> "secret",
          private_key_path |-> Missing, maximum_streams_subscriptions |-> "300",
          ws_persist_connection |-> "True", login_on_connection |-> "false",
          startingAsset |-> "USDT"]

\* Where to connect, and how.
Endpoints == [streams_ws_endpoint : {Missing, "", "wss"}, api_ws_endpoint : {Missing, "", "wss"},
              api_key : {"key"}, sign_method : {"HMAC"}, api_secret : {"secret"},
              private_key_path : {Missing}, maximum_streams_subscriptions : {"many"},
              ws_persist_connection : {"True", "true"}, login_on_connection : {Missing, "1"},
              startingAsset : {"USDT"}]

\* With which key, and with what.
Keys == [streams_ws_endpoint : {"wss"}, api_ws_endpoint : {"wss"}, api_key : {Missing, "", "key"},
         sign_method : {Missing, "", "HMAC", "ED25519", "ed25519"},
         api_secret : {Missing, "secret"}, private_key_path : {Missing, "pem", "unreadable"},
         maximum_streams_subscriptions : {"300"}, ws_persist_connection : {Missing, "1"},
         login_on_connection : {Missing, "1"}, startingAsset : {Missing, "", "USDT"}]

InFile == Endpoints \cup Keys

Input(program, lines, files) ==
  {[program |-> program, argv |-> l, ini |-> f] : l \in lines, f \in files}

AllInputs ==
  Input("trader", CommandLines(TraderOptions), {Whole})
    \cup Input("recorder", CommandLines(RecorderOptions), {Whole})
    \cup Input("trader", {<<Opt("c", "ini"), Opt("s", "CircularArb")>>}, InFile)
    \cup Input("recorder", {<<Opt("c", "ini"), Opt("s", s), Opt("d", "today")>> :
                              s \in {"all", "btcusdt"}}, InFile)

=============================================================================
