------------------------------- MODULE BNBFeeder -------------------------------
(***************************************************************************)
(* The market-data connection (bnb/marketConnection/BNBFeeder): Main, its  *)
(* owner, starts it, subscribes to the streams of a list of symbols and    *)
(* destroys it; threads take updates from the queue that the client thread *)
(* fills; the thread Stopper may stop it.                                  *)
(*                                                                         *)
(* Symbols are the positions of the list that subscribeToTickers gets; a   *)
(* request is its id; a frame is its number in the order of arrival.       *)
(* connection_mutex_, connection_cv_ and is_connected_, as the feeder      *)
(* calls them, are the members of the base class with the same role.       *)
(***************************************************************************)
EXTENDS WebSocketListener, Sequences, FiniteSets

CONSTANTS Main,          \* the owner
          Stopper,       \* the thread that calls stop (besides the destructor)
          SymbolCounts,  \* lengths of the list of symbols to subscribe to
          MaxStreams,    \* configured values of maxStreamsSubs_
          MaxRequests,   \* bound on request ids
          MaxFrames      \* bound on frames

ASSUME ThreadAssumption == Main \in Thread /\ Stopper \in Thread
ASSUME BoundAssumption  == /\ SymbolCounts \subseteq Nat /\ MaxStreams \subseteq Nat
                           /\ MaxRequests \in Nat /\ MaxFrames \in Nat
                           /\ Message = 1..MaxRequests

VARIABLES
  maxStreamsSubs_,
  wsPersistConnection_,
  symbols,            \* the length of the list passed to subscribeToTickers
  frunning_,
  fws_thread_,        \* the std::thread: "none", "joinable" or "joined"
  pending_requests_,
  next_request_id_,
  update_queue_,
  queue_cv_,          \* threads blocked in queue_cv_.wait
  getting,            \* threads in getUpdate
  owner,              \* where Main is in the life of the feeder
  position,           \* i in the loop of subscribeToTickers
  stopping,           \* where the call of stop in progress is
  destroying,         \* that call is the destructor's
  chunkOf,            \* history: the streams requested by each request
  received,           \* history: frames pushed
  returned            \* history: frames returned by getUpdate

configVars    == <<maxStreamsSubs_, wsPersistConnection_, symbols>>
lifeVars      == <<frunning_, fws_thread_, stopping, destroying>>
subscribeVars == <<pending_requests_, next_request_id_, position, chunkOf>>
queueVars     == <<update_queue_, queue_cv_, getting, received, returned>>
feederVars    == <<configVars, lifeVars, subscribeVars, queueVars, owner>>
vars          == <<wsVars, feederVars>>

TypeOK ==
  /\ WSTypeOK
  /\ maxStreamsSubs_ \in MaxStreams
  /\ wsPersistConnection_ \in BOOLEAN
  /\ symbols \in SymbolCounts
  /\ frunning_ \in BOOLEAN
  /\ fws_thread_ \in {"none", "joinable", "joined"}
  /\ pending_requests_ \in SUBSET Message
  /\ next_request_id_ \in 1..(MaxRequests + 1)
  /\ update_queue_ \in Seq(1..MaxFrames)
  /\ queue_cv_ \in SUBSET getting
  /\ getting \in SUBSET Thread
  /\ owner \in {"new", "up", "wait", "chunk", "write", "insert", "ready", "gone"}
  /\ position \in Nat
  /\ stopping \in {"none", "test", "client", "join"}
  /\ destroying \in BOOLEAN
  /\ chunkOf \in [Message -> SUBSET (Nat \ {0})]
  /\ received \in Seq(1..MaxFrames)
  /\ returned \in Seq(1..MaxFrames)

Init ==
  /\ WSInit
  /\ maxStreamsSubs_ \in MaxStreams
  /\ wsPersistConnection_ \in BOOLEAN
  /\ symbols \in SymbolCounts
  /\ frunning_ = FALSE
  /\ fws_thread_ = "none"
  /\ pending_requests_ = {}
  /\ next_request_id_ = 1
  /\ update_queue_ = <<>>
  /\ queue_cv_ = {}
  /\ getting = {}
  /\ owner = "new"
  /\ position = 0
  /\ stopping = "none"
  /\ destroying = FALSE
  /\ chunkOf = [m \in Message |-> {}]
  /\ received = <<>>
  /\ returned = <<>>

\* Thread t is in no member function of the feeder, and may call one.
Free(t) ==
  /\ ~destroying
  /\ t \notin getting
  /\ t = Main => owner \in {"new", "up", "ready"}
  /\ t = Stopper => stopping = "none"
-----------------------------------------------------------------------------
(* start, and subscribeToTickers.                                          *)

Start ==
  /\ Free(Main) /\ owner = "new"
  /\ Launch
  /\ fws_thread_' = "joinable"
  /\ owner' = "up"
  /\ UNCHANGED <<frunning_, stopping, destroying, configVars, subscribeVars, queueVars>>

\* The thread function sets frunning_ and calls connect.
ThreadBegin ==
  /\ Begin
  /\ frunning_' = TRUE
  /\ UNCHANGED <<fws_thread_, stopping, destroying, owner, configVars, subscribeVars,
                 queueVars>>

SubscribeToTickers ==
  /\ Free(Main) /\ owner = "up"
  /\ owner' = "wait"
  /\ UNCHANGED <<configVars, lifeVars, subscribeVars, queueVars, wsVars>>

\* connection_cv_.wait(lock, is_connected_).
AwaitConnection ==
  /\ owner = "wait"
  /\ Main \notin connectionCond_
  /\ IF isConnected_
     THEN owner' = "chunk" /\ UNCHANGED connectionCond_
     ELSE connectionCond_' = connectionCond_ \cup {Main} /\ UNCHANGED owner
  /\ UNCHANGED <<isConnected_, hdl_, clientVars, writeVars, configVars, lifeVars,
                 subscribeVars, queueVars>>

\* The list of streams stops at maxStreamsSubs_: the counter is compared with
\* it after each increment, so that a limit of 0 limits nothing.
StreamCount == IF maxStreamsSubs_ \in 1..symbols THEN maxStreamsSubs_ ELSE symbols

\* The number of streams in a request.
ChunkSize == maxStreamsSubs_ \div 4

\* Mutant: the end of a chunk is one short.
ChunkShort(i) == (i + 1)..(i + ChunkSize - 1)

Chunk(i) == {s \in 1..StreamCount : i < s /\ s <= i + ChunkSize}

\* One turn of the loop, up to the call of writeWS.
NextChunk ==
  /\ owner = "chunk"
  /\ IF position < StreamCount
     THEN /\ next_request_id_ <= MaxRequests
          /\ WriteWS(Main, next_request_id_)
          /\ chunkOf' = [chunkOf EXCEPT ![next_request_id_] = Chunk(position)]
          /\ next_request_id_' = next_request_id_ + 1
          /\ owner' = "write"
     ELSE /\ owner' = "ready"
          /\ UNCHANGED <<chunkOf, next_request_id_, wsVars>>
  /\ UNCHANGED <<pending_requests_, position, configVars, lifeVars, queueVars>>

Write ==
  /\ owner = "write"
  /\ Writing(Main)
  /\ owner' = IF writer'[Main] = "idle" THEN "insert" ELSE "write"
  /\ UNCHANGED <<configVars, lifeVars, subscribeVars, queueVars>>

\* The id is inserted after the request was sent, without a lock; then the loop
\* advances.
InsertPending ==
  /\ owner = "insert"
  /\ pending_requests_' = pending_requests_ \cup {next_request_id_ - 1}
  /\ position' = position + ChunkSize
  /\ owner' = "chunk"
  /\ UNCHANGED <<next_request_id_, chunkOf, configVars, lifeVars, queueVars, wsVars>>
-----------------------------------------------------------------------------
(* The handlers, on the client thread.                                     *)

\* The response of a pending request.
OnResponse(id) ==
  /\ PeerAnswers(id)
  /\ id \in pending_requests_
  /\ pending_requests_' = pending_requests_ \ {id}
  /\ UNCHANGED <<next_request_id_, position, chunkOf, owner, configVars, lifeVars,
                 queueVars>>

\* A response that is not found in pending_requests_ is parsed as market data:
\* it has no member "s", an assertion of the json library.
OnUnexpectedResponse(id) ==
  /\ Receive(id)
  /\ id \notin pending_requests_
  /\ proc' = "abort"
  /\ UNCHANGED feederVars

\* The lookup races with the insertion: the id may be found or not, and the set
\* may lose elements.
OnResponseRacing(id) ==
  /\ owner = "insert"
  /\ Receive(id)
  /\ proc' \in {"up", "abort"}
  /\ \E lost \in SUBSET pending_requests_ :
       pending_requests_' = pending_requests_ \ (lost \cup {id})
  /\ UNCHANGED <<next_request_id_, position, chunkOf, owner, configVars, lifeVars,
                 queueVars>>

\* An error is logged; its request stays pending.
OnError(id) ==
  /\ PeerAnswers(id)
  /\ UNCHANGED feederVars

\* Streams that a request which reached the exchange asks for.
Fed == UNION {chunkOf[m] : m \in {k \in Message :
         k < next_request_id_ /\ k \notin wire \cup dropped /\ k # message[Main]}}

NewFrame == Len(received) + 1

\* A book ticker is parsed and pushed under queue_mutex_.
OnFrame ==
  /\ Dispatching
  /\ con_ = "open"
  /\ Fed # {}
  /\ NewFrame <= MaxFrames
  /\ update_queue_' = Append(update_queue_, NewFrame)
  /\ received' = Append(received, NewFrame)
  /\ thread' = "notify"
  /\ UNCHANGED <<con_, stopped, proc, linkVars, writeVars, queue_cv_, getting, returned,
                 owner, configVars, lifeVars, subscribeVars>>

\* The notification after the unlock leaves these threads blocked.
Notify(blocked) ==
  /\ thread = "notify"
  /\ thread' = "run"
  /\ queue_cv_' = blocked
  /\ UNCHANGED <<con_, stopped, proc, linkVars, writeVars, update_queue_, getting,
                 received, returned, owner, configVars, lifeVars, subscribeVars>>

\* Mutant: nobody is notified of the frame.
NotifyNobody == Notify(queue_cv_)

\* queue_cv_.notify_one.
NotifyFrame ==
  \/ queue_cv_ = {} /\ Notify({})
  \/ \E t \in queue_cv_ : Notify(queue_cv_ \ {t})

\* stop, start and subscribeToTickers on the client thread itself: the join of
\* the own thread throws out of the event loop, or, when another stop has reset
\* frunning_, start assigns to a joinable std::thread.  Both terminate.
Reconnect ==
  /\ frunning_' = FALSE
  /\ stopped' = (stopped \/ frunning_)
  /\ proc' = "terminate"

\* onClose and onFail.
OnLoss(before, after) ==
  /\ Lose(before, after)
  /\ IF wsPersistConnection_ THEN Reconnect ELSE UNCHANGED <<frunning_, stopped, proc>>
  /\ UNCHANGED <<fws_thread_, stopping, destroying, owner, configVars, subscribeVars,
                 queueVars>>
-----------------------------------------------------------------------------
(* getUpdate, called by thread t once the subscription has been made.      *)

GetUpdate(t) ==
  /\ Free(t) /\ owner = "ready"
  /\ getting' = getting \cup {t}
  /\ UNCHANGED <<update_queue_, queue_cv_, received, returned, owner, configVars,
                 lifeVars, subscribeVars, wsVars>>

\* The predicate is evaluated under queue_mutex_, at the call and after each
\* wake-up: a frame is taken, the thread waits, or the exception "No more
\* updates" ends the call.
TakeOrWait(t, frame, others) ==
  /\ t \in getting \ queue_cv_
  /\ \/ /\ update_queue_ # <<>>
        /\ returned' = Append(returned, frame)
        /\ update_queue_' = others
        /\ getting' = getting \ {t}
        /\ UNCHANGED queue_cv_
     \/ /\ update_queue_ = <<>> /\ frunning_
        /\ queue_cv_' = queue_cv_ \cup {t}
        /\ UNCHANGED <<returned, update_queue_, getting>>
     \/ /\ update_queue_ = <<>> /\ ~frunning_
        /\ getting' = getting \ {t}
        /\ UNCHANGED <<returned, update_queue_, queue_cv_>>
  /\ UNCHANGED <<received, owner, configVars, lifeVars, subscribeVars, wsVars>>

\* Mutant: the newest frame is taken.
AwaitNewest(t) ==
  LET last == Len(update_queue_)
  IN  TakeOrWait(t, update_queue_[last], SubSeq(update_queue_, 1, last - 1))

AwaitUpdate(t) == TakeOrWait(t, Head(update_queue_), Tail(update_queue_))

SpuriousQueueWake(t) ==
  /\ t \in queue_cv_
  /\ queue_cv_' = queue_cv_ \ {t}
  /\ UNCHANGED <<update_queue_, getting, received, returned, owner, configVars,
                 lifeVars, subscribeVars, wsVars>>
-----------------------------------------------------------------------------
(* stop, called by Stopper, and the destructor, called by Main.            *)

Stop ==
  /\ Free(Stopper) /\ owner \notin {"new", "gone"}
  /\ stopping' = "test"
  /\ UNCHANGED <<frunning_, fws_thread_, destroying, owner, configVars, subscribeVars,
                 queueVars, wsVars>>

\* The feeder is destroyed when no thread uses it.
Destroy ==
  /\ \A t \in Thread : Free(t)
  /\ stopping = "none"
  /\ stopping' = "test"
  /\ destroying' = TRUE
  /\ UNCHANGED <<frunning_, fws_thread_, owner, configVars, subscribeVars, queueVars,
                 wsVars>>

\* stop returns to its caller, or to the destructor, whose last act is to
\* destroy the std::thread: std::terminate if that is still joinable.
StopReturns(thr) ==
  /\ stopping' = "none"
  /\ owner' = IF destroying THEN "gone" ELSE owner
  /\ proc' = IF destroying /\ thr = "joinable" THEN "terminate" ELSE proc
  /\ UNCHANGED <<con_, stopped, thread, linkVars, writeVars, destroying, configVars,
                 subscribeVars, queueVars>>

\* A feeder whose thread has not set frunning_ yet is not stopped.
StopTestFails ==
  /\ stopping = "test"
  /\ ~frunning_
  /\ StopReturns(fws_thread_)
  /\ UNCHANGED <<frunning_, fws_thread_>>

StopFlag ==
  /\ stopping = "test"
  /\ frunning_
  /\ frunning_' = FALSE
  /\ stopping' = "client"
  /\ UNCHANGED <<fws_thread_, destroying, owner, configVars, subscribeVars, queueVars,
                 wsVars>>

\* Mutant: the event loop is not stopped.
StopNothing ==
  /\ stopping = "client"
  /\ stopping' = "join"
  /\ UNCHANGED <<frunning_, fws_thread_, destroying, owner, configVars, subscribeVars,
                 queueVars, wsVars>>

StopEventLoop ==
  /\ stopping = "client"
  /\ StopClient
  /\ stopping' = "join"
  /\ UNCHANGED <<frunning_, fws_thread_, destroying, owner, configVars, subscribeVars,
                 queueVars>>

\* stop returns past the join.
Joined(thr) ==
  /\ stopping = "join"
  /\ fws_thread_' = thr
  /\ StopReturns(thr)
  /\ UNCHANGED frunning_

Unjoinable == IF fws_thread_ = "joinable" THEN "joined" ELSE fws_thread_

\* Mutant: stop does not wait for the thread.
StopDetach == Joined(Unjoinable)

StopJoin ==
  /\ fws_thread_ = "joinable" => thread = "exited"
  /\ Joined(Unjoinable)
-----------------------------------------------------------------------------
Subscribing == AwaitConnection \/ NextChunk \/ Write \/ InsertPending
Stopping    == StopTestFails \/ StopFlag \/ StopEventLoop \/ StopJoin
FeederThread ==
  \/ ThreadBegin
  \/ NotifyFrame
  \/ (Connect \/ StartClient \/ OnOpenPublish \/ RunReturns) /\ UNCHANGED feederVars
Exchange ==
  \/ OnOpen /\ UNCHANGED feederVars
  \/ OnLoss("connecting", "failed")
  \/ OnLoss("open", "closed")
  \/ OnFrame
  \/ \E id \in Message : \/ OnResponse(id)
                         \/ OnUnexpectedResponse(id)
                         \/ OnResponseRacing(id)
                         \/ OnError(id)

Next ==
  /\ proc = "up"
  /\ \/ Start \/ SubscribeToTickers \/ Subscribing
     \/ Stop \/ Destroy \/ Stopping
     \/ FeederThread
     \/ Exchange
     \/ SpuriousWake(Main) /\ UNCHANGED feederVars
     \/ \E t \in Thread : GetUpdate(t) \/ AwaitUpdate(t) \/ SpuriousQueueWake(t)

\* Threads that can run are scheduled; callers and exchange owe nothing.
Fairness ==
  /\ WF_vars(proc = "up" /\ FeederThread)
  /\ WF_vars(proc = "up" /\ Subscribing)
  /\ WF_vars(proc = "up" /\ Stopping)
  /\ \A t \in Thread : WF_vars(proc = "up" /\ AwaitUpdate(t))

Spec == Init /\ [][Next]_vars /\ Fairness
-----------------------------------------------------------------------------
(* Properties.                                                             *)

\* However the list is cut into requests, an exchange that got them all serves
\* every symbol up to the limit, each through one request, and no request
\* carries more than a quarter of the limit.
SubscriptionComplete ==
  /\ owner = "ready" => UNION {chunkOf[m] : m \in Message} =
       {s \in 1..symbols : maxStreamsSubs_ = 0 \/ s <= maxStreamsSubs_}
  /\ \A m, k \in Message : m # k => chunkOf[m] \cap chunkOf[k] = {}
  /\ \A m \in Message : Cardinality(chunkOf[m]) * 4 <= maxStreamsSubs_

\* With a limit of at least 4 (below, the chunks are empty and the loop never
\* ends), subscribeToTickers returns once the connection is open, even when the
\* connection is lost or the feeder stopped meanwhile.
SubscribeReturns ==
  (maxStreamsSubs_ >= 4 /\ isConnected_ /\ owner = "wait") ~>
    (owner = "ready" \/ proc # "up")

\* No wake-up of a consumer is lost: while some wait, every queued frame is
\* on its way to a consumer that was woken, or about to be announced.
NoSleepOnFrame ==
  queue_cv_ # {} =>
    Len(update_queue_) <= Cardinality(getting \ queue_cv_)
                          + (IF thread = "notify" THEN 1 ELSE 0)

\* The destructor reaches a joinable std::thread only when it overtakes the
\* thread on its way to setting frunning_; after one that returned, the client
\* thread does not run any more.
DestructorJoins ==
  owner = "gone" => /\ proc = "terminate" => thread = "spawned"
                    /\ proc = "up" => thread \in {"none", "exited"}

\* stop() returns, wherever the client thread is.
StopCompletes == (stopping # "none") ~> (stopping = "none" \/ proc # "up")

\* BNBFeeder implements UpdateStream.
Updates == INSTANCE UpdateStream WITH
  Caller <- Thread, Frame <- 1..MaxFrames,
  arrived <- received, taken <- returned, asking <- getting,
  closing <- thread \notin {"none", "spawned"} /\ ~frunning_,
  halted <- proc # "up"

ImplementsUpdateStream == Updates!USSpec

\* What the README lists as done, "a recovery mechanism in case of crash for
\* feeder": the loss of the connection does not end the process.
SurvivesLoss == con_ \in {"closed", "failed"} => proc = "up"

\* What the comments of onMessage say, "this was a response, not market data":
\* no response of the exchange reaches parseData.
ResponsesAreNotMarketData == proc # "abort"

\* What the exception of getUpdate says, "No more updates, feeder stopped.": a
\* thread in getUpdate of a feeder that was stopped leaves it.
StoppedFeederReleases ==
  \A t \in Thread :
    (t \in getting /\ fws_thread_ = "joined") ~> (t \notin getting \/ proc # "up")

=============================================================================
