------------------------------- MODULE BNBBroker -------------------------------
(***************************************************************************)
(* The request/response connection (bnb/marketConnection/BNBBroker): any   *)
(* thread sends requests and blocks for their answers; the client thread   *)
(* stores the answers; Main, the thread that owns the broker, starts,      *)
(* stops and destroys it.  A request is its id (a fresh UUID) and stands   *)
(* for the text that is written.                                           *)
(*                                                                         *)
(* connect, startClient and writeWS are those of the base class.  Each     *)
(* critical section of response_mutex_ is one atomic step.                 *)
(***************************************************************************)
EXTENDS WebSocketListener

CONSTANTS Main,     \* the owner
          Reply,    \* what the exchange may answer, errors included
          NoReply,  \* no answer yet
          NotFound  \* the exception "Request ID not found"

ASSUME MainAssumption  == Main \in Thread
ASSUME ReplyAssumption == NoReply \notin Reply /\ NotFound \notin Reply \cup {NoReply}

VARIABLES
  loginOnConnection_,
  brunning_,
  bws_thread_,        \* the std::thread: "none", "joinable" or "joined"
  pending_requests_,
  stored_responses_,  \* the stored answer of each id, or NoReply
  response_cv_,       \* threads blocked in response_cv_.wait
  asking,             \* the id each thread passed to getResponseForId
  result,             \* what each thread's last getResponseForId returned
  owner,              \* where Main is in the life of the broker
  destroying,         \* the stop in progress was called by the destructor
  answered            \* history: the answer of the exchange to each id

requestVars == <<pending_requests_, stored_responses_, response_cv_, asking,
                 result, answered>>
ownerVars   == <<loginOnConnection_, brunning_, bws_thread_, owner, destroying>>
brokerVars  == <<requestVars, ownerVars>>
vars        == <<wsVars, brokerVars>>

TypeOK ==
  /\ WSTypeOK
  /\ loginOnConnection_ \in BOOLEAN
  /\ brunning_ \in BOOLEAN
  /\ bws_thread_ \in {"none", "joinable", "joined"}
  /\ pending_requests_ \in SUBSET Message
  /\ stored_responses_ \in [Message -> Reply \cup {NoReply}]
  /\ response_cv_ \in SUBSET Thread
  /\ asking \in [Thread -> Message \cup {NoMessage}]
  /\ result \in [Thread -> Reply \cup {NoReply, NotFound}]
  /\ owner \in {"new", "up", "threw", "stop", "stopping", "join", "down", "gone"}
  /\ destroying \in BOOLEAN
  /\ answered \in [Message -> Reply \cup {NoReply}]

\* The member initialisers and the constructor.
InitConstructed(running) ==
  /\ WSInit
  /\ loginOnConnection_ \in BOOLEAN
  /\ brunning_ = running
  /\ bws_thread_ = "none"
  /\ pending_requests_ = {}
  /\ stored_responses_ = [m \in Message |-> NoReply]
  /\ response_cv_ = {}
  /\ asking = [t \in Thread |-> NoMessage]
  /\ result = [t \in Thread |-> NoReply]
  /\ owner = "new"
  /\ destroying = FALSE
  /\ answered = [m \in Message |-> NoReply]

\* Mutant: brunning_ starts FALSE, as the flag of the feeder does.
InitNotRunning == InitConstructed(FALSE)

Init == InitConstructed(TRUE)

\* The ids that have been passed to sendRequest.
Issued == pending_requests_ \cup {m \in Message : stored_responses_[m] # NoReply}

\* Thread t is in no member function of the broker.
Free(t) ==
  /\ writer[t] = "idle"
  /\ asking[t] = NoMessage
  /\ t = Main => owner \in {"new", "up", "threw", "down"}
-----------------------------------------------------------------------------
(* sendRequest and getResponseForId, called by thread t.                   *)

\* The id becomes pending before its request can reach the exchange.
SendRequest(t, id) ==
  /\ Free(t) /\ owner # "gone"
  /\ id \notin Issued
  /\ pending_requests_' = pending_requests_ \cup {id}
  /\ WriteWS(t, id)
  /\ UNCHANGED <<stored_responses_, response_cv_, asking, result, answered, ownerVars>>

\* An id that is not pending is refused, even when its answer is stored.
GetResponseForId(t, id) ==
  /\ Free(t) /\ owner # "gone"
  /\ IF id \in pending_requests_
     THEN /\ asking' = [asking EXCEPT ![t] = id]
          /\ UNCHANGED result
     ELSE /\ result' = [result EXCEPT ![t] = NotFound]
          /\ UNCHANGED asking
  /\ UNCHANGED <<pending_requests_, stored_responses_, response_cv_, answered,
                 ownerVars, wsVars>>

\* Mutant: the woken thread takes whatever answer is stored.
AwaitAnyResponse(t) ==
  /\ asking[t] # NoMessage
  /\ t \notin response_cv_
  /\ IF \E m \in Message : stored_responses_[m] # NoReply
     THEN /\ \E m \in Message :
               /\ stored_responses_[m] # NoReply
               /\ result' = [result EXCEPT ![t] = stored_responses_[m]]
          /\ asking' = [asking EXCEPT ![t] = NoMessage]
          /\ UNCHANGED response_cv_
     ELSE /\ response_cv_' = response_cv_ \cup {t}
          /\ UNCHANGED <<result, asking>>
  /\ UNCHANGED <<pending_requests_, stored_responses_, answered, ownerVars, wsVars>>

\* response_cv_.wait: the predicate is evaluated under the mutex, at the call
\* and after each wake-up; the stored answer is copied and stays stored.
AwaitResponse(t) ==
  /\ asking[t] # NoMessage
  /\ t \notin response_cv_
  /\ IF stored_responses_[asking[t]] # NoReply
     THEN /\ result' = [result EXCEPT ![t] = stored_responses_[asking[t]]]
          /\ asking' = [asking EXCEPT ![t] = NoMessage]
          /\ UNCHANGED response_cv_
     ELSE /\ response_cv_' = response_cv_ \cup {t}
          /\ UNCHANGED <<result, asking>>
  /\ UNCHANGED <<pending_requests_, stored_responses_, answered, ownerVars, wsVars>>

SpuriousResponseWake(t) ==
  /\ t \in response_cv_
  /\ response_cv_' = response_cv_ \ {t}
  /\ UNCHANGED <<pending_requests_, stored_responses_, asking, result, answered,
                 ownerVars, wsVars>>
-----------------------------------------------------------------------------
(* onMessage, on the client thread.                                        *)

\* Mutant: one waiter is woken, not all of them.
OnMessageNotifyOne(id, v) ==
  /\ PeerAnswers(id)
  /\ answered' = [answered EXCEPT ![id] = v]
  /\ stored_responses_' = [stored_responses_ EXCEPT ![id] = v]
  /\ pending_requests_' = pending_requests_ \ {id}
  /\ response_cv_' \in IF response_cv_ = {} THEN {{}}
                       ELSE {response_cv_ \ {t} : t \in response_cv_}
  /\ UNCHANGED <<asking, result, ownerVars>>

\* Mutant: the id of an answered request stays pending.
OnMessageKeepsPending(id, v) ==
  /\ PeerAnswers(id)
  /\ answered' = [answered EXCEPT ![id] = v]
  /\ stored_responses_' = [stored_responses_ EXCEPT ![id] = v]
  /\ response_cv_' = {}
  /\ UNCHANGED <<pending_requests_, asking, result, ownerVars>>

\* An answer, an error included, is stored and every waiter is woken.
OnMessage(id, v) ==
  /\ PeerAnswers(id)
  /\ answered' = [answered EXCEPT ![id] = v]
  /\ stored_responses_' = [stored_responses_ EXCEPT ![id] = v]
  /\ pending_requests_' = pending_requests_ \ {id}
  /\ response_cv_' = {}
  /\ UNCHANGED <<asking, result, ownerVars>>

\* An error whose id the exchange could not tell carries a null id: reading it
\* as a string throws, the exception is logged and the answer is lost.
OnMessageWithoutId(id) ==
  /\ PeerAnswers(id)
  /\ UNCHANGED brokerVars
-----------------------------------------------------------------------------
(* start, stop and the destructor, called by Main.                         *)

\* The login branch always throws: no sign method can log in.
Start ==
  /\ Free(Main) /\ owner = "new"
  /\ Launch
  /\ bws_thread_' = "joinable"
  /\ owner' = IF loginOnConnection_ THEN "threw" ELSE "up"
  /\ UNCHANGED <<loginOnConnection_, brunning_, destroying, requestVars>>

\* The thread function sets brunning_ and calls connect.
ThreadBegin ==
  /\ Begin
  /\ brunning_' = TRUE
  /\ UNCHANGED <<loginOnConnection_, bws_thread_, owner, destroying, requestVars>>

Stop ==
  /\ Free(Main) /\ owner \in {"up", "down"}
  /\ owner' = "stop"
  /\ UNCHANGED <<loginOnConnection_, brunning_, bws_thread_, destroying,
                 requestVars, wsVars>>

\* The broker is destroyed when no thread uses it.
Destroy ==
  /\ \A t \in Thread : Free(t)
  /\ owner \in {"new", "up", "threw", "down"}
  /\ owner' = "stop"
  /\ destroying' = TRUE
  /\ UNCHANGED <<loginOnConnection_, brunning_, bws_thread_, requestVars, wsVars>>

\* stop returns to its caller, or to the destructor, whose last act is to
\* destroy the std::thread: std::terminate if that is still joinable.
StopReturns(thr) ==
  /\ owner' = IF destroying THEN "gone" ELSE "down"
  /\ proc' = IF destroying /\ thr = "joinable" THEN "terminate" ELSE proc

StopTest ==
  /\ owner = "stop"
  /\ ~brunning_
  /\ StopReturns(bws_thread_)
  /\ UNCHANGED <<con_, stopped, thread, linkVars, writeVars, loginOnConnection_,
                 brunning_, bws_thread_, destroying, requestVars>>

\* Mutant: stop joins without stopping the event loop.
StopWithoutStopClient ==
  /\ owner = "stop"
  /\ brunning_
  /\ owner' = "stopping"
  /\ UNCHANGED <<loginOnConnection_, brunning_, bws_thread_, destroying, requestVars,
                 wsVars>>

StopClientThread ==
  /\ owner = "stop"
  /\ brunning_
  /\ StopClient
  /\ owner' = "stopping"
  /\ UNCHANGED <<loginOnConnection_, brunning_, bws_thread_, destroying, requestVars>>

StopFlag ==
  /\ owner = "stopping"
  /\ brunning_' = FALSE
  /\ owner' = "join"
  /\ UNCHANGED <<loginOnConnection_, bws_thread_, destroying, requestVars, wsVars>>

StopJoin ==
  /\ owner = "join"
  /\ bws_thread_ = "joinable" => thread = "exited"
  /\ bws_thread_' = IF bws_thread_ = "joinable" THEN "joined" ELSE bws_thread_
  /\ StopReturns(bws_thread_')
  /\ UNCHANGED <<con_, stopped, thread, linkVars, writeVars, loginOnConnection_,
                 brunning_, destroying, requestVars>>
-----------------------------------------------------------------------------
Stopping    == StopTest \/ StopClientThread \/ StopFlag \/ StopJoin
BrokerThread ==
  \/ ThreadBegin
  \/ (Connect \/ StartClient \/ OnOpenPublish \/ RunReturns) /\ UNCHANGED brokerVars
Exchange ==
  \/ (OnOpen \/ OnFail \/ OnClose) /\ UNCHANGED brokerVars
  \/ \E id \in Message : OnMessageWithoutId(id) \/ \E v \in Reply : OnMessage(id, v)
Using(t) == AwaitResponse(t) \/ (Writing(t) /\ UNCHANGED brokerVars)
Calling(t) ==
  \/ \E id \in Message : SendRequest(t, id) \/ GetResponseForId(t, id)
  \/ SpuriousResponseWake(t)
  \/ SpuriousWake(t) /\ UNCHANGED brokerVars

Next ==
  /\ proc = "up"
  /\ \/ Start \/ Stop \/ Destroy \/ Stopping
     \/ BrokerThread
     \/ Exchange
     \/ \E t \in Thread : Using(t) \/ Calling(t)

\* Threads that can run are scheduled; callers and exchange owe nothing.
Fairness ==
  /\ WF_vars(proc = "up" /\ BrokerThread)
  /\ WF_vars(proc = "up" /\ Stopping)
  /\ \A t \in Thread : WF_vars(proc = "up" /\ AwaitResponse(t))
  /\ \A t \in Thread : WF_vars(proc = "up" /\ Writing(t) /\ UNCHANGED brokerVars)

Spec == Init /\ [][Next]_vars /\ Fairness
-----------------------------------------------------------------------------
(* Properties.                                                             *)

\* The broker knows every request it sent exactly once, as pending or as
\* answered: pending_requests_ and the keys of stored_responses_ are disjoint,
\* and what is on its way to the exchange, or was given up, is pending.
PendingOrStored ==
  /\ \A m \in pending_requests_ : stored_responses_[m] = NoReply
  /\ wire \cup dropped \subseteq pending_requests_
  /\ \A t \in Thread : writer[t] # "idle" => message[t] \in pending_requests_

\* A thread blocked in getResponseForId waits for a request that is pending,
\* or answered with the wake-up on its way: it never sleeps on a stored answer.
NoSleepOnAnswer ==
  \A t \in response_cv_ :
    asking[t] \in pending_requests_ /\ stored_responses_[asking[t]] = NoReply

\* The destructor never reaches a joinable std::thread, whatever the client
\* thread was doing when stop() looked at brunning_; and when it has run, the
\* client thread does not: it cannot call a handler of the destroyed object.
DestructorJoins ==
  proc # "terminate" /\ (owner = "gone" => thread \in {"none", "exited"})

\* stop() returns, although the join waits for a thread that may be anywhere
\* between its creation and the event loop.
StopCompletes == (owner \in {"stop", "stopping", "join"}) ~>
                 (owner \in {"down", "gone"} \/ proc # "up")

\* BNBBroker implements RequestReply: answers are matched to requests by id,
\* survive any order of answers and questions, and reach every thread that
\* waits for them.
Requests == INSTANCE RequestReply WITH
  Caller <- Thread, Request <- Message, NoRequest <- NoMessage,
  Refused <- NotFound, issued <- Issued, reply <- answered

ImplementsRequestReply == Requests!RRSpec

\* The message of the exception, "Request ID not found or no request was made
\* with this ID", and every caller's use of it: a request that was made is
\* found, and its answer is returned, at once or after a wait.
MadeRequestIsFound ==
  [][\A t \in Thread, id \in Issued :
       GetResponseForId(t, id) =>
         asking'[t] = id \/ result'[t] = stored_responses_[id]]_vars

=============================================================================
