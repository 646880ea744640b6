---------------------------- MODULE BNBBrokerProofs ----------------------------
(***************************************************************************)
(* Theorems about BNBBroker, for any threads, requests and replies: type   *)
(* correctness, the safety invariants, and that every step of the broker   *)
(* is a step of RequestReply.                                              *)
(***************************************************************************)
EXTENDS BNBBroker, WebSocketListenerProofs

\* Requests: an id is pending from before its text is written until its answer
\* arrives, and is on at most one of the ways that lead there.
PendingInv ==
  /\ \A m \in pending_requests_ : stored_responses_[m] = NoReply
  /\ wire \cup dropped \subseteq pending_requests_
  /\ wire \cap dropped = {}
  /\ \A t \in Thread : writer[t] # "idle" =>
       message[t] \in pending_requests_ \ (wire \cup dropped)
  /\ \A t, u \in Thread : t # u /\ writer[t] # "idle" /\ writer[u] # "idle" =>
       message[t] # message[u]

\* Questions: what is stored is what the exchange answered, nobody asks for an
\* id that was not sent, and nobody sleeps on a stored answer.
AskInv ==
  /\ stored_responses_ = answered
  /\ \A t \in Thread : asking[t] # NoMessage => asking[t] \in Issued
  /\ \A t \in response_cv_ :
       asking[t] # NoMessage /\ stored_responses_[asking[t]] = NoReply

\* The owner: brunning_ is FALSE on a joinable thread only while stop joins it.
OwnerInv ==
  /\ ~brunning_ => owner = "join" \/ bws_thread_ # "joinable"
  /\ owner = "new" => bws_thread_ = "none" /\ brunning_
  /\ bws_thread_ = "none" <=> thread = "none"
  /\ bws_thread_ = "joined" => thread = "exited"
  /\ owner = "gone" => bws_thread_ # "joinable"
  /\ proc # "terminate"

IInv == TypeOK /\ LinkInv /\ PendingInv /\ AskInv /\ OwnerInv
-----------------------------------------------------------------------------
LEMMA IInvInit == Init => IInv
BY NoMessageAssumption, MainAssumption, ReplyAssumption
   DEF Init, InitConstructed, WSInit, IInv, TypeOK, WSTypeOK, LinkInv, PendingInv,
       AskInv, OwnerInv, Issued

\* Steps of the base class that touch neither a request nor the owner's part.
LinkStep ==
  \/ Begin \/ Connect \/ StartClient \/ OnOpen \/ OnOpenPublish \/ OnFail \/ OnClose
  \/ RunReturns \/ \E t \in Thread : SpuriousWake(t) \/ WriteTest(t) \/ WriteLock(t)

LEMMA LinkStepFrame ==
  ASSUME WSTypeOK, LinkStep
  PROVE  /\ UNCHANGED <<message, wire, dropped>>
         /\ \A t \in Thread : writer'[t] # "idle" => writer[t] # "idle"
         /\ thread = "none" <=> thread' = "none"
         /\ thread = "exited" => thread' = "exited"
         /\ proc' = "terminate" => proc = "terminate"
BY DEF LinkStep, Begin, Connect, StartClient, OnOpen, OnOpenPublish, OnFail, OnClose,
       Lose, Dispatching, RunReturns, SpuriousWake, WriteTest, WriteLock, linkVars,
       clientVars, writeVars, WSTypeOK

\* What a step must leave alone to preserve the parts of the invariant.
LEMMA BrokerFrame ==
  ASSUME IInv, LinkStep, UNCHANGED brokerVars
  PROVE  IInv'
<1>1. /\ WSTypeOK
      /\ WSInv
      /\ SharedStep
  BY DEF IInv, TypeOK, WSInv, LinkStep, SharedStep, Writing
<1>2. WSInv'
  BY <1>1, SharedStepPreserves
<1>3. (PendingInv /\ AskInv /\ OwnerInv)'
  BY <1>1, LinkStepFrame
     DEF IInv, TypeOK, WSTypeOK, PendingInv, AskInv, OwnerInv, Issued, brokerVars,
         requestVars, ownerVars
<1>4. TypeOK'
  BY <1>2 DEF IInv, TypeOK, WSInv, brokerVars, requestVars, ownerVars
<1>5. QED
  BY <1>2, <1>3, <1>4 DEF IInv, WSInv

LEMMA WriteSendPreserves ==
  ASSUME IInv, NEW t \in Thread, WriteSend(t), UNCHANGED brokerVars
  PROVE  IInv'
<1>1. WSInv'
  <2>1. WSInv /\ SharedStep
    BY DEF IInv, TypeOK, WSInv, SharedStep, Writing
  <2>2. QED
    BY <2>1, SharedStepPreserves
<1>2. PendingInv'
  BY DEF IInv, TypeOK, WSTypeOK, PendingInv, WriteSend, brokerVars, requestVars
<1>3. (AskInv /\ OwnerInv)'
  BY DEF IInv, AskInv, OwnerInv, Issued, WriteSend, brokerVars, requestVars, ownerVars,
         clientVars
<1>4. TypeOK'
  BY <1>1 DEF IInv, TypeOK, WSInv, brokerVars, requestVars, ownerVars
<1>5. QED
  BY <1>1, <1>2, <1>3, <1>4 DEF IInv, WSInv

\* sendRequest: the id is new, hence on no thread's way and not stored.
LEMMA SendRequestPreserves ==
  ASSUME IInv, NEW t \in Thread, NEW id \in Message, SendRequest(t, id)
  PROVE  IInv'
<1>1. WSInv'
  <2>1. WSInv /\ SharedStep
    BY DEF IInv, TypeOK, WSInv, SharedStep, SendRequest
  <2>2. QED
    BY <2>1, SharedStepPreserves
<1>2. PendingInv'
  BY DEF IInv, TypeOK, WSTypeOK, PendingInv, Issued, SendRequest, WriteWS
<1>3. AskInv'
  BY DEF IInv, AskInv, Issued, SendRequest
<1>4. OwnerInv'
  BY DEF IInv, OwnerInv, SendRequest, WriteWS, ownerVars, clientVars
<1>5. TypeOK'
  BY <1>1 DEF IInv, TypeOK, WSInv, SendRequest, ownerVars
<1>6. QED
  BY <1>1, <1>2, <1>3, <1>4, <1>5 DEF IInv, WSInv

\* onMessage: the id was on the wire, so no thread writes it and it was not
\* given up; every thread that slept on it is woken.
LEMMA OnMessagePreserves ==
  ASSUME IInv, NEW id \in Message, NEW v \in Reply, OnMessage(id, v)
  PROVE  IInv'
<1>1. WSInv'
  <2>1. WSInv /\ SharedStep
    BY DEF IInv, TypeOK, WSInv, SharedStep, OnMessage
  <2>2. QED
    BY <2>1, SharedStepPreserves
<1>2. PendingInv'
  BY DEF IInv, TypeOK, WSTypeOK, PendingInv, OnMessage, PeerAnswers, Receive
<1>3. AskInv'
  BY ReplyAssumption DEF IInv, TypeOK, AskInv, Issued, OnMessage
<1>4. OwnerInv'
  BY DEF IInv, OwnerInv, OnMessage, PeerAnswers, Receive, ownerVars
<1>5. TypeOK'
  BY <1>1 DEF IInv, TypeOK, WSInv, OnMessage, ownerVars
<1>6. QED
  BY <1>1, <1>2, <1>3, <1>4, <1>5 DEF IInv, WSInv

LEMMA OnMessageWithoutIdPreserves ==
  ASSUME IInv, NEW id \in Message, OnMessageWithoutId(id)
  PROVE  IInv'
<1>1. WSInv'
  <2>1. WSInv /\ SharedStep
    BY DEF IInv, TypeOK, WSInv, SharedStep, OnMessageWithoutId
  <2>2. QED
    BY <2>1, SharedStepPreserves
<1>2. PendingInv'
  BY DEF IInv, TypeOK, WSTypeOK, PendingInv, OnMessageWithoutId, PeerAnswers, Receive,
         brokerVars, requestVars
<1>3. (AskInv /\ OwnerInv)'
  BY DEF IInv, AskInv, OwnerInv, Issued, OnMessageWithoutId, PeerAnswers, Receive,
         brokerVars, requestVars, ownerVars
<1>4. TypeOK'
  BY <1>1 DEF IInv, TypeOK, WSInv, OnMessageWithoutId, brokerVars, requestVars, ownerVars
<1>5. QED
  BY <1>1, <1>2, <1>3, <1>4 DEF IInv, WSInv

\* getResponseForId and its wait leave the connection and the owner alone.
LEMMA AskingPreserves ==
  ASSUME IInv, NEW t \in Thread,
         \/ \E id \in Message : GetResponseForId(t, id)
         \/ AwaitResponse(t)
         \/ SpuriousResponseWake(t)
  PROVE  IInv'
<1>1. UNCHANGED <<wsVars, ownerVars, pending_requests_, stored_responses_, answered>>
  BY DEF GetResponseForId, AwaitResponse, SpuriousResponseWake
<1>2. (LinkInv /\ PendingInv /\ OwnerInv)'
  BY <1>1 DEF IInv, LinkInv, PendingInv, OwnerInv, wsVars, linkVars, clientVars,
              writeVars, ownerVars
<1>3. WSTypeOK'
  BY <1>1 DEF IInv, TypeOK, WSTypeOK, wsVars, linkVars, clientVars, writeVars
<1>4. ASSUME NEW id \in Message, GetResponseForId(t, id)
      PROVE  TypeOK' /\ AskInv'
  BY <1>1, <1>3, <1>4, NoMessageAssumption
     DEF IInv, TypeOK, AskInv, Issued, GetResponseForId, Free, ownerVars
<1>5. ASSUME AwaitResponse(t)
      PROVE  TypeOK' /\ AskInv'
  BY <1>1, <1>3, <1>5 DEF IInv, TypeOK, AskInv, Issued, AwaitResponse, ownerVars
<1>6. ASSUME SpuriousResponseWake(t)
      PROVE  TypeOK' /\ AskInv'
  BY <1>1, <1>3, <1>6 DEF IInv, TypeOK, AskInv, Issued, SpuriousResponseWake, ownerVars
<1>7. QED
  BY <1>2, <1>4, <1>5, <1>6 DEF IInv

\* start, stop and the destructor leave requests and questions alone.
LEMMA OwnerStepPreserves ==
  ASSUME IInv, Start \/ Stop \/ Destroy \/ Stopping \/ ThreadBegin
  PROVE  IInv'
<1>1. UNCHANGED <<requestVars, writeVars>>
  BY DEF Start, Stop, Destroy, Stopping, StopTest, StopClientThread, StopFlag, StopJoin,
         ThreadBegin, Launch, Begin, StopClient, wsVars
<1>2. (PendingInv /\ AskInv)'
  BY <1>1 DEF IInv, PendingInv, AskInv, Issued, requestVars, writeVars
<1>3. (WSTypeOK /\ LinkInv)'
  <2>1. WSInv
    BY DEF IInv, TypeOK, WSInv
  <2>2. CASE Launch \/ Begin \/ StopClient
    BY <2>1, <2>2, SharedStepPreserves DEF SharedStep, WSInv
  <2>3. CASE UNCHANGED wsVars
    BY <2>1, <2>3 DEF WSInv, WSTypeOK, LinkInv, wsVars, linkVars, clientVars, writeVars
  <2>4. CASE StopTest \/ StopJoin
    BY <2>1, <2>4 DEF WSInv, WSTypeOK, LinkInv, StopTest, StopJoin, StopReturns, linkVars,
                      writeVars
  <2>5. QED
    BY <2>2, <2>3, <2>4 DEF Start, Stop, Destroy, Stopping, StopClientThread, StopFlag,
                            ThreadBegin
<1>4. (TypeOK /\ OwnerInv)'
  <2> USE <1>1, <1>3 DEF IInv, TypeOK, WSTypeOK, OwnerInv, requestVars, clientVars
  <2>1. CASE Start
    BY <2>1 DEF Start, Launch
  <2>2. CASE Stop
    BY <2>2 DEF Stop, wsVars
  <2>3. CASE Destroy
    BY <2>3 DEF Destroy, wsVars
  <2>4. CASE StopTest
    BY <2>4 DEF StopTest, StopReturns
  <2>5. CASE StopClientThread
    BY <2>5 DEF StopClientThread, StopClient
  <2>6. CASE StopFlag
    BY <2>6 DEF StopFlag, wsVars
  <2>7. CASE StopJoin
    BY <2>7 DEF StopJoin, StopReturns
  <2>8. CASE ThreadBegin
    BY <2>8 DEF ThreadBegin, Begin
  <2>9. QED
    BY <2>1, <2>2, <2>3, <2>4, <2>5, <2>6, <2>7, <2>8 DEF Stopping
<1>5. QED
  BY <1>2, <1>3, <1>4 DEF IInv
-----------------------------------------------------------------------------
\* The inductive invariant of the broker: its types, the link of the connection
\* and its threads, and the parts of the request and the owner protocol.
THEOREM BrokerInvariant == Spec => []IInv
<1>1. IInv /\ [Next]_vars => IInv'
  <2> SUFFICES ASSUME IInv, [Next]_vars
               PROVE  IInv'
    OBVIOUS
  <2>1. CASE UNCHANGED vars
    BY <2>1 DEF IInv, TypeOK, WSTypeOK, LinkInv, PendingInv, AskInv, OwnerInv, Issued,
                vars, wsVars, linkVars, clientVars, writeVars, brokerVars, requestVars,
                ownerVars
  <2>2. CASE Start \/ Stop \/ Destroy \/ Stopping
    BY <2>2, OwnerStepPreserves
  <2>3. CASE BrokerThread
    BY <2>3, OwnerStepPreserves, BrokerFrame DEF BrokerThread, LinkStep
  <2>4. CASE Exchange
    <3>1. CASE (OnOpen \/ OnFail \/ OnClose) /\ UNCHANGED brokerVars
      BY <3>1, BrokerFrame DEF LinkStep
    <3>2. CASE \E id \in Message : OnMessageWithoutId(id) \/ \E v \in Reply : OnMessage(id, v)
      BY <3>2, OnMessagePreserves, OnMessageWithoutIdPreserves
    <3>3. QED
      BY <2>4, <3>1, <3>2 DEF Exchange
  <2>5. ASSUME NEW t \in Thread, Using(t)
        PROVE  IInv'
    BY <2>5, AskingPreserves, BrokerFrame, WriteSendPreserves DEF Using, Writing, LinkStep
  <2>6. ASSUME NEW t \in Thread, Calling(t)
        PROVE  IInv'
    <3>1. ASSUME NEW id \in Message, SendRequest(t, id)
          PROVE  IInv'
      BY <3>1, SendRequestPreserves
    <3>2. CASE SpuriousWake(t) /\ UNCHANGED brokerVars
      BY <3>2, BrokerFrame DEF LinkStep
    <3>3. QED
      BY <2>6, <3>1, <3>2, AskingPreserves DEF Calling
  <2>7. QED
    BY <2>1, <2>2, <2>3, <2>4, <2>5, <2>6 DEF Next
<1>2. QED
  BY <1>1, IInvInit, PTL DEF Spec

\* Every variable of the broker keeps to its type.
THEOREM BrokerTypeCorrect == Spec => []TypeOK
<1>1. IInv => TypeOK
  BY DEF IInv
<1>2. QED
  BY <1>1, BrokerInvariant, PTL

\* The broker never forgets a request and never counts one twice.
THEOREM BrokerPendingOrStored == Spec => []PendingOrStored
<1>1. IInv => PendingOrStored
  BY DEF IInv, PendingInv, PendingOrStored
<1>2. QED
  BY <1>1, BrokerInvariant, PTL

\* No thread sleeps in getResponseForId on an answer that is stored.
THEOREM BrokerNoSleepOnAnswer == Spec => []NoSleepOnAnswer
<1>1. IInv => NoSleepOnAnswer
  BY DEF IInv, TypeOK, AskInv, Issued, NoSleepOnAnswer
<1>2. QED
  BY <1>1, BrokerInvariant, PTL

\* The destructor always joins the client thread: it neither terminates the
\* process nor leaves a thread that could call into the destroyed object.
THEOREM BrokerDestructor == Spec => []DestructorJoins
<1>1. IInv => DestructorJoins
  BY DEF IInv, TypeOK, OwnerInv, DestructorJoins
<1>2. QED
  BY <1>1, BrokerInvariant, PTL
-----------------------------------------------------------------------------
\* The steps of the broker that RequestReply does not see.
LEMMA HiddenStep ==
  ASSUME UNCHANGED <<pending_requests_, stored_responses_, asking, result, answered>>
  PROVE  UNCHANGED Requests!rrVars
BY DEF Requests!rrVars, Issued

\* Every step of the broker is a step of RequestReply or changes nothing there:
\* a thread gets the answer the exchange gave to the request it asked for, and
\* is refused only for a request that was not made or is already answered.
THEOREM BrokerRefinesRequestReply == Spec => Requests!RRSafety
<1>1. Init => Requests!RRInit
  BY DEF Init, InitConstructed, Requests!RRInit, Issued
<1>2. IInv /\ [Next]_vars => [Requests!RRNext]_(Requests!rrVars)
  <2> SUFFICES ASSUME IInv, [Next]_vars
               PROVE  Requests!RRNext \/ UNCHANGED Requests!rrVars
    OBVIOUS
  <2>1. CASE UNCHANGED vars
    BY <2>1, HiddenStep DEF vars, brokerVars, requestVars
  <2>2. CASE Start \/ Stop \/ Destroy \/ Stopping \/ BrokerThread
    BY <2>2, HiddenStep
       DEF Start, Stop, Destroy, Stopping, StopTest, StopClientThread, StopFlag, StopJoin,
           BrokerThread, ThreadBegin, brokerVars, requestVars
  <2>3. ASSUME NEW id \in Message, NEW v \in Reply, OnMessage(id, v)
        PROVE  Requests!RRNext
    <3>1. id \in pending_requests_ /\ stored_responses_[id] = NoReply
      BY <2>3 DEF IInv, PendingInv, OnMessage, PeerAnswers, Receive
    <3>2. Issued' = Issued
      BY <2>3, <3>1, ReplyAssumption DEF IInv, TypeOK, Issued, OnMessage
    <3>3. Requests!Answer(id, v)
      BY <2>3, <3>1, <3>2 DEF IInv, AskInv, Issued, OnMessage, Requests!Answer
    <3>4. QED
      BY <3>3 DEF Requests!RRNext
  <2>4. CASE Exchange
    BY <2>3, <2>4, HiddenStep DEF Exchange, OnMessageWithoutId, brokerVars, requestVars
  <2>5. ASSUME NEW t \in Thread, NEW id \in Message, SendRequest(t, id)
        PROVE  Requests!RRNext
    <3>1. Requests!Issue(id)
      BY <2>5 DEF SendRequest, Issued, Requests!Issue
    <3>2. QED
      BY <3>1 DEF Requests!RRNext
  <2>6. ASSUME NEW t \in Thread, NEW id \in Message, GetResponseForId(t, id)
        PROVE  Requests!RRNext
    <3>1. asking[t] = NoMessage /\ Issued' = Issued
      BY <2>6 DEF GetResponseForId, Free, Issued
    <3>2. CASE id \in pending_requests_
      BY <2>6, <3>1, <3>2 DEF GetResponseForId, Issued, Requests!Ask, Requests!RRNext
    <3>3. CASE id \notin pending_requests_
      <4>1. Requests!Refuse(t, id)
        BY <2>6, <3>1, <3>3 DEF IInv, AskInv, GetResponseForId, Issued, Requests!Refuse
      <4>2. QED
        BY <4>1 DEF Requests!RRNext
    <3>4. QED
      BY <3>2, <3>3
  <2>7. ASSUME NEW t \in Thread, AwaitResponse(t)
        PROVE  Requests!RRNext \/ UNCHANGED Requests!rrVars
    <3>1. CASE stored_responses_[asking[t]] # NoReply
      <4>1. Requests!Deliver(t)
        BY <2>7, <3>1 DEF IInv, AskInv, AwaitResponse, Issued, Requests!Deliver
      <4>2. QED
        BY <4>1 DEF Requests!RRNext
    <3>2. CASE stored_responses_[asking[t]] = NoReply
      BY <2>7, <3>2, HiddenStep DEF AwaitResponse
    <3>3. QED
      BY <3>1, <3>2
  <2>8. ASSUME NEW t \in Thread, Using(t) \/ Calling(t)
        PROVE  Requests!RRNext \/ UNCHANGED Requests!rrVars
    BY <2>5, <2>6, <2>7, <2>8, HiddenStep
       DEF Using, Calling, SpuriousResponseWake, brokerVars, requestVars
  <2>9. QED
    BY <2>1, <2>2, <2>4, <2>8 DEF Next
<1>3. QED
  BY <1>1, <1>2, BrokerInvariant, PTL DEF Spec, Requests!RRSafety

=============================================================================
