---------------------------- MODULE BNBFeederProofs ----------------------------
(***************************************************************************)
(* Theorems about BNBFeeder, for any threads, lists of symbols, limits and *)
(* bounds: type correctness, the cut of the list into requests, that no    *)
(* wake-up of a consumer is lost, and what the destructor may find.        *)
(***************************************************************************)
EXTENDS BNBFeeder, WebSocketListenerProofs, FiniteSetTheorems, SequenceTheorems

\* The thread and its std::thread: frunning_ is FALSE on a joinable thread only
\* before the thread begins and while stop joins it.
LifeInv ==
  /\ fws_thread_ = "none" <=> thread = "none"
  /\ fws_thread_ = "joined" => thread = "exited" /\ ~frunning_
  /\ frunning_ => thread \notin {"none", "spawned"}
  /\ stopping \in {"client", "join"} => thread \notin {"none", "spawned"} /\ ~frunning_
  /\ proc = "up" /\ fws_thread_ = "joinable" /\ ~frunning_ =>
       thread = "spawned" \/ stopping \in {"client", "join"}
  /\ destroying => owner \in {"new", "up", "ready", "gone"}
  /\ owner = "gone" => destroying /\ stopping = "none"
  /\ DestructorJoins

\* The requests cover a prefix of the list, and none of them overlap.
Covered == IF owner \in {"write", "insert"} THEN position + ChunkSize ELSE position

SubscribeInv ==
  /\ owner \in {"write", "insert"} => next_request_id_ > 1
  /\ owner \in {"new", "up", "wait"} => position = 0
  /\ \A m \in Message : m >= next_request_id_ => chunkOf[m] = {}
  /\ UNION {chunkOf[m] : m \in Message} = {s \in 1..StreamCount : s <= Covered}
  /\ \A m, k \in Message : m # k => chunkOf[m] \cap chunkOf[k] = {}
  /\ \A m \in Message : IsFiniteSet(chunkOf[m]) /\ Cardinality(chunkOf[m]) <= ChunkSize
  /\ owner = "ready" => position >= StreamCount

QueueInv == IsFiniteSet(getting) /\ NoSleepOnFrame

FeederInv == WSInv /\ TypeOK /\ LifeInv /\ SubscribeInv /\ QueueInv

LEMMA ChunkSizeBounds ==
  ASSUME TypeOK
  PROVE  ChunkSize \in Nat /\ 4 * ChunkSize <= maxStreamsSubs_ /\ maxStreamsSubs_ \in Nat
BY BoundAssumption DEF TypeOK, ChunkSize

LEMMA StreamCountIsNat == ASSUME TypeOK PROVE StreamCount \in Nat /\ symbols \in Nat
BY BoundAssumption DEF TypeOK, StreamCount

LEMMA InitFeederInv == Init => FeederInv
<1> SUFFICES ASSUME Init PROVE FeederInv
  OBVIOUS
<1>1. WSInv
  BY NoMessageAssumption DEF Init, WSInit, WSInv, WSTypeOK, LinkInv
<1>2. TypeOK
  <2>1. WSTypeOK
    BY <1>1 DEF WSInv
  <2>2. update_queue_ \in Seq(1..MaxFrames) /\ received \in Seq(1..MaxFrames)
        /\ returned \in Seq(1..MaxFrames)
    BY DEF Init
  <2>3. chunkOf \in [Message -> SUBSET (Nat \ {0})]
    BY DEF Init
  <2>4. next_request_id_ \in 1..(MaxRequests + 1)
    BY BoundAssumption DEF Init
  <2>5. QED
    BY <2>1, <2>2, <2>3, <2>4 DEF Init, TypeOK
<1>3. LifeInv
  BY DEF Init, WSInit, LifeInv, DestructorJoins
<1>4. SubscribeInv
  <2>1. ChunkSize \in Nat /\ StreamCount \in Nat
    BY <1>2, ChunkSizeBounds, StreamCountIsNat
  <2>2. Covered = 0
    BY DEF Init, Covered
  <2>3. \A m \in Message : chunkOf[m] = {}
    BY DEF Init
  <2>4. IsFiniteSet({}) /\ Cardinality({}) = 0
    BY FS_EmptySet
  <2>5. UNION {chunkOf[m] : m \in Message} = {s \in 1..StreamCount : s <= Covered}
    BY <2>1, <2>2, <2>3
  <2>6. QED
    BY <2>1, <2>3, <2>4, <2>5 DEF Init, SubscribeInv
<1>5. QueueInv
  BY FS_EmptySet DEF Init, QueueInv, NoSleepOnFrame
<1>6. QED
  BY <1>1, <1>2, <1>3, <1>4, <1>5 DEF FeederInv
-----------------------------------------------------------------------------
(* The connection and the types.                                           *)

\* The steps that the feeder shares with the base class keep its invariant; so
\* do a frame and its announcement, a loss, and a wait for the connection.
LEMMA ListenerFrame ==
  ASSUME WSInv, UNCHANGED <<con_, linkVars, writeVars>>, stopped' \in BOOLEAN,
         proc' \in {"up", "nullcon", "terminate", "abort"},
         thread' = thread \/ (thread \in {"run", "notify"} /\ thread' \in {"run", "notify"})
  PROVE  WSInv'
BY DEF WSInv, WSTypeOK, LinkInv, linkVars, writeVars

LEMMA ListenerPart ==
  ASSUME FeederInv, Next
  PROVE  WSInv'
<1> USE ThreadAssumption, BoundAssumption DEF FeederInv
<1>1. CASE SharedStep
  BY <1>1, SharedStepPreserves
<1>2. CASE UNCHANGED wsVars
  BY <1>2 DEF WSInv, WSTypeOK, LinkInv, wsVars, linkVars, clientVars, writeVars
<1>0. WSTypeOK
  BY DEF WSInv
<1>3. CASE OnFrame
  BY <1>0, <1>3, ListenerFrame DEF OnFrame, Dispatching, WSTypeOK
<1>4. CASE NotifyFrame
  <2>1. thread = "notify" /\ thread' = "run"
        /\ UNCHANGED <<con_, stopped, proc, linkVars, writeVars>>
    BY <1>4 DEF NotifyFrame, Notify
  <2>2. QED
    BY <1>0, <2>1, ListenerFrame DEF WSTypeOK
<1>5. ASSUME OnLoss("connecting", "failed") \/ OnLoss("open", "closed")
      PROVE  WSInv'
  <2>1. /\ thread = "run" /\ UNCHANGED <<thread, linkVars, writeVars>>
        /\ \/ con_ = "connecting" /\ con_' = "failed"
           \/ con_ = "open" /\ con_' = "closed"
    BY <1>5 DEF OnLoss, Lose, Dispatching
  <2>2. stopped' \in BOOLEAN /\ proc' \in {"up", "nullcon", "terminate", "abort"}
    BY <1>0, <1>5 DEF OnLoss, Reconnect, WSTypeOK
  <2>3. QED
    BY <2>1, <2>2 DEF WSInv, WSTypeOK, LinkInv, linkVars, writeVars
<1>6. CASE AwaitConnection
  BY <1>6 DEF AwaitConnection, WSInv, WSTypeOK, LinkInv, clientVars, writeVars
<1>7. ASSUME NEW id \in Message, OnUnexpectedResponse(id) \/ OnResponseRacing(id)
      PROVE  WSInv'
  BY <1>7 DEF OnUnexpectedResponse, OnResponseRacing, Receive, Dispatching, WSInv, WSTypeOK,
              LinkInv, linkVars
<1>8. CASE StopTestFails \/ StopJoin
  <2>1. /\ UNCHANGED <<con_, stopped, thread, linkVars, writeVars>>
        /\ proc' \in {proc, "terminate"}
    BY <1>8 DEF StopTestFails, StopJoin, Joined, StopReturns
  <2>2. QED
    BY <1>0, <2>1, ListenerFrame DEF WSTypeOK
<1>9. CASE NextChunk
  <2>1. CASE position < StreamCount
    <3>1. WriteWS(Main, next_request_id_) /\ next_request_id_ \in Message
      BY <1>9, <2>1 DEF NextChunk, TypeOK
    <3>2. QED
      BY <1>1, <3>1 DEF SharedStep
  <2>2. QED
    BY <1>2, <1>9, <2>1 DEF NextChunk
<1>10. QED
  BY <1>1, <1>2, <1>3, <1>4, <1>5, <1>6, <1>7, <1>8, <1>9
     DEF Next, SharedStep, Subscribing, Stopping, FeederThread, Exchange, Start, ThreadBegin,
         SubscribeToTickers, Write, InsertPending, OnResponse, OnError, GetUpdate, AwaitUpdate,
         TakeOrWait, SpuriousQueueWake, Stop, Destroy, StopFlag, StopEventLoop

LEMMA TypePart ==
  ASSUME FeederInv, Next
  PROVE  TypeOK'
<1> USE ThreadAssumption, BoundAssumption DEF FeederInv
<1>1. WSTypeOK'
  BY ListenerPart DEF WSInv
<1>2. CASE UNCHANGED feederVars
  BY <1>1, <1>2 DEF TypeOK, feederVars, configVars, lifeVars, subscribeVars, queueVars
<1>3. CASE Start \/ ThreadBegin \/ SubscribeToTickers \/ AwaitConnection
  BY <1>1, <1>3 DEF TypeOK, Start, ThreadBegin, SubscribeToTickers, AwaitConnection, configVars,
                    lifeVars, subscribeVars, queueVars
<1>4. CASE NextChunk
  <2>1. Chunk(position) \in SUBSET (Nat \ {0})
    BY StreamCountIsNat DEF Chunk
  <2>2. CASE position < StreamCount
    <3>1. chunkOf' \in [Message -> SUBSET (Nat \ {0})]
      BY <1>4, <2>1, <2>2 DEF TypeOK, NextChunk
    <3>2. next_request_id_' \in 1..(MaxRequests + 1)
      BY <1>4, <2>2 DEF TypeOK, NextChunk
    <3>3. owner' = "write"
          /\ UNCHANGED <<pending_requests_, position, configVars, lifeVars, queueVars>>
      BY <1>4, <2>2 DEF NextChunk
    <3>4. QED
      BY <1>1, <3>1, <3>2, <3>3 DEF TypeOK, configVars, lifeVars, queueVars
  <2>3. CASE ~(position < StreamCount)
    BY <1>1, <1>4, <2>3 DEF TypeOK, NextChunk, configVars, lifeVars, queueVars
  <2>4. QED
    BY <2>2, <2>3
<1>5. CASE Write
  BY <1>1, <1>5 DEF TypeOK, Write, configVars, lifeVars, subscribeVars, queueVars
<1>6. CASE InsertPending
  <2>1. next_request_id_ - 1 \in Message
    BY <1>6 DEF InsertPending, SubscribeInv, TypeOK
  <2>2. position + ChunkSize \in Nat
    BY ChunkSizeBounds DEF TypeOK
  <2>3. QED
    BY <1>1, <1>6, <2>1, <2>2 DEF TypeOK, InsertPending, configVars, lifeVars, queueVars
<1>7. CASE Stop \/ Destroy \/ Stopping
  BY <1>1, <1>7
     DEF TypeOK, Stop, Destroy, Stopping, StopTestFails, StopFlag, StopEventLoop, StopJoin, Joined,
         Unjoinable, StopReturns, configVars, lifeVars, subscribeVars, queueVars
<1>8. CASE NotifyFrame
  <2>1. /\ queue_cv_' \subseteq queue_cv_
        /\ UNCHANGED <<update_queue_, getting, received, returned, owner, configVars, lifeVars,
                       subscribeVars>>
    BY <1>8 DEF NotifyFrame, Notify
  <2>2. QED
    BY <1>1, <2>1 DEF TypeOK, configVars, lifeVars, subscribeVars
<1>9. ASSUME OnLoss("connecting", "failed") \/ OnLoss("open", "closed")
      PROVE  TypeOK'
  BY <1>1, <1>9 DEF TypeOK, OnLoss, Reconnect, configVars, lifeVars, subscribeVars, queueVars
<1>10. CASE OnFrame
  <2>1. NewFrame \in 1..MaxFrames
    BY <1>10 DEF OnFrame, NewFrame, TypeOK
  <2>2. QED
    BY <1>1, <1>10, <2>1 DEF TypeOK, OnFrame, configVars, lifeVars, subscribeVars, queueVars
<1>11. ASSUME NEW id \in Message, OnResponse(id) \/ OnResponseRacing(id)
       PROVE  TypeOK'
  BY <1>1, <1>11 DEF TypeOK, OnResponse, OnResponseRacing, configVars, lifeVars, queueVars
<1>12. ASSUME NEW t \in Thread, GetUpdate(t) \/ SpuriousQueueWake(t)
       PROVE  TypeOK'
  BY <1>1, <1>12
     DEF TypeOK, GetUpdate, SpuriousQueueWake, configVars, lifeVars, subscribeVars, queueVars
<1>13. ASSUME NEW t \in Thread, AwaitUpdate(t)
       PROVE  TypeOK'
  <2>1. CASE update_queue_ # <<>>
    <3>1. /\ Head(update_queue_) \in 1..MaxFrames
          /\ Tail(update_queue_) \in Seq(1..MaxFrames)
      BY <2>1 DEF TypeOK
    <3>2. QED
      <4>1. /\ returned' = Append(returned, Head(update_queue_))
            /\ update_queue_' = Tail(update_queue_)
            /\ t \notin queue_cv_ /\ getting' = getting \ {t} /\ queue_cv_' = queue_cv_
            /\ UNCHANGED <<received, owner, configVars, lifeVars, subscribeVars>>
        BY <1>13, <2>1 DEF AwaitUpdate, TakeOrWait
      <4>2. returned' \in Seq(1..MaxFrames)
        BY <3>1, <4>1 DEF TypeOK
      <4>3. QED
        BY <1>1, <3>1, <4>1, <4>2 DEF TypeOK, configVars, lifeVars, subscribeVars
  <2>2. CASE update_queue_ = <<>>
    BY <1>1, <1>13, <2>2
       DEF TypeOK, AwaitUpdate, TakeOrWait, configVars, lifeVars, subscribeVars
  <2>3. QED
    BY <2>1, <2>2
<1>14. QED
  BY <1>2, <1>3, <1>4, <1>5, <1>6, <1>7, <1>8, <1>9, <1>10, <1>11, <1>12, <1>13
     DEF Next, Subscribing, FeederThread, Exchange, OnUnexpectedResponse, OnError
-----------------------------------------------------------------------------
(* The life of the feeder.                                                 *)

LEMMA LifePart ==
  ASSUME FeederInv, Next
  PROVE  LifeInv'
<1> USE ThreadAssumption
    DEF FeederInv, LifeInv, DestructorJoins, lifeVars
<1>0. proc = "up" /\ thread \in {"none", "spawned", "connect", "start", "run", "opened", "notify",
                                "exited"}
  BY DEF Next, WSInv, WSTypeOK
<1>1. CASE Start
  BY <1>0, <1>1 DEF Start, Launch, Free
<1>2. CASE ThreadBegin
  BY <1>0, <1>2 DEF ThreadBegin, Begin, TypeOK
<1>3. CASE SubscribeToTickers
  BY <1>0, <1>3 DEF SubscribeToTickers, Free, wsVars, clientVars
<1>4. CASE Subscribing
  BY <1>0, <1>4
     DEF Subscribing, AwaitConnection, NextChunk, Write, InsertPending, WriteWS, Writing, WriteTest,
         WriteLock, WriteSend, wsVars, clientVars
<1>5. CASE Stop \/ Destroy
  BY <1>0, <1>5 DEF Stop, Destroy, Free, wsVars, clientVars, TypeOK
<1>6. CASE StopTestFails
  BY <1>0, <1>6 DEF StopTestFails, StopReturns, TypeOK
<1>7. CASE StopFlag
  BY <1>0, <1>7 DEF StopFlag, wsVars, clientVars, TypeOK
<1>8. CASE StopEventLoop
  BY <1>0, <1>8 DEF StopEventLoop, StopClient, TypeOK
<1>9. CASE StopJoin
  <2>1. /\ stopping = "join" /\ fws_thread_ \in {"joinable", "joined"} /\ thread = "exited"
        /\ fws_thread_' = "joined" /\ stopping' = "none"
        /\ UNCHANGED <<frunning_, thread, destroying>>
    BY <1>0, <1>9 DEF StopJoin, Joined, Unjoinable, StopReturns, TypeOK
  <2>2. proc' = "up" /\ owner' = IF destroying THEN "gone" ELSE owner
    BY <1>0, <1>9, <2>1 DEF StopJoin, Joined, Unjoinable, StopReturns, TypeOK
  <2>3. ~frunning_
    BY <2>1
  <2>4. QED
    BY <2>1, <2>2, <2>3
<1>10. CASE NotifyFrame
  BY <1>0, <1>10 DEF NotifyFrame, Notify
<1>11. ASSUME Connect \/ StartClient \/ OnOpenPublish \/ RunReturns \/ OnOpen,
              UNCHANGED feederVars
       PROVE  LifeInv'
  BY <1>0, <1>11
     DEF Connect, StartClient, OnOpenPublish, RunReturns, OnOpen, Dispatching, feederVars, TypeOK
<1>12. ASSUME OnLoss("connecting", "failed") \/ OnLoss("open", "closed")
       PROVE  LifeInv'
  BY <1>0, <1>12 DEF OnLoss, Lose, Reconnect, Dispatching, TypeOK
<1>13. CASE OnFrame
  BY <1>0, <1>13 DEF OnFrame, Dispatching
<1>14. ASSUME NEW id \in Message, OnResponse(id) \/ OnUnexpectedResponse(id) \/ OnError(id)
                                  \/ OnResponseRacing(id)
       PROVE  LifeInv'
  BY <1>0, <1>14
     DEF OnResponse, OnUnexpectedResponse, OnError, OnResponseRacing, PeerAnswers, Receive,
         Dispatching, feederVars, TypeOK
<1>15. ASSUME SpuriousWake(Main), UNCHANGED feederVars
       PROVE  LifeInv'
  BY <1>0, <1>15 DEF SpuriousWake, feederVars, clientVars
<1>16. ASSUME NEW t \in Thread, GetUpdate(t) \/ AwaitUpdate(t) \/ SpuriousQueueWake(t)
       PROVE  LifeInv'
  BY <1>0, <1>16 DEF GetUpdate, AwaitUpdate, TakeOrWait, SpuriousQueueWake, wsVars, clientVars
<1>17. QED
  BY <1>1, <1>2, <1>3, <1>4, <1>5, <1>6, <1>7, <1>8, <1>9, <1>10, <1>11, <1>12, <1>13, <1>14,
     <1>15, <1>16 DEF Next, Stopping, FeederThread, Exchange
-----------------------------------------------------------------------------
(* The subscription.                                                       *)

LEMMA ChunkBounds ==
  ASSUME TypeOK, NEW i \in Nat
  PROVE  IsFiniteSet(Chunk(i)) /\ Cardinality(Chunk(i)) <= ChunkSize
<1>1. ChunkSize \in Nat
  BY ChunkSizeBounds
<1>2. /\ IsFiniteSet((i + 1)..(i + ChunkSize))
      /\ Cardinality((i + 1)..(i + ChunkSize)) = ChunkSize
  BY <1>1, FS_Interval
<1>3. Chunk(i) \subseteq (i + 1)..(i + ChunkSize)
  BY <1>1, StreamCountIsNat DEF Chunk
<1>4. QED
  BY <1>1, <1>2, <1>3, FS_Subset, FS_CardinalityType

\* Steps that move Main on and leave the requests alone.
LEMMA SubscribeFrame ==
  ASSUME SubscribeInv, TypeOK,
         UNCHANGED <<configVars, next_request_id_, position, chunkOf>>,
         owner' \in {"write", "insert"} <=> owner \in {"write", "insert"},
         owner' \in {"new", "up", "wait"} => owner \in {"new", "up", "wait"},
         owner' = "ready" => owner = "ready" \/ position >= StreamCount
  PROVE  SubscribeInv'
<1>1. ChunkSize' = ChunkSize /\ StreamCount' = StreamCount
  BY DEF configVars, ChunkSize, StreamCount
<1>2. Covered' = Covered
  BY <1>1 DEF Covered
<1>3. QED
  BY <1>1, <1>2 DEF SubscribeInv

\* What a family of sets covers, and how that grows when one member, empty
\* before, becomes new.
Cover(F, I) == UNION {F[m] : m \in I}

LEMMA InCover ==
  ASSUME NEW F, NEW I, NEW s
  PROVE  s \in Cover(F, I) <=> \E m \in I : s \in F[m]
<1>1. ASSUME s \in Cover(F, I)
      PROVE  \E m \in I : s \in F[m]
  <2>1. PICK x \in {F[m] : m \in I} : s \in x
    BY <1>1 DEF Cover
  <2>2. PICK m \in I : x = F[m]
    BY <2>1
  <2>3. QED
    BY <2>1, <2>2
<1>2. ASSUME NEW m \in I, s \in F[m]
      PROVE  s \in Cover(F, I)
  <2>1. F[m] \in {F[k] : k \in I}
    OBVIOUS
  <2>2. QED
    BY <1>2, <2>1 DEF Cover
<1>3. QED
  BY <1>1, <1>2

LEMMA CoverOfOneMore ==
  ASSUME NEW I, NEW F, NEW G, NEW i \in I, NEW new,
         F[i] = {}, G[i] = new, \A m \in I : m # i => G[m] = F[m]
  PROVE  Cover(G, I) = Cover(F, I) \cup new
<1>1. \A s : s \in Cover(G, I) <=> s \in Cover(F, I) \/ s \in new
  BY InCover
<1>2. QED
  BY <1>1

LEMMA SubscribePart ==
  ASSUME FeederInv, Next
  PROVE  SubscribeInv'
<1> USE DEF FeederInv
<1>1. CASE NextChunk
  <2> USE <1>1
  <2>1. CASE position < StreamCount
    <3> DEFINE id == next_request_id_
    <3>1. /\ id \in Message /\ id \in Nat /\ id > 0
          /\ chunkOf' = [chunkOf EXCEPT ![id] = Chunk(position)]
          /\ next_request_id_' = id + 1 /\ position' = position
          /\ owner = "chunk" /\ owner' = "write"
          /\ UNCHANGED configVars
      BY <2>1, BoundAssumption DEF NextChunk, TypeOK
    <3> HIDE DEF id
    <3>2. /\ ChunkSize' = ChunkSize /\ StreamCount' = StreamCount
          /\ ChunkSize \in Nat /\ StreamCount \in Nat /\ position \in Nat
      BY <3>1, ChunkSizeBounds, StreamCountIsNat DEF configVars, ChunkSize, StreamCount, TypeOK
    <3>3. Covered = position /\ Covered' = position + ChunkSize
      BY <3>1, <3>2 DEF Covered
    <3>4. /\ chunkOf'[id] = Chunk(position) /\ chunkOf[id] = {}
          /\ \A m \in Message : m # id => chunkOf'[m] = chunkOf[m]
      BY <3>1 DEF TypeOK, SubscribeInv, id
    <3>14. id \in Message
      BY <3>1
    <3>5. \A m \in Message : m >= next_request_id_' => chunkOf'[m] = {}
      BY <3>1, <3>4, BoundAssumption DEF SubscribeInv, id, TypeOK
    <3>6. Cover(chunkOf', Message) = Cover(chunkOf, Message) \cup Chunk(position)
      <4> DEFINE old   == chunkOf
                 new   == chunkOf'
                 chunk == Chunk(position)
      <4>1. /\ old[id] = {} /\ new[id] = chunk
            /\ \A m \in Message : m # id => new[m] = old[m]
        BY <3>4
      <4> HIDE DEF old, new, chunk
      <4>2. Cover(new, Message) = Cover(old, Message) \cup chunk
        BY <3>14, <4>1, CoverOfOneMore
      <4>3. QED
        BY <4>2 DEF old, new, chunk
    <3>7. {s \in 1..StreamCount : s <= position} \cup Chunk(position) =
            {s \in 1..StreamCount : s <= position + ChunkSize}
      BY <3>2 DEF Chunk
    <3>8. \A m \in Message : chunkOf[m] \cap Chunk(position) = {}
      <4>1. \A m \in Message : chunkOf[m] \subseteq {s \in 1..StreamCount : s <= position}
        BY <3>3 DEF SubscribeInv
      <4>2. {s \in 1..StreamCount : s <= position} \cap Chunk(position) = {}
        BY <3>2 DEF Chunk
      <4>3. QED
        BY <4>1, <4>2
    <3>9. \A m, k \in Message : m # k => chunkOf'[m] \cap chunkOf'[k] = {}
      BY <3>4, <3>8 DEF SubscribeInv
    <3>10. \A m \in Message : IsFiniteSet(chunkOf'[m]) /\ Cardinality(chunkOf'[m]) <= ChunkSize
      BY <3>2, <3>4, ChunkBounds DEF SubscribeInv
    <3>11. UNION {chunkOf'[m] : m \in Message} = {s \in 1..StreamCount' : s <= Covered'}
      <4> DEFINE reach == {s \in 1..StreamCount : s <= position + ChunkSize}
                 new   == Cover(chunkOf', Message)
                 n     == StreamCount'
                 c     == Covered'
      <4>1. Cover(chunkOf, Message) = {s \in 1..StreamCount : s <= position}
        BY <3>3 DEF SubscribeInv, Cover
      <4>2. new = reach
        BY <3>6, <3>7, <4>1
      <4>3. n = StreamCount /\ c = position + ChunkSize
        BY <3>2, <3>3
      <4> HIDE DEF n, c, new
      <4>4. {s \in 1..n : s <= c} = reach
        BY <4>3
      <4> HIDE DEF reach
      <4>5. new = {s \in 1..n : s <= c}
        BY <4>2, <4>4
      <4>6. QED
        BY <4>5 DEF n, c, new, Cover
    <3>12. next_request_id_' > 1
      BY <3>1
    <3>13. QED
      BY <3>1, <3>2, <3>5, <3>9, <3>10, <3>11, <3>12 DEF SubscribeInv
  <2>2. CASE ~(position < StreamCount)
    <3>1. /\ UNCHANGED <<configVars, next_request_id_, position, chunkOf>>
          /\ owner = "chunk" /\ owner' = "ready" /\ position >= StreamCount
      BY <2>2, StreamCountIsNat DEF NextChunk, TypeOK
    <3>2. QED
      BY <3>1, SubscribeFrame
  <2>3. QED
    BY <2>1, <2>2
<1>2. CASE InsertPending
  <2>1. ChunkSize' = ChunkSize /\ StreamCount' = StreamCount
    BY <1>2 DEF InsertPending, configVars, ChunkSize, StreamCount
  <2>2. Covered' = Covered
    BY <1>2 DEF InsertPending, Covered
  <2>3. QED
    BY <1>2, <2>1, <2>2 DEF SubscribeInv, InsertPending
<1>3. CASE Write
  BY <1>3, SubscribeFrame DEF Write, subscribeVars
<1>4. CASE Start \/ SubscribeToTickers \/ AwaitConnection
  BY <1>4, SubscribeFrame DEF Start, SubscribeToTickers, AwaitConnection, subscribeVars
<1>5. CASE StopTestFails \/ StopJoin
  BY <1>5, SubscribeFrame
     DEF StopTestFails, StopJoin, Joined, StopReturns, subscribeVars, LifeInv
<1>6. CASE UNCHANGED <<configVars, next_request_id_, position, chunkOf, owner>>
  BY <1>6, SubscribeFrame
<1>7. QED
  BY <1>1, <1>2, <1>3, <1>4, <1>5, <1>6
     DEF Next, Subscribing, Stopping, FeederThread, Exchange, ThreadBegin, Stop, Destroy, StopFlag,
         StopEventLoop, NotifyFrame, Notify, OnLoss, OnFrame, OnResponse, OnUnexpectedResponse,
         OnResponseRacing, OnError, GetUpdate, AwaitUpdate, TakeOrWait, SpuriousQueueWake,
         feederVars, subscribeVars
-----------------------------------------------------------------------------
(* The queue.                                                              *)

LEMMA QueuePart ==
  ASSUME FeederInv, Next
  PROVE  QueueInv'
<1> DEFINE awake    == getting \ queue_cv_
           announced(th) == IF th = "notify" THEN 1 ELSE 0
<1> USE DEF FeederInv
<1>1. IsFiniteSet(awake) /\ Cardinality(awake) \in Nat /\ Len(update_queue_) \in Nat
  <2>1. IsFiniteSet(awake)
    BY FS_Difference DEF QueueInv
  <2>2. Cardinality(awake) \in Nat
    BY <2>1, FS_CardinalityType
  <2>3. Len(update_queue_) \in Nat
    BY DEF TypeOK
  <2>4. QED
    BY <2>1, <2>2, <2>3
<1>2. CASE UNCHANGED queueVars /\ (thread = "notify" <=> thread' = "notify")
  BY <1>2 DEF QueueInv, NoSleepOnFrame, queueVars
<1>3. CASE OnFrame
  <2>1. /\ Len(update_queue_') = Len(update_queue_) + 1
        /\ thread = "run" /\ thread' = "notify" /\ UNCHANGED <<queue_cv_, getting>>
    BY <1>3 DEF OnFrame, Dispatching, TypeOK
  <2>2. QED
    BY <1>1, <2>1 DEF QueueInv, NoSleepOnFrame
<1>4. CASE NotifyFrame
  <2>1. CASE queue_cv_' = {}
    BY <1>4, <2>1 DEF NotifyFrame, Notify, QueueInv, NoSleepOnFrame
  <2>2. ASSUME NEW t \in queue_cv_, Notify(queue_cv_ \ {t})
        PROVE  QueueInv'
    <3>1. getting' \ queue_cv_' = awake \cup {t} /\ t \notin awake
      BY <2>2 DEF Notify, TypeOK
    <3>2. Cardinality(getting' \ queue_cv_') = Cardinality(awake) + 1
      BY <1>1, <3>1, FS_AddElement
    <3>3. QED
      BY <1>1, <2>2, <3>2 DEF Notify, QueueInv, NoSleepOnFrame
  <2>3. QED
    BY <1>4, <2>1, <2>2 DEF NotifyFrame, Notify
<1>5. ASSUME NEW t \in Thread, GetUpdate(t)
      PROVE  QueueInv'
  <2>1. /\ getting' = getting \cup {t} /\ t \notin getting
        /\ UNCHANGED <<queue_cv_, update_queue_, thread>>
    BY <1>5 DEF GetUpdate, Free, wsVars, clientVars
  <2>2. getting' \ queue_cv_' = awake \cup {t} /\ t \notin awake
    BY <2>1 DEF TypeOK
  <2>3. Cardinality(getting' \ queue_cv_') = Cardinality(awake) + 1 /\ IsFiniteSet(getting')
    BY <1>1, <2>1, <2>2, FS_AddElement DEF QueueInv
  <2>4. QED
    BY <1>1, <2>1, <2>3 DEF QueueInv, NoSleepOnFrame
<1>6. ASSUME NEW t \in Thread, SpuriousQueueWake(t)
      PROVE  QueueInv'
  <2>1. /\ queue_cv_' = queue_cv_ \ {t} /\ t \in queue_cv_
        /\ UNCHANGED <<getting, update_queue_, thread>>
    BY <1>6 DEF SpuriousQueueWake, wsVars, clientVars
  <2>2. getting' \ queue_cv_' = awake \cup {t} /\ t \notin awake
    BY <2>1 DEF TypeOK
  <2>3. Cardinality(getting' \ queue_cv_') = Cardinality(awake) + 1
    BY <1>1, <2>2, FS_AddElement
  <2>4. QED
    BY <1>1, <2>1, <2>3 DEF QueueInv, NoSleepOnFrame
<1>7. ASSUME NEW t \in Thread, AwaitUpdate(t)
      PROVE  QueueInv'
  <2>1. t \in awake /\ UNCHANGED thread /\ IsFiniteSet(getting)
    BY <1>7 DEF AwaitUpdate, TakeOrWait, wsVars, clientVars, QueueInv
  <2>2. IsFiniteSet(getting \ {t})
    BY <2>1, FS_RemoveElement
  <2>3. CASE update_queue_ = <<>>
    <3>1. /\ update_queue_' = <<>> /\ getting' \in {getting, getting \ {t}}
      BY <1>7, <2>3 DEF AwaitUpdate, TakeOrWait
    <3>2. IsFiniteSet(getting') /\ Cardinality(getting' \ queue_cv_') \in Nat
      BY <2>1, <2>2, <3>1, FS_Difference, FS_CardinalityType
    <3>3. QED
      BY <3>1, <3>2 DEF QueueInv, NoSleepOnFrame
  <2>4. CASE update_queue_ # <<>>
    <3>1. /\ update_queue_' = Tail(update_queue_)
          /\ getting' = getting \ {t} /\ queue_cv_' = queue_cv_
      BY <1>7, <2>4 DEF AwaitUpdate, TakeOrWait
    <3>2. Len(update_queue_') = Len(update_queue_) - 1
      BY <2>4, <3>1 DEF TypeOK
    <3>3. getting' \ queue_cv_' = awake \ {t}
      BY <3>1
    <3>4. Cardinality(getting' \ queue_cv_') = Cardinality(awake) - 1
      BY <1>1, <2>1, <3>3, FS_RemoveElement
    <3>5. QED
      BY <1>1, <2>1, <2>2, <3>1, <3>2, <3>4 DEF QueueInv, NoSleepOnFrame
  <2>5. QED
    BY <2>3, <2>4
<1>8. ASSUME Start \/ ThreadBegin \/ SubscribeToTickers \/ Subscribing \/ Stop \/ Destroy \/ Stopping
      PROVE  UNCHANGED queueVars /\ (thread = "notify" <=> thread' = "notify")
  BY <1>8
     DEF Start, Launch, ThreadBegin, Begin, SubscribeToTickers, Subscribing, AwaitConnection,
         NextChunk, Write, InsertPending, WriteWS, Writing, WriteTest, WriteLock, WriteSend, Stop,
         Destroy, Stopping, StopTestFails, StopFlag, StopEventLoop, StopClient, StopJoin, Joined,
         StopReturns, wsVars, clientVars
<1>9. ASSUME \/ Connect \/ StartClient \/ OnOpenPublish \/ RunReturns \/ OnOpen \/ SpuriousWake(Main),
             UNCHANGED feederVars
      PROVE  UNCHANGED queueVars /\ (thread = "notify" <=> thread' = "notify")
  BY <1>9
     DEF Connect, StartClient, OnOpenPublish, RunReturns, OnOpen, Dispatching, SpuriousWake,
         clientVars, feederVars
<1>10. ASSUME \/ OnLoss("connecting", "failed") \/ OnLoss("open", "closed")
              \/ \E id \in Message : \/ OnResponse(id) \/ OnUnexpectedResponse(id)
                                     \/ OnResponseRacing(id) \/ OnError(id)
       PROVE  UNCHANGED queueVars /\ (thread = "notify" <=> thread' = "notify")
  BY <1>10
     DEF OnLoss, Lose, OnResponse, OnUnexpectedResponse, OnResponseRacing, OnError, PeerAnswers,
         Receive, feederVars
<1>11. QED
  BY <1>2, <1>3, <1>4, <1>5, <1>6, <1>7, <1>8, <1>9, <1>10
     DEF Next, Stopping, FeederThread, Exchange
-----------------------------------------------------------------------------
LEMMA StutterKeeps == ASSUME FeederInv, UNCHANGED vars PROVE FeederInv'
<1> USE DEF FeederInv, vars, feederVars, configVars, lifeVars, subscribeVars, queueVars, wsVars,
            linkVars, clientVars, writeVars
<1>1. WSInv' /\ TypeOK'
  BY DEF WSInv, WSTypeOK, LinkInv, TypeOK
<1>2. LifeInv' /\ QueueInv'
  BY DEF LifeInv, DestructorJoins, QueueInv, NoSleepOnFrame
<1>3. SubscribeInv'
  BY SubscribeFrame
<1>4. QED
  BY <1>1, <1>2, <1>3

THEOREM FeederInvariant == Spec => []FeederInv
<1>1. FeederInv /\ [Next]_vars => FeederInv'
  BY StutterKeeps, ListenerPart, TypePart, LifePart, SubscribePart, QueuePart DEF FeederInv
<1>2. QED
  BY <1>1, InitFeederInv, PTL DEF Spec

\* Every variable of the feeder keeps to its type.
THEOREM FeederTypeCorrect == Spec => []TypeOK
<1>1. FeederInv => TypeOK
  BY DEF FeederInv
<1>2. QED
  BY <1>1, FeederInvariant, PTL

\* However long the list and whatever the limit, the requests of a subscription
\* cover the list up to the limit, once, none above a quarter of the limit.
THEOREM FeederSubscribes == Spec => []SubscriptionComplete
<1>1. FeederInv => SubscriptionComplete
  <2> SUFFICES ASSUME FeederInv PROVE SubscriptionComplete
    OBVIOUS
  <2>1. /\ ChunkSize \in Nat /\ 4 * ChunkSize <= maxStreamsSubs_ /\ maxStreamsSubs_ \in Nat
        /\ StreamCount \in Nat /\ symbols \in Nat /\ position \in Nat
    BY ChunkSizeBounds, StreamCountIsNat DEF FeederInv, TypeOK
  <2>2. owner = "ready" => UNION {chunkOf[m] : m \in Message} =
          {s \in 1..symbols : maxStreamsSubs_ = 0 \/ s <= maxStreamsSubs_}
    <3> SUFFICES ASSUME owner = "ready"
                 PROVE  {s \in 1..StreamCount : s <= Covered} =
                          {s \in 1..symbols : maxStreamsSubs_ = 0 \/ s <= maxStreamsSubs_}
      BY DEF FeederInv, SubscribeInv
    <3>1. Covered = position /\ position >= StreamCount
      BY DEF FeederInv, SubscribeInv, Covered
    <3>2. QED
      BY <2>1, <3>1 DEF StreamCount
  <2>3. \A m \in Message : Cardinality(chunkOf[m]) * 4 <= maxStreamsSubs_
    <3> TAKE m \in Message
    <3>1. Cardinality(chunkOf[m]) \in Nat /\ Cardinality(chunkOf[m]) <= ChunkSize
      BY FS_CardinalityType DEF FeederInv, SubscribeInv
    <3>2. QED
      BY <2>1, <3>1
  <2>4. QED
    BY <2>2, <2>3 DEF FeederInv, SubscribeInv, SubscriptionComplete
<1>2. QED
  BY <1>1, FeederInvariant, PTL

\* Any number of consumers: none sleeps on a frame that nobody is to fetch.
THEOREM FeederNoSleepOnFrame == Spec => []NoSleepOnFrame
<1>1. FeederInv => NoSleepOnFrame
  BY DEF FeederInv, QueueInv
<1>2. QED
  BY <1>1, FeederInvariant, PTL

\* The destructor terminates the process only when it overtakes the thread on its
\* way to setting frunning_, and otherwise leaves no thread running.
THEOREM FeederDestructor == Spec => []DestructorJoins
<1>1. FeederInv => DestructorJoins
  BY DEF FeederInv, LifeInv
<1>2. QED
  BY <1>1, FeederInvariant, PTL
-----------------------------------------------------------------------------
(* The refinement of UpdateStream.                                         *)

\* What was pushed is what was returned and what is queued, in this order; only
\* a feeder whose connection was open, and that is not being destroyed, has
\* threads in getUpdate.
DeliveryInv ==
  /\ received = returned \o update_queue_
  /\ owner \in {"chunk", "write", "insert", "ready"} => thread \notin {"none", "spawned"}
  /\ getting # {} => owner = "ready" /\ ~destroying

LEMMA PushAtEnd ==
  ASSUME NEW S, NEW a \in Seq(S), NEW b \in Seq(S), NEW x \in S
  PROVE  Append(a \o b, x) = a \o Append(b, x)
<1>1. /\ a \o b \in Seq(S) /\ Len(a \o b) = Len(a) + Len(b)
      /\ \A i \in 1..Len(a) + Len(b) : (a \o b)[i] = IF i <= Len(a) THEN a[i] ELSE b[i - Len(a)]
  BY ConcatProperties
<1>2. Append(b, x) \in Seq(S) /\ Len(Append(b, x)) = Len(b) + 1
  OBVIOUS
<1>3. /\ a \o Append(b, x) \in Seq(S) /\ Len(a \o Append(b, x)) = Len(a) + Len(b) + 1
      /\ \A i \in 1..Len(a) + Len(b) + 1 :
           (a \o Append(b, x))[i] = IF i <= Len(a) THEN a[i] ELSE Append(b, x)[i - Len(a)]
  BY <1>2, ConcatProperties
<1>4. Append(a \o b, x) \in Seq(S) /\ Len(Append(a \o b, x)) = Len(a) + Len(b) + 1
  BY <1>1
<1>5. ASSUME NEW i \in 1..Len(a) + Len(b) + 1
      PROVE  Append(a \o b, x)[i] = (a \o Append(b, x))[i]
  BY <1>1, <1>3
<1>6. QED
  BY <1>3, <1>4, <1>5, SeqEqual

LEMMA PopAtHead ==
  ASSUME NEW S, NEW a \in Seq(S), NEW b \in Seq(S), b # <<>>
  PROVE  /\ Append(a, Head(b)) \o Tail(b) = a \o b
         /\ (a \o b)[Len(a) + 1] = Head(b)
         /\ Len(a) < Len(a \o b)
<1>1. /\ a \o b \in Seq(S) /\ Len(a \o b) = Len(a) + Len(b)
      /\ \A i \in 1..Len(a) + Len(b) : (a \o b)[i] = IF i <= Len(a) THEN a[i] ELSE b[i - Len(a)]
  BY ConcatProperties
<1>2. /\ Head(b) = b[1] /\ Head(b) \in S /\ Tail(b) \in Seq(S) /\ Len(Tail(b)) = Len(b) - 1
      /\ \A i \in 1..Len(Tail(b)) : Tail(b)[i] = b[i + 1]
      /\ Len(b) \in Nat \ {0}
  BY HeadTailProperties, EmptySeq
<1>3. Append(a, Head(b)) \in Seq(S) /\ Len(Append(a, Head(b))) = Len(a) + 1
  BY <1>2
<1> DEFINE c == Append(a, Head(b)) \o Tail(b)
<1>4. /\ c \in Seq(S) /\ Len(c) = Len(a) + Len(b)
      /\ \A i \in 1..Len(a) + Len(b) :
           c[i] = IF i <= Len(a) + 1 THEN Append(a, Head(b))[i] ELSE Tail(b)[i - (Len(a) + 1)]
  BY <1>2, <1>3, ConcatProperties
<1>5. ASSUME NEW i \in 1..Len(a) + Len(b)
      PROVE  c[i] = (a \o b)[i]
  BY <1>1, <1>2, <1>4
<1> HIDE DEF c
<1>6. c = a \o b
  BY <1>1, <1>4, <1>5, SeqEqual
<1>7. QED
  BY <1>1, <1>2, <1>6 DEF c

\* Steps that neither push nor return a frame, nor lead a thread into getUpdate.
LEMMA DeliveryFrame ==
  ASSUME DeliveryInv, UNCHANGED <<update_queue_, received, returned, getting>>,
         thread \notin {"none", "spawned"} => thread' \notin {"none", "spawned"},
         owner' \in {"chunk", "write", "insert", "ready"} =>
           owner \in {"chunk", "write", "insert", "ready"} \/ thread' \notin {"none", "spawned"},
         getting # {} => owner' = owner /\ destroying' = destroying
  PROVE  DeliveryInv'
BY DEF DeliveryInv

LEMMA DeliveryPart ==
  ASSUME FeederInv, DeliveryInv, Next
  PROVE  DeliveryInv'
<1> USE ThreadAssumption DEF FeederInv
<1>1. CASE Start \/ ThreadBegin \/ SubscribeToTickers
  BY <1>1, DeliveryFrame
     DEF Start, Launch, ThreadBegin, Begin, SubscribeToTickers, Free, DeliveryInv, wsVars,
         clientVars, queueVars
<1>2. CASE AwaitConnection
  <2>1. isConnected_ => thread \notin {"none", "spawned"}
    BY DEF WSInv, LinkInv
  <2>2. QED
    BY <1>2, <2>1, DeliveryFrame DEF AwaitConnection, DeliveryInv, clientVars, lifeVars, queueVars
<1>3. CASE NextChunk \/ Write \/ InsertPending
  BY <1>3, DeliveryFrame
     DEF NextChunk, Write, InsertPending, WriteWS, Writing, WriteTest, WriteLock, WriteSend,
         DeliveryInv, wsVars, clientVars, lifeVars, queueVars
<1>4. CASE Stop \/ Stopping
  BY <1>4, DeliveryFrame
     DEF Stop, Stopping, StopTestFails, StopFlag, StopEventLoop, StopClient, StopJoin, Joined,
         StopReturns, DeliveryInv, wsVars, clientVars, queueVars
<1>5. CASE Destroy
  <2>1. getting = {}
    BY <1>5 DEF Destroy, Free, TypeOK
  <2>2. QED
    BY <1>5, <2>1, DeliveryFrame DEF Destroy, DeliveryInv, wsVars, clientVars, queueVars
<1>6. CASE NotifyFrame
  BY <1>6, DeliveryFrame DEF NotifyFrame, Notify, lifeVars
<1>7. ASSUME \/ Connect \/ StartClient \/ OnOpenPublish \/ RunReturns \/ OnOpen \/ SpuriousWake(Main),
             UNCHANGED feederVars
      PROVE  DeliveryInv'
  BY <1>7, DeliveryFrame
     DEF Connect, StartClient, OnOpenPublish, RunReturns, OnOpen, Dispatching, SpuriousWake,
         clientVars, feederVars, lifeVars, queueVars
<1>8. ASSUME \/ OnLoss("connecting", "failed") \/ OnLoss("open", "closed")
             \/ \E id \in Message : \/ OnResponse(id) \/ OnUnexpectedResponse(id)
                                    \/ OnResponseRacing(id) \/ OnError(id)
      PROVE  DeliveryInv'
  BY <1>8, DeliveryFrame
     DEF OnLoss, Lose, OnResponse, OnUnexpectedResponse, OnResponseRacing, OnError, PeerAnswers,
         Receive, feederVars, lifeVars, queueVars
<1>9. CASE OnFrame
  <2>1. NewFrame \in 1..MaxFrames
    BY <1>9, BoundAssumption DEF OnFrame, NewFrame, TypeOK
  <2>2. received' = returned' \o update_queue_'
    <3>1. Append(returned \o update_queue_, NewFrame) = returned \o Append(update_queue_, NewFrame)
      <4>1. \A S : \A a, b \in Seq(S) : \A x \in S : Append(a \o b, x) = a \o Append(b, x)
        BY PushAtEnd
      <4>2. /\ returned \in Seq(1..MaxFrames) /\ update_queue_ \in Seq(1..MaxFrames)
            /\ NewFrame \in 1..MaxFrames
        BY <2>1 DEF TypeOK
      <4>3. QED
        BY ONLY <4>1, <4>2
    <3>2. /\ received = returned \o update_queue_ /\ returned' = returned
          /\ update_queue_' = Append(update_queue_, NewFrame)
          /\ received' = Append(received, NewFrame)
      BY <1>9 DEF OnFrame, DeliveryInv
    <3>3. QED
      BY <3>1, <3>2
  <2>3. QED
    BY <1>9, <2>2 DEF OnFrame, DeliveryInv, lifeVars
<1>10. ASSUME NEW t \in Thread, GetUpdate(t)
       PROVE  DeliveryInv'
  BY <1>10 DEF GetUpdate, Free, DeliveryInv, wsVars, clientVars, lifeVars
<1>11. ASSUME NEW t \in Thread, AwaitUpdate(t)
       PROVE  DeliveryInv'
  <2>1. UNCHANGED <<received, owner, destroying, thread>> /\ getting' \subseteq getting
    BY <1>11 DEF AwaitUpdate, TakeOrWait, wsVars, clientVars, lifeVars
  <2>2. received' = returned' \o update_queue_'
    <3>1. CASE update_queue_ # <<>>
      <4>1. Append(returned, Head(update_queue_)) \o Tail(update_queue_) =
              returned \o update_queue_
        BY <3>1, PopAtHead DEF TypeOK
      <4>2. QED
        BY <1>11, <2>1, <3>1, <4>1 DEF AwaitUpdate, TakeOrWait, DeliveryInv
    <3>2. CASE update_queue_ = <<>>
      BY <1>11, <2>1, <3>2 DEF AwaitUpdate, TakeOrWait, DeliveryInv
    <3>3. QED
      BY <3>1, <3>2
  <2>3. QED
    BY <2>1, <2>2 DEF DeliveryInv
<1>12. ASSUME NEW t \in Thread, SpuriousQueueWake(t)
       PROVE  DeliveryInv'
  BY <1>12, DeliveryFrame DEF SpuriousQueueWake, wsVars, clientVars, lifeVars
<1>13. QED
  BY <1>1, <1>2, <1>3, <1>4, <1>5, <1>6, <1>7, <1>8, <1>9, <1>10, <1>11, <1>12
     DEF Next, Subscribing, FeederThread, Exchange

LEMMA Either ==
  ASSUME NEW a \in BOOLEAN, NEW b \in BOOLEAN, b \/ (a <=> b)
  PROVE  b \in {a, TRUE}
OBVIOUS

\* The feeder was stopped, as UpdateStream has it.
Closing == thread \notin {"none", "spawned"} /\ ~frunning_

\* Steps that UpdateStream sees as Stop, or not at all: the stream may end, and
\* the process too.
LEMMA StopStep ==
  ASSUME proc = "up", UNCHANGED <<received, returned, getting>>, Closing => Closing'
  PROVE  Updates!USNext
<1>1. Closing \in BOOLEAN /\ Closing' \in BOOLEAN
  BY DEF Closing
<1>2. Closing' \in {Closing, TRUE}
  <2>1. Closing' \/ (Closing <=> Closing')
    OBVIOUS
  <2>2. QED
    BY <1>1, <2>1, Either
<1>3. (proc' # "up") \in {proc # "up", TRUE}
  <2>1. (proc # "up") \in BOOLEAN /\ (proc' # "up") \in BOOLEAN
    OBVIOUS
  <2>2. (proc' # "up") \/ ((proc # "up") <=> (proc' # "up"))
    OBVIOUS
  <2>3. QED
    BY <2>1, <2>2, Either
<1>4. Updates!Stop
  BY <1>2, <1>3 DEF Updates!Stop, Closing
<1>5. QED
  BY <1>4 DEF Updates!USNext

\* Every step of the feeder is a step of UpdateStream or changes nothing there:
\* the frames are returned once and in their order, whatever threads ask, and
\* "No more updates" is thrown only when all of them have been.
THEOREM FeederRefinesUpdateStream == Spec => Updates!USSafety
<1>1. Init => Updates!USInit /\ DeliveryInv
  BY ConcatEmptySeq DEF Init, WSInit, Updates!USInit, DeliveryInv
<1>2. FeederInv /\ DeliveryInv /\ [Next]_vars => DeliveryInv'
  <2> SUFFICES ASSUME FeederInv, DeliveryInv, UNCHANGED vars
               PROVE  DeliveryInv'
    BY DeliveryPart
  <2> QED
    BY DEF DeliveryInv, vars, wsVars, clientVars, feederVars, lifeVars, queueVars
<1>3. FeederInv /\ DeliveryInv /\ [Next]_vars => [Updates!USNext]_(Updates!usVars)
  <2> SUFFICES ASSUME FeederInv, DeliveryInv, [Next]_vars
               PROVE  Updates!USNext \/ UNCHANGED Updates!usVars
    OBVIOUS
  <2> USE ThreadAssumption DEF FeederInv
  <2>1. CASE UNCHANGED vars
    BY <2>1 DEF vars, wsVars, clientVars, feederVars, lifeVars, queueVars, Updates!usVars
  <2> SUFFICES ASSUME Next, proc = "up"
               PROVE  Updates!USNext
    BY <2>1 DEF Next
  <2>2. CASE Start \/ ThreadBegin
    BY <2>2, StopStep
       DEF Start, Launch, ThreadBegin, Begin, Closing, queueVars
  <2>3. CASE SubscribeToTickers \/ Subscribing
    BY <2>3, StopStep
       DEF SubscribeToTickers, Subscribing, AwaitConnection, NextChunk, Write, InsertPending,
           WriteWS, Writing, WriteTest, WriteLock, WriteSend, Closing, wsVars, clientVars,
           queueVars, lifeVars
  <2>4. CASE Stop \/ Destroy \/ Stopping
    BY <2>4, StopStep
       DEF Stop, Destroy, Stopping, StopTestFails, StopFlag, StopEventLoop, StopClient, StopJoin,
           Joined, StopReturns, LifeInv, Closing, wsVars, clientVars, queueVars
  <2>5. CASE NotifyFrame
    BY <2>5, StopStep DEF NotifyFrame, Notify, Closing, lifeVars
  <2>6. ASSUME \/ Connect \/ StartClient \/ OnOpenPublish \/ RunReturns \/ OnOpen \/ SpuriousWake(Main),
               UNCHANGED feederVars
        PROVE  Updates!USNext
    BY <2>6, StopStep
       DEF Connect, StartClient, OnOpenPublish, RunReturns, OnOpen, Dispatching, SpuriousWake,
           Closing, clientVars, feederVars, lifeVars, queueVars
  <2>7. ASSUME OnLoss("connecting", "failed") \/ OnLoss("open", "closed")
        PROVE  Updates!USNext
    BY <2>7, StopStep DEF OnLoss, Lose, Reconnect, Dispatching, Closing, queueVars
  <2>8. ASSUME NEW id \in Message, \/ OnResponse(id) \/ OnUnexpectedResponse(id)
                                   \/ OnResponseRacing(id) \/ OnError(id)
        PROVE  Updates!USNext
    BY <2>8, StopStep
       DEF OnResponse, OnUnexpectedResponse, OnResponseRacing, OnError, PeerAnswers, Receive,
           Closing, feederVars, lifeVars, queueVars
  <2>9. CASE OnFrame
    <3>1. Updates!Arrive(NewFrame)
      BY <2>9 DEF OnFrame, Dispatching, Updates!Arrive, lifeVars
    <3>2. NewFrame \in 1..MaxFrames
      BY <2>9, BoundAssumption DEF OnFrame, NewFrame, TypeOK
    <3>3. QED
      BY <3>1, <3>2 DEF Updates!USNext
  <2>10. ASSUME NEW t \in Thread, GetUpdate(t)
         PROVE  Updates!USNext
    <3>1. Updates!Ask(t)
      BY <2>10 DEF GetUpdate, Free, Updates!Ask, wsVars, clientVars, lifeVars
    <3>2. QED
      BY <3>1 DEF Updates!USNext
  <2>11. ASSUME NEW t \in Thread, AwaitUpdate(t)
         PROVE  Updates!USNext
    <3>1. CASE update_queue_ # <<>>
      <4>1. /\ received[Len(returned) + 1] = Head(update_queue_)
            /\ Len(returned) < Len(received)
        BY <3>1, PopAtHead DEF TypeOK, DeliveryInv
      <4>2. Updates!Take(t)
        BY <2>11, <3>1, <4>1
           DEF AwaitUpdate, TakeOrWait, Updates!Take, wsVars, clientVars, lifeVars
      <4>3. QED
        BY <4>2 DEF Updates!USNext
    <3>2. CASE update_queue_ = <<>> /\ frunning_
      BY <2>11, <3>2, StopStep
         DEF AwaitUpdate, TakeOrWait, Closing, wsVars, clientVars, lifeVars
    <3>3. CASE update_queue_ = <<>> /\ ~frunning_
      <4>1. returned = received
        BY <3>3, ConcatEmptySeq DEF TypeOK, DeliveryInv
      <4>2. Updates!End(t)
        BY <2>11, <3>3, <4>1
           DEF AwaitUpdate, TakeOrWait, DeliveryInv, Updates!End, wsVars, clientVars, lifeVars
      <4>3. QED
        BY <4>2 DEF Updates!USNext
    <3>4. QED
      BY <3>1, <3>2, <3>3
  <2>12. ASSUME NEW t \in Thread, SpuriousQueueWake(t)
         PROVE  Updates!USNext
    BY <2>12, StopStep DEF SpuriousQueueWake, Closing, wsVars, clientVars, lifeVars
  <2>13. QED
    BY <2>2, <2>3, <2>4, <2>5, <2>6, <2>7, <2>8, <2>9, <2>10, <2>11, <2>12
       DEF Next, FeederThread, Exchange
<1>4. QED
  BY <1>1, <1>2, <1>3, FeederInvariant, PTL DEF Spec, Updates!USSafety

=============================================================================
