--------------------------- MODULE StreamsClientProofs ---------------------------
(***************************************************************************)
(* StreamsClient for any lists, limits and bounds: a list is cut into      *)
(* requests without loss or repetition, and the pending requests are those *)
(* whose answer is due.                                                    *)
(***************************************************************************)
EXTENDS StreamsClient, WebSocketListenerProofs

Writes  == {"write", "write1"}
Inserts == {"insert", "insert1"}

StreamsTypeOK ==
  /\ maxStreamsSubs_ \in Nat
  /\ pendingRequests_ \in SUBSET Request
  /\ nextRequestId_ \in 1..(MaxRequests + 1)
  /\ call \in {"none", "chunk"} \cup Writes \cup Inserts
  /\ names \in Nat
  /\ position \in Nat
  /\ chunkOf \in [Request -> SUBSET Nat]
  /\ unmatched \in SUBSET Request
  /\ raced \in BOOLEAN

\* Where the request in hand is: the texts of other threads are no requests, a
\* request is written once, and is somewhere once it was written.
Last == nextRequestId_ - 1

Written(r) == r < nextRequestId_ /\ (writer[Caller] # "idle" => r # Last)

RequestInv ==
  /\ call \in Writes <=> writer[Caller] # "idle"
  /\ writer[Caller] # "idle" => message[Caller] = Last
  /\ \A t \in Thread \ {Caller} : writer[t] # "idle" => message[t] \notin Request
  /\ call \in Writes \cup Inserts => Last \in Request \ pendingRequests_
  /\ \A r \in Request : r \in wire \cup dropped \cup unmatched => Written(r)
  /\ \A r \in Request : ~(r \in wire /\ r \in dropped)
  /\ call \in Inserts => Last \in wire \cup dropped \cup unmatched
  /\ PendingAccounted

\* What the ids returned so far cover, and what the request in hand adds.
ChunkInv ==
  /\ call \in {"chunk", "write", "insert"} =>
       /\ ids \subseteq Request
       /\ \A id \in ids : id < nextRequestId_
       /\ UNION {chunkOf[id] : id \in ids} = {s \in 1..names : s <= position}
       /\ \A id, other \in ids : id # other => chunkOf[id] \cap chunkOf[other] = {}
  /\ call \in {"write", "insert"} => Last \notin ids /\ chunkOf[Last] = Chunk(position)

StreamsInv == WSInv /\ StreamsTypeOK /\ RequestInv /\ ChunkInv

LEMMA InitStreamsInv == Init => StreamsInv
<1> SUFFICES ASSUME Init PROVE StreamsInv
  OBVIOUS
<1> USE NoMessageAssumption, CallerAssumption, RequestAssumption
    DEF Init, WSInit, Writes, Inserts, Request
<1>1. WSInv
  BY DEF WSInv, WSTypeOK, LinkInv
<1>2. StreamsTypeOK
  <2>1. chunkOf \in [Request -> SUBSET Nat]
    OBVIOUS
  <2>2. maxStreamsSubs_ \in Nat /\ 1 \in 1..(MaxRequests + 1)
    OBVIOUS
  <2>3. pendingRequests_ \in SUBSET Request /\ unmatched \in SUBSET Request
    OBVIOUS
  <2>4. QED
    BY <2>1, <2>2, <2>3 DEF StreamsTypeOK
<1>3. RequestInv
  BY DEF RequestInv, PendingAccounted
<1>4. ChunkInv
  BY DEF ChunkInv
<1>5. QED
  BY <1>1, <1>2, <1>3, <1>4 DEF StreamsInv

\* A step that leaves the requests of the class where they are.
LEMMA QuietStep ==
  ASSUME StreamsInv, WSInv', UNCHANGED streamsVars,
         writer'[Caller] = writer[Caller], message'[Caller] = message[Caller],
         \A t \in Thread \ {Caller} : writer'[t] # "idle" => message'[t] \notin Request,
         \A r \in Request : /\ r \in wire' <=> r \in wire
                            /\ r \in dropped' <=> r \in dropped
  PROVE  StreamsInv'
<1> USE DEF streamsVars, callVars, pendingVars
<1>1. StreamsTypeOK'
  BY DEF StreamsInv, StreamsTypeOK
<1>2. RequestInv'
  BY DEF StreamsInv, StreamsTypeOK, RequestInv, PendingAccounted, Written, Last
<1>3. ChunkInv'
  BY DEF StreamsInv, ChunkInv, Last, Chunk, ChunkSize
<1>4. QED
  BY <1>1, <1>2, <1>3 DEF StreamsInv

LEMMA BasePreserves ==
  ASSUME StreamsInv, BaseStep, UNCHANGED streamsVars
  PROVE  StreamsInv'
<1> USE CallerAssumption, RequestAssumption
<1>1. SharedStep
  BY DEF BaseStep, SharedStep, ClientThread, Request
<1>2. WSInv'
  BY <1>1, SharedStepPreserves DEF StreamsInv
<1>3. CASE UNCHANGED writeVars
  BY <1>2, <1>3, QuietStep DEF writeVars, StreamsInv, RequestInv
<1>4. ASSUME NEW t \in Thread \ {Caller}, Writing(t)
      PROVE  StreamsInv'
  BY <1>2, <1>4, QuietStep
     DEF Writing, WriteTest, WriteLock, WriteSend, StreamsInv, RequestInv, WSInv, WSTypeOK
<1>5. ASSUME NEW t \in Thread \ {Caller}, NEW m \in Message \ Request, WriteWS(t, m)
      PROVE  StreamsInv'
  BY <1>2, <1>5, QuietStep DEF WriteWS, StreamsInv, RequestInv, WSInv, WSTypeOK
<1>6. QED
  BY <1>3, <1>4, <1>5
     DEF BaseStep, ClientThread, Launch, Begin, Connect, StartClient, OnOpenPublish, RunReturns,
         OnOpen, OnFail, OnClose, Lose, StopClient, SpuriousWake
-----------------------------------------------------------------------------
(* The methods.                                                            *)

\* A request that is sent takes an id that nothing mentions yet.
LEMMA SendFresh ==
  ASSUME StreamsInv, NEW chunk \in SUBSET Nat, Send(chunk), UNCHANGED pendingVars,
         call \notin Writes \cup Inserts
  PROVE  /\ WSInv'
         /\ nextRequestId_ \in Request
         /\ writer'[Caller] = "test" /\ message'[Caller] = nextRequestId_
         /\ \A t \in Thread \ {Caller} : writer'[t] = writer[t] /\ message'[t] = message[t]
         /\ UNCHANGED <<wire, dropped>>
         /\ nextRequestId_' = nextRequestId_ + 1
         /\ nextRequestId_ \notin wire \cup dropped \cup unmatched \cup pendingRequests_
<1> USE CallerAssumption, RequestAssumption
<1>1. nextRequestId_ \in Request
  BY DEF StreamsInv, StreamsTypeOK, Send, Request
<1>2. SharedStep
  BY <1>1 DEF Send, SharedStep
<1>3. WSInv'
  BY <1>2, SharedStepPreserves DEF StreamsInv
<1>4. nextRequestId_ \notin wire \cup dropped \cup unmatched \cup pendingRequests_
  BY <1>1 DEF StreamsInv, StreamsTypeOK, RequestInv, PendingAccounted, Written
<1>5. QED
  BY <1>1, <1>3, <1>4 DEF Send, WriteWS, StreamsInv, WSInv, WSTypeOK

LEMMA CallStreamsPreserves ==
  ASSUME StreamsInv, NEW n \in ListLengths, CallStreams(n)
  PROVE  StreamsInv'
<1> USE RequestAssumption DEF CallStreams, pendingVars, wsVars, linkVars, clientVars, writeVars
<1>1. WSInv'
  BY DEF StreamsInv, WSInv, WSTypeOK, LinkInv
<1>2. StreamsTypeOK'
  BY DEF StreamsInv, StreamsTypeOK
<1>3. RequestInv'
  BY DEF StreamsInv, StreamsTypeOK, RequestInv, PendingAccounted, Written, Last, Writes, Inserts
<1>4. ChunkInv'
  BY DEF StreamsInv, ChunkInv
<1>5. QED
  BY <1>1, <1>2, <1>3, <1>4 DEF StreamsInv

LEMMA NextChunkPreserves ==
  ASSUME StreamsInv, NextChunk
  PROVE  StreamsInv'
<1> USE CallerAssumption, RequestAssumption DEF Writes, Inserts
<1>1. CASE position < names
  <2> DEFINE chunk == Chunk(position)
  <2>1. chunk \in SUBSET Nat
    BY DEF Chunk
  <2>2. Send(chunk) /\ call = "chunk" /\ call' = "write"
        /\ UNCHANGED <<maxStreamsSubs_, pendingVars, names, position, ids>>
    BY <1>1 DEF NextChunk
  <2> HIDE DEF chunk
  <2>3. /\ WSInv'
        /\ nextRequestId_ \in Request
        /\ writer'[Caller] = "test" /\ message'[Caller] = nextRequestId_
        /\ \A t \in Thread \ {Caller} : writer'[t] = writer[t] /\ message'[t] = message[t]
        /\ UNCHANGED <<wire, dropped>>
        /\ nextRequestId_' = nextRequestId_ + 1
        /\ nextRequestId_ \notin wire \cup dropped \cup unmatched \cup pendingRequests_
    BY <2>1, <2>2, SendFresh
  <2>4. chunkOf' = [chunkOf EXCEPT ![nextRequestId_] = chunk]
    BY <2>2 DEF Send
  <2>5. StreamsTypeOK'
    BY <2>1, <2>2, <2>3, <2>4 DEF StreamsInv, StreamsTypeOK, pendingVars, Request
  <2>6. RequestInv'
    BY <2>2, <2>3
       DEF StreamsInv, StreamsTypeOK, RequestInv, PendingAccounted, Written, Last, pendingVars,
           Request
  <2>7. ChunkInv'
    <3>1. \A id \in ids : id # nextRequestId_ /\ chunkOf'[id] = chunkOf[id]
      BY <2>2, <2>3, <2>4 DEF StreamsInv, StreamsTypeOK, ChunkInv, Request
    <3>2. /\ ids' = ids
          /\ ids \subseteq Request
          /\ \A id \in ids : id < nextRequestId_'
      BY <2>2, <2>3 DEF StreamsInv, StreamsTypeOK, ChunkInv, Request
    <3>3. UNION {chunkOf'[id] : id \in ids} = UNION {chunkOf[id] : id \in ids}
      BY <3>1
    <3>4. Last' = nextRequestId_ /\ chunkOf'[Last'] = Chunk(position)'
      BY <2>2, <2>3, <2>4 DEF StreamsInv, StreamsTypeOK, Last, chunk, Chunk, ChunkSize
    <3>5. QED
      BY <2>2, <3>1, <3>2, <3>3, <3>4 DEF StreamsInv, ChunkInv
  <2>8. QED
    BY <2>3, <2>5, <2>6, <2>7 DEF StreamsInv
<1>2. CASE ~(position < names)
  <2> USE <1>2 DEF NextChunk, pendingVars, wsVars, linkVars, clientVars, writeVars
  <2>1. WSInv'
    BY DEF StreamsInv, WSInv, WSTypeOK, LinkInv
  <2>2. StreamsTypeOK'
    BY DEF StreamsInv, StreamsTypeOK
  <2>3. RequestInv'
    BY DEF StreamsInv, StreamsTypeOK, RequestInv, PendingAccounted, Written, Last
  <2>4. ChunkInv'
    BY DEF StreamsInv, ChunkInv
  <2>5. QED
    BY <2>1, <2>2, <2>3, <2>4 DEF StreamsInv
<1>3. QED
  BY <1>1, <1>2

LEMMA CallSinglePreserves ==
  ASSUME StreamsInv, CallSingle
  PROVE  StreamsInv'
<1> USE CallerAssumption, RequestAssumption DEF Writes, Inserts
<1>1. Send({}) /\ call = "none" /\ call' = "write1"
      /\ UNCHANGED <<maxStreamsSubs_, pendingVars, names, position, ids>>
  BY DEF CallSingle
<1>2. /\ WSInv'
      /\ nextRequestId_ \in Request
      /\ writer'[Caller] = "test" /\ message'[Caller] = nextRequestId_
      /\ \A t \in Thread \ {Caller} : writer'[t] = writer[t] /\ message'[t] = message[t]
      /\ UNCHANGED <<wire, dropped>>
      /\ nextRequestId_' = nextRequestId_ + 1
      /\ nextRequestId_ \notin wire \cup dropped \cup unmatched \cup pendingRequests_
  BY <1>1, SendFresh
<1>3. chunkOf' = [chunkOf EXCEPT ![nextRequestId_] = {}]
  BY <1>1 DEF Send
<1>4. StreamsTypeOK'
  BY <1>1, <1>2, <1>3 DEF StreamsInv, StreamsTypeOK, pendingVars, Request
<1>5. RequestInv'
  BY <1>1, <1>2
     DEF StreamsInv, StreamsTypeOK, RequestInv, PendingAccounted, Written, Last, pendingVars,
         Request
<1>6. ChunkInv'
  BY <1>1 DEF ChunkInv
<1>7. QED
  BY <1>2, <1>4, <1>5, <1>6 DEF StreamsInv

LEMMA WritePreserves ==
  ASSUME StreamsInv, Write
  PROVE  StreamsInv'
<1> USE CallerAssumption, RequestAssumption DEF Writes, Inserts
<1>1. WSInv'
  BY SharedStepPreserves DEF StreamsInv, Write, SharedStep
<1>2. StreamsTypeOK'
  BY DEF StreamsInv, StreamsTypeOK, Write, pendingVars
<1>3. RequestInv'
  <2>1. CASE UNCHANGED <<writer[Caller] = "idle", message, wire, dropped>>
    BY <2>1
       DEF StreamsInv, StreamsTypeOK, WSInv, WSTypeOK, RequestInv, PendingAccounted, Written,
           Last, Write, Writing, WriteTest, WriteLock, WriteSend, pendingVars
  <2>2. CASE WriteSend(Caller)
    BY <2>2
       DEF StreamsInv, StreamsTypeOK, WSInv, WSTypeOK, LinkInv, RequestInv, PendingAccounted,
           Written, Last, Write, WriteSend, pendingVars, Request
  <2>3. QED
    BY <2>1, <2>2 DEF Write, Writing, WriteTest, WriteLock, StreamsInv, WSInv, WSTypeOK
<1>4. ChunkInv'
  BY DEF StreamsInv, ChunkInv, Write, Last, Chunk, ChunkSize, pendingVars
<1>5. QED
  BY <1>1, <1>2, <1>3, <1>4 DEF StreamsInv

\* The ids returned cover the next chunk too.
LEMMA InsertChunkPreserves ==
  ASSUME StreamsInv, InsertChunk
  PROVE  StreamsInv'
<1> USE CallerAssumption, RequestAssumption DEF Writes, Inserts
<1>1. WSInv'
  BY DEF StreamsInv, WSInv, WSTypeOK, LinkInv, InsertChunk, wsVars, linkVars, clientVars, writeVars
<1>2. ChunkSize \in Nat
  BY DEF StreamsInv, StreamsTypeOK, ChunkSize
<1>3. StreamsTypeOK'
  BY <1>2 DEF StreamsInv, StreamsTypeOK, RequestInv, InsertChunk, Insert, Last
<1>4. RequestInv'
  BY DEF StreamsInv, StreamsTypeOK, RequestInv, PendingAccounted, Written, Last, InsertChunk,
         Insert, wsVars, writeVars
<1>5. ChunkInv'
  <2>1. /\ ids' = ids \cup {Last} /\ chunkOf' = chunkOf /\ names' = names
        /\ position' = position + ChunkSize /\ call' = "chunk"
        /\ nextRequestId_' = nextRequestId_
    BY DEF InsertChunk, Last
  <2>2. /\ ids \subseteq Request /\ \A id \in ids : id < nextRequestId_
        /\ UNION {chunkOf[id] : id \in ids} = {s \in 1..names : s <= position}
        /\ \A id, other \in ids : id # other => chunkOf[id] \cap chunkOf[other] = {}
        /\ chunkOf[Last] = {s \in 1..names : position < s /\ s <= position + ChunkSize}
        /\ Last \in Request
    BY DEF StreamsInv, ChunkInv, RequestInv, InsertChunk, Chunk
  <2>3. Last < nextRequestId_
    BY DEF StreamsInv, StreamsTypeOK, Last
  <2>4. UNION {chunkOf[id] : id \in ids \cup {Last}} =
          {s \in 1..names : s <= position} \cup chunkOf[Last]
    BY <2>2
  <2>5. {s \in 1..names : s <= position} \cup chunkOf[Last] =
          {s \in 1..names : s <= position + ChunkSize}
    BY <1>2, <2>2 DEF StreamsInv, StreamsTypeOK
  <2>6. \A id \in ids : chunkOf[id] \cap chunkOf[Last] = {}
    <3>1. \A id \in ids : chunkOf[id] \subseteq {s \in 1..names : s <= position}
      BY <2>2
    <3>2. {s \in 1..names : s <= position} \cap chunkOf[Last] = {}
      BY <2>2 DEF StreamsInv, StreamsTypeOK
    <3>3. QED
      BY <3>1, <3>2
  <2>7. \A id, other \in ids \cup {Last} : id # other => chunkOf[id] \cap chunkOf[other] = {}
    BY <2>2, <2>6
  <2>8. QED
    BY <2>1, <2>2, <2>3, <2>4, <2>5, <2>7 DEF ChunkInv
<1>6. QED
  BY <1>1, <1>3, <1>4, <1>5 DEF StreamsInv

LEMMA InsertSinglePreserves ==
  ASSUME StreamsInv, InsertSingle
  PROVE  StreamsInv'
<1> USE CallerAssumption, RequestAssumption DEF Writes, Inserts
<1>1. WSInv'
  BY DEF StreamsInv, WSInv, WSTypeOK, LinkInv, InsertSingle, wsVars, linkVars, clientVars,
         writeVars
<1>2. StreamsTypeOK'
  BY DEF StreamsInv, StreamsTypeOK, RequestInv, InsertSingle, Insert, Last
<1>3. RequestInv'
  BY DEF StreamsInv, StreamsTypeOK, RequestInv, PendingAccounted, Written, Last, InsertSingle,
         Insert, wsVars, writeVars
<1>4. ChunkInv'
  BY DEF ChunkInv, InsertSingle
<1>5. QED
  BY <1>1, <1>2, <1>3, <1>4 DEF StreamsInv
-----------------------------------------------------------------------------
(* The handlers.                                                           *)

LEMMA HandlerPreserves ==
  ASSUME StreamsInv, NEW id \in Request,
         OnResponse(id) \/ OnUnmatched(id) \/ OnResponseRacing(id)
  PROVE  StreamsInv'
<1> USE CallerAssumption, RequestAssumption
    DEF OnResponse, OnUnmatched, OnResponseRacing, callVars, Writes, Inserts
<1>1. WSInv'
  BY SharedStepPreserves DEF StreamsInv, SharedStep
<1>2. StreamsTypeOK'
  BY DEF StreamsInv, StreamsTypeOK
<1>3. RequestInv'
  <2> USE DEF StreamsInv, StreamsTypeOK, RequestInv, PendingAccounted, Written, Last, PeerAnswers,
              Receive
  <2>1. CASE OnResponse(id)
    BY <2>1
  <2>2. CASE OnUnmatched(id)
    BY <2>2
  <2>3. CASE OnResponseRacing(id)
    BY <2>3
  <2>4. QED
    BY <2>1, <2>2, <2>3
<1>4. ChunkInv'
  BY DEF StreamsInv, ChunkInv, Last, Chunk, ChunkSize
<1>5. QED
  BY <1>1, <1>2, <1>3, <1>4 DEF StreamsInv
-----------------------------------------------------------------------------
LEMMA NextPreserves ==
  ASSUME StreamsInv, [Next]_vars
  PROVE  StreamsInv'
<1>1. CASE UNCHANGED vars
  <2>1. WSInv'
    BY <1>1 DEF StreamsInv, WSInv, WSTypeOK, LinkInv, vars, wsVars, linkVars, clientVars, writeVars
  <2>2. QED
    BY <1>1, <2>1, QuietStep DEF StreamsInv, RequestInv, vars, wsVars, writeVars
<1>2. ASSUME NEW m \in Message \ Request, PeerAnswers(m), UNCHANGED streamsVars
      PROVE  StreamsInv'
  <2>1. WSInv'
    BY <1>2, SharedStepPreserves DEF StreamsInv, SharedStep
  <2>2. QED
    BY <1>2, <2>1, QuietStep DEF PeerAnswers, Receive, StreamsInv, RequestInv
<1>3. QED
  BY <1>1, <1>2, BasePreserves, CallStreamsPreserves, CallSinglePreserves, NextChunkPreserves,
     WritePreserves, InsertChunkPreserves, InsertSinglePreserves, HandlerPreserves
     DEF Next, Calling

THEOREM StreamsInvariant == Spec => []StreamsInv
BY InitStreamsInv, NextPreserves, PTL DEF Spec

\* subscribeToStreams requests every name of any list once, whatever the limit.
THEOREM StreamsEveryNameOnce == Spec => []EveryNameOnce
<1>1. StreamsInv => EveryNameOnce
  BY DEF StreamsInv, StreamsTypeOK, ChunkInv, EveryNameOnce
<1>2. QED
  BY <1>1, StreamsInvariant, PTL

\* The pending requests are those whose answer is due or did not match.
THEOREM StreamsPendingAccounted == Spec => []PendingAccounted
<1>1. StreamsInv => PendingAccounted
  BY DEF StreamsInv, RequestInv
<1>2. QED
  BY <1>1, StreamsInvariant, PTL

\* Under StreamsClient too, a handle is stored before it is used.
THEOREM StreamsHandleStored == Spec => []HandleBeforeFlag
<1>1. StreamsInv => HandleBeforeFlag
  BY DEF StreamsInv, WSInv, LinkInv, HandleBeforeFlag
<1>2. QED
  BY <1>1, StreamsInvariant, PTL

=============================================================================
