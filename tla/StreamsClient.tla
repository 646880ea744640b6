------------------------------ MODULE StreamsClient ------------------------------
(***************************************************************************)
(* The streams connection meant to replace the feeder's own code           *)
(* (bnb/marketConnection/ws/StreamsClient): Caller subscribes to streams,  *)
(* unsubscribes, lists its subscriptions and sets properties, one call at  *)
(* a time (the class has no lock); the client thread matches the answers.  *)
(* The other threads use writeWS, which is public, for texts of their own. *)
(*                                                                         *)
(* A stream is its position in the list of names, a request is its id.     *)
(* The constructor is declared and defined nowhere: maxStreamsSubs_ is     *)
(* whatever a definition would set it to.                                  *)
(***************************************************************************)
EXTENDS WebSocketListener, FiniteSets

CONSTANTS Caller,       \* the thread that calls the methods
          ListLengths,  \* lengths of the lists of names
          Limits,       \* values of maxStreamsSubs_
          MaxRequests   \* bound on request ids

Request == 1..MaxRequests

ASSUME CallerAssumption == Caller \in Thread
ASSUME RequestAssumption ==
  /\ ListLengths \subseteq Nat /\ Limits \subseteq Nat
  /\ MaxRequests \in Nat
  /\ Request \subseteq Message

VARIABLES
  maxStreamsSubs_,
  pendingRequests_,
  nextRequestId_,
  call,        \* where Caller is in a method
  names,       \* the number of names passed to sendChunckedRequest
  position,    \* i in its loop
  ids,         \* the ids that the call in progress, or the last one, returns
  chunkOf,     \* history: the streams each request names
  unmatched,   \* history: requests whose answer matched no pending id
  raced        \* history: an answer met the insertion of its id

pendingVars == <<pendingRequests_, unmatched, raced>>
callVars    == <<call, names, position, ids, chunkOf, nextRequestId_>>
streamsVars == <<maxStreamsSubs_, pendingVars, callVars>>
vars        == <<wsVars, streamsVars>>

Init ==
  /\ WSInit
  /\ maxStreamsSubs_ \in Limits
  /\ pendingRequests_ = {}
  /\ nextRequestId_ = 1
  /\ call = "none"
  /\ names = 0
  /\ position = 0
  /\ ids = {}
  /\ chunkOf = [r \in Request |-> {}]
  /\ unmatched = {}
  /\ raced = FALSE
-----------------------------------------------------------------------------
(* The methods.                                                            *)

\* subscribeToStreams and unSubscribeToStreams: the method is the only text in
\* which their requests differ.
CallStreams(n) ==
  /\ call = "none"
  /\ call' = "chunk"
  /\ names' = n
  /\ position' = 0
  /\ ids' = {}
  /\ UNCHANGED <<maxStreamsSubs_, pendingVars, chunkOf, nextRequestId_, wsVars>>

\* A request takes the next id and goes to writeWS.
Send(chunk) ==
  /\ nextRequestId_ <= MaxRequests
  /\ WriteWS(Caller, nextRequestId_)
  /\ chunkOf' = [chunkOf EXCEPT ![nextRequestId_] = chunk]
  /\ nextRequestId_' = nextRequestId_ + 1

ChunkSize == maxStreamsSubs_ \div 4

\* Mutant: the end of a chunk is included twice.
ChunkLong(i) == {s \in 1..names : i < s /\ s <= i + ChunkSize + 1}

Chunk(i) == {s \in 1..names : i < s /\ s <= i + ChunkSize}

\* One turn of the loop; unlike the feeder's, the list is not cut at the limit.
NextChunk ==
  /\ call = "chunk"
  /\ IF position < names
     THEN Send(Chunk(position)) /\ call' = "write"
     ELSE call' = "none" /\ UNCHANGED <<chunkOf, nextRequestId_, wsVars>>
  /\ UNCHANGED <<maxStreamsSubs_, pendingVars, names, position, ids>>

\* listSubscriptions and setProperty: one request, without names.
CallSingle ==
  /\ call = "none"
  /\ Send({})
  /\ call' = "write1"
  /\ UNCHANGED <<maxStreamsSubs_, pendingVars, names, position, ids>>

Write ==
  /\ call \in {"write", "write1"}
  /\ Writing(Caller)
  /\ call' = IF writer'[Caller] # "idle" THEN call
             ELSE IF call = "write" THEN "insert" ELSE "insert1"
  /\ UNCHANGED <<maxStreamsSubs_, pendingVars, names, position, ids, chunkOf,
                 nextRequestId_>>

\* Mutant: the id after the request's is inserted.
InsertNextId ==
  /\ pendingRequests_' = pendingRequests_ \cup {nextRequestId_}
  /\ UNCHANGED <<unmatched, raced>>

\* The id is inserted after the request was sent, without a lock.
Insert ==
  /\ pendingRequests_' = pendingRequests_ \cup {nextRequestId_ - 1}
  /\ UNCHANGED <<unmatched, raced>>

InsertChunk ==
  /\ call = "insert"
  /\ Insert
  /\ ids' = ids \cup {nextRequestId_ - 1}
  /\ position' = position + ChunkSize
  /\ call' = "chunk"
  /\ UNCHANGED <<maxStreamsSubs_, names, chunkOf, nextRequestId_, wsVars>>

\* listSubscriptions and setProperty end without a return statement: the caller
\* gets whatever number the register of the result holds.
InsertSingle ==
  /\ call = "insert1"
  /\ Insert
  /\ \E id \in Request \cup {0} : ids' = {id}
  /\ call' = "none"
  /\ UNCHANGED <<maxStreamsSubs_, names, position, chunkOf, nextRequestId_, wsVars>>
-----------------------------------------------------------------------------
(* The handlers, on the client thread.                                     *)

\* The answer to a pending request, be it a result or an error.
OnResponse(id) ==
  /\ PeerAnswers(id)
  /\ id \in pendingRequests_
  /\ pendingRequests_' = pendingRequests_ \ {id}
  /\ UNCHANGED <<maxStreamsSubs_, unmatched, raced, callVars>>

\* An answer that is not found, or that names no id or no number (the exception
\* is logged), is ignored.
OnUnmatched(id) ==
  /\ PeerAnswers(id)
  /\ unmatched' = unmatched \cup {id}
  /\ UNCHANGED <<maxStreamsSubs_, pendingRequests_, raced, callVars>>

\* The lookup races with the insertion: the set may lose elements.
OnResponseRacing(id) ==
  /\ call \in {"insert", "insert1"}
  /\ PeerAnswers(id)
  /\ \E lost \in SUBSET pendingRequests_ : pendingRequests_' = pendingRequests_ \ lost
  /\ unmatched' = unmatched \cup {id}
  /\ raced' = TRUE
  /\ UNCHANGED <<maxStreamsSubs_, callVars>>
-----------------------------------------------------------------------------
Calling == NextChunk \/ Write \/ InsertChunk \/ InsertSingle

\* What the base class does by itself: its thread, the network, and the threads
\* that only write; onClose and onFail do nothing more than the base class's.
BaseStep ==
  \/ Launch
  \/ ClientThread
  \/ OnOpen \/ OnFail \/ OnClose
  \/ ~stopped /\ StopClient
  \/ \E t \in Thread : SpuriousWake(t)
  \/ \E t \in Thread \ {Caller} : \/ Writing(t)
                                  \/ \E m \in Message \ Request : WriteWS(t, m)

Next ==
  /\ proc = "up"
  /\ \/ BaseStep /\ UNCHANGED streamsVars
     \/ \E n \in ListLengths : CallStreams(n)
     \/ CallSingle
     \/ Calling
     \/ \E m \in Message \ Request : PeerAnswers(m) /\ UNCHANGED streamsVars
     \/ \E id \in Request : OnResponse(id) \/ OnUnmatched(id) \/ OnResponseRacing(id)

\* The threads that can run are scheduled; callers and exchange owe nothing.
Fairness ==
  /\ WF_vars(proc = "up" /\ ClientThread /\ UNCHANGED streamsVars)
  /\ WF_vars(proc = "up" /\ Calling)
  /\ \A t \in Thread \ {Caller} :
       WF_vars(proc = "up" /\ Writing(t) /\ UNCHANGED streamsVars)

Spec == Init /\ [][Next]_vars /\ Fairness
-----------------------------------------------------------------------------
(* Properties.                                                             *)

\* The ids that subscribeToStreams returns name, between them, every stream of
\* the list, and each stream through one request, however answers and failed
\* writes interleave with the loop.
EveryNameOnce ==
  (call = "chunk" /\ position >= names) =>
    /\ UNION {chunkOf[id] : id \in ids} = 1..names
    /\ \A id, other \in ids : id # other => chunkOf[id] \cap chunkOf[other] = {}

\* Once its call is past the insertion, a request is pending for as long as its
\* answer is due or its write was given up (until an answer met an insertion),
\* and stays pending after it was answered only if that answer was not matched.
PendingAccounted ==
  /\ \A id \in pendingRequests_ : id \in wire \cup dropped \cup unmatched
  /\ ~raced => \A id \in Request \cap (wire \cup dropped) :
       id \in pendingRequests_ \/ (id = nextRequestId_ - 1 /\ call \in {"insert", "insert1"})

=============================================================================
