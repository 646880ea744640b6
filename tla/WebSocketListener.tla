--------------------------- MODULE WebSocketListener ---------------------------
(***************************************************************************)
(* The base class of every exchange connection (common/WebSocketListener): *)
(* one connection of a websocketpp client, the thread that runs the        *)
(* client's event loop, and the threads that write to the connection.      *)
(*                                                                         *)
(* The class is used through its subclasses; WSNext is its most general    *)
(* client: any thread may write any message at any time, the owner may     *)
(* stop the client, and the network may open, refuse or close the          *)
(* connection.  A critical section of connectionMutex_ never blocks while  *)
(* the mutex is held (a wait releases it), so each is one atomic step.     *)
(***************************************************************************)
EXTENDS Integers

CONSTANTS Thread,    \* the threads that call writeWS
          Message,   \* the texts they write
          NoMessage  \* the argument of a thread that is not in writeWS

ASSUME NoMessageAssumption == NoMessage \notin Message

VARIABLES
  isConnected_,     \* the flag of the same name
  hdl_,             \* TRUE once hdl_ holds the handle of the connection
  connectionCond_,  \* threads blocked in connectionCond_.wait
  con_,             \* state of the connection: "none" while con_ is null
  stopped,          \* the io_service was stopped, or ran out of work
  thread,           \* where the thread that runs the client is ("notify": in a
                    \* handler of a subclass)
  proc,             \* "up", or how the process died: "nullcon" on a null con_,
                    \* "terminate" in std::terminate, "abort" in an
                    \* assertion (the last two in a subclass)
  writer,           \* where each thread is in writeWS
  message,          \* the argument of each thread's writeWS
  wire,             \* messages the connection accepted and the peer has not answered
  dropped           \* messages whose send threw: logged and forgotten

linkVars   == <<isConnected_, hdl_, connectionCond_>>
clientVars == <<con_, stopped, thread, proc>>
writeVars  == <<writer, message, wire, dropped>>
wsVars     == <<linkVars, clientVars, writeVars>>

WSTypeOK ==
  /\ isConnected_ \in BOOLEAN
  /\ hdl_ \in BOOLEAN
  /\ connectionCond_ \in SUBSET Thread
  /\ con_ \in {"none", "connecting", "open", "closed", "failed"}
  /\ stopped \in BOOLEAN
  /\ thread \in {"none", "spawned", "connect", "start", "run", "opened", "notify",
                 "exited"}
  /\ proc \in {"up", "nullcon", "terminate", "abort"}
  /\ writer \in [Thread -> {"idle", "test", "lock", "send"}]
  /\ message \in [Thread -> Message \cup {NoMessage}]
  /\ wire \in SUBSET Message
  /\ dropped \in SUBSET Message

WSInit ==
  /\ isConnected_ = FALSE
  /\ hdl_ = FALSE
  /\ connectionCond_ = {}
  /\ con_ = "none"
  /\ stopped = FALSE
  /\ thread = "none"
  /\ proc = "up"
  /\ writer = [t \in Thread |-> "idle"]
  /\ message = [t \in Thread |-> NoMessage]
  /\ wire = {}
  /\ dropped = {}
-----------------------------------------------------------------------------
(* The thread that runs the client.                                        *)

\* start() of the subclass creates the thread.
Launch ==
  /\ thread = "none"
  /\ thread' = "spawned"
  /\ UNCHANGED <<con_, stopped, proc, linkVars, writeVars>>

\* The thread function has set the subclass's running flag.
Begin ==
  /\ thread = "spawned"
  /\ thread' = "connect"
  /\ UNCHANGED <<con_, stopped, proc, linkVars, writeVars>>

\* connect: get_connection rejects the URI and con_ stays null, or the
\* handshake is started.
Connect ==
  /\ thread = "connect"
  /\ thread' = "start"
  /\ con_' \in {"none", "connecting"}
  /\ UNCHANGED <<stopped, proc, linkVars, writeVars>>

\* startClient: the log statement dereferences con_ before the event loop runs.
StartClient ==
  /\ thread = "start"
  /\ IF con_ = "none"
     THEN proc' = "nullcon" /\ UNCHANGED thread
     ELSE thread' = "run" /\ UNCHANGED proc
  /\ UNCHANGED <<con_, stopped, linkVars, writeVars>>

\* The event loop dispatches a handler only while it is not stopped.
Dispatching == thread = "run" /\ ~stopped

\* Mutant: onOpen raises the flag first and stores the handle last.
OnOpenFlagFirst ==
  /\ Dispatching
  /\ con_ = "connecting"
  /\ con_' = "open"
  /\ isConnected_' = TRUE
  /\ thread' = "opened"
  /\ UNCHANGED <<stopped, proc, hdl_, connectionCond_, writeVars>>

\* onOpen, first statement: the handle is stored without the mutex.
OnOpen ==
  /\ Dispatching
  /\ con_ = "connecting"
  /\ con_' = "open"
  /\ hdl_' = TRUE
  /\ thread' = "opened"
  /\ UNCHANGED <<stopped, proc, isConnected_, connectionCond_, writeVars>>

\* Mutant: the flag is raised and nobody is notified.
OnOpenPublishSilently ==
  /\ thread = "opened"
  /\ isConnected_' = TRUE
  /\ thread' = "run"
  /\ UNCHANGED <<con_, stopped, proc, hdl_, connectionCond_, writeVars>>

\* onOpen, the rest: the flag is set and every waiter notified under the mutex.
OnOpenPublish ==
  /\ thread = "opened"
  /\ isConnected_' = TRUE
  /\ connectionCond_' = {}
  /\ thread' = "run"
  /\ UNCHANGED <<con_, stopped, proc, hdl_, writeVars>>

\* The network takes the connection from one state to another.
Lose(before, after) ==
  /\ Dispatching
  /\ con_ = before
  /\ con_' = after
  /\ UNCHANGED <<thread, linkVars, writeVars>>

\* onFail and onClose of the base class only log: isConnected_ and hdl_ keep
\* their values.
OnFail  == Lose("connecting", "failed") /\ UNCHANGED <<stopped, proc>>
OnClose == Lose("open", "closed") /\ UNCHANGED <<stopped, proc>>

\* Mutant: run() notices only that the connection is gone, not that it was stopped.
RunReturnsOnCloseOnly ==
  /\ thread = "run"
  /\ con_ \in {"closed", "failed"}
  /\ stopped' = TRUE
  /\ thread' = "exited"
  /\ UNCHANGED <<con_, proc, linkVars, writeVars>>

\* run() returns once the client is stopped or has nothing left to do, and
\* nobody restarts the io_service afterwards.
RunReturns ==
  /\ thread = "run"
  /\ stopped \/ con_ \in {"closed", "failed"}
  /\ stopped' = TRUE
  /\ thread' = "exited"
  /\ UNCHANGED <<con_, proc, linkVars, writeVars>>

StopClient ==
  /\ stopped' = TRUE
  /\ UNCHANGED <<con_, thread, proc, linkVars, writeVars>>
-----------------------------------------------------------------------------
(* writeWS, called by thread t with message m.                             *)

WriteWS(t, m) ==
  /\ writer[t] = "idle"
  /\ writer' = [writer EXCEPT ![t] = "test"]
  /\ message' = [message EXCEPT ![t] = m]
  /\ UNCHANGED <<wire, dropped, linkVars, clientVars>>

\* The integer that ~isConnected_ promotes to and complements.
Complement(flag) == -1 - (IF flag THEN 1 ELSE 0)

\* if (~isConnected_): take the lock unless the complement is zero.
WriteTest(t) ==
  /\ writer[t] = "test"
  /\ writer' = [writer EXCEPT ![t] =
                  IF Complement(isConnected_) # 0 THEN "lock" ELSE "send"]
  /\ UNCHANGED <<message, wire, dropped, linkVars, clientVars>>

\* Mutant: the writer takes the lock and does not wait for the connection.
WriteLockNoWait(t) ==
  /\ writer[t] = "lock"
  /\ writer' = [writer EXCEPT ![t] = "send"]
  /\ UNCHANGED <<message, wire, dropped, linkVars, clientVars>>

\* connectionCond_.wait(lock, isConnected_): the predicate is evaluated under
\* the mutex, at the call and after each wake-up.
WriteLock(t) ==
  /\ writer[t] = "lock"
  /\ t \notin connectionCond_
  /\ IF isConnected_
     THEN /\ writer' = [writer EXCEPT ![t] = "send"]
          /\ UNCHANGED connectionCond_
     ELSE /\ connectionCond_' = connectionCond_ \cup {t}
          /\ UNCHANGED writer
  /\ UNCHANGED <<message, wire, dropped, isConnected_, hdl_, clientVars>>

\* A condition variable may wake a waiter that nobody notified.
SpuriousWake(t) ==
  /\ t \in connectionCond_
  /\ connectionCond_' = connectionCond_ \ {t}
  /\ UNCHANGED <<isConnected_, hdl_, clientVars, writeVars>>

\* Mutant: the argument is cleared before it is sent.
WriteSendCleared(t) ==
  /\ writer[t] = "send"
  /\ writer' = [writer EXCEPT ![t] = "idle"]
  /\ message' = [message EXCEPT ![t] = NoMessage]
  /\ wire' = wire \cup {message'[t]}
  /\ UNCHANGED <<dropped, linkVars, clientVars>>

\* send throws unless hdl_ names an open connection; writeWS logs and returns.
WriteSend(t) ==
  /\ writer[t] = "send"
  /\ writer' = [writer EXCEPT ![t] = "idle"]
  /\ message' = [message EXCEPT ![t] = NoMessage]
  /\ IF hdl_ /\ con_ = "open"
     THEN wire' = wire \cup {message[t]} /\ UNCHANGED dropped
     ELSE dropped' = dropped \cup {message[t]} /\ UNCHANGED wire
  /\ UNCHANGED <<linkVars, clientVars>>

\* The answer of the peer to message m reaches onMessage of the subclass.
Receive(m) ==
  /\ Dispatching
  /\ con_ = "open"
  /\ m \in wire
  /\ wire' = wire \ {m}
  /\ UNCHANGED <<writer, message, dropped, linkVars, con_, stopped, thread>>

PeerAnswers(m) == Receive(m) /\ UNCHANGED proc
-----------------------------------------------------------------------------
ClientThread == Begin \/ Connect \/ StartClient \/ OnOpenPublish \/ RunReturns
Network      == OnOpen \/ OnFail \/ OnClose \/ (\E m \in Message : PeerAnswers(m))
Writing(t)   == WriteTest(t) \/ WriteLock(t) \/ WriteSend(t)

WSNext ==
  /\ proc = "up"
  /\ \/ Launch
     \/ ClientThread
     \/ Network
     \/ ~stopped /\ StopClient
     \/ \E t \in Thread : \/ Writing(t)
                          \/ SpuriousWake(t)
                          \/ \E m \in Message : WriteWS(t, m)

\* The operating system schedules every thread that can run; the network and
\* the callers owe nothing.
WSFairness ==
  /\ WF_wsVars(proc = "up" /\ ClientThread)
  /\ \A t \in Thread : WF_wsVars(proc = "up" /\ Writing(t))

WSSpec == WSInit /\ [][WSNext]_wsVars /\ WSFairness
-----------------------------------------------------------------------------
(* Properties.                                                             *)

\* A thread that passes the wait of writeWS finds a handle that has been
\* stored, and a connection that is or was open: onOpen stores hdl_ before it
\* publishes isConnected_, although it stores it without the mutex.
HandleBeforeFlag ==
  /\ isConnected_ => hdl_
  /\ \A t \in Thread : writer[t] = "send" => hdl_ /\ con_ \in {"open", "closed"}

\* writeWS gives a message up only when the connection has been open and was
\* closed; a message written before the connection opens is never lost.
DroppedOnlyAfterClose == dropped # {} => con_ = "closed"

\* No wake-up is lost: once the connection opens, every writeWS in progress
\* returns, whether it blocked before, during or after onOpen.
WritersReleased ==
  \A t \in Thread : (writer[t] = "lock" /\ con_ = "open") ~> writer[t] = "idle"

\* A stop is never lost: stopClient, even when it overtakes the new thread on
\* its way to run(), ends the thread, so that the join in stop() returns.
StoppedThreadExits ==
  (stopped /\ thread # "none") ~> (thread = "exited" \/ proc # "up")

=============================================================================
