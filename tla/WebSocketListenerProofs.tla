------------------------ MODULE WebSocketListenerProofs ------------------------
(***************************************************************************)
(* Type correctness of WebSocketListener, and that a writer never uses a   *)
(* handle before onOpen has stored it, for any number of threads and       *)
(* messages.  The lemmas about single actions are stated for the actions,  *)
(* not for WSNext, so that the proofs about a subclass can cite them.      *)
(***************************************************************************)
EXTENDS WebSocketListener, TLAPS

\* The inductive invariant: the handle is there exactly when the connection is
\* or was open, a writer past the wait has seen isConnected_, and nothing has
\* touched the connection before the client thread calls connect.
LinkInv ==
  /\ hdl_ <=> con_ \in {"open", "closed"}
  /\ isConnected_ => hdl_
  /\ thread \in {"none", "spawned", "connect"} => con_ = "none"
  /\ thread = "opened" => con_ = "open"
  /\ \A t \in Thread : /\ writer[t] = "send" => isConnected_
                       /\ writer[t] # "idle" => message[t] \in Message
  /\ dropped # {} => con_ = "closed"

WSInv == WSTypeOK /\ LinkInv

\* The actions that every subclass takes over as they are.
SharedStep ==
  \/ Launch \/ Begin \/ Connect \/ StartClient \/ OnOpen \/ OnOpenPublish
  \/ OnFail \/ OnClose \/ RunReturns \/ StopClient
  \/ \E t \in Thread : Writing(t) \/ SpuriousWake(t)
  \/ \E m \in Message : PeerAnswers(m) \/ \E t \in Thread : WriteWS(t, m)

\* Each action, written out on the level of the variables.
LEMMA SharedStepPreserves ==
  ASSUME WSInv, SharedStep
  PROVE  WSInv'
<1> USE NoMessageAssumption DEF WSInv, WSTypeOK, LinkInv, linkVars, clientVars, writeVars
<1>1. CASE Launch
  BY <1>1 DEF Launch
<1>2. CASE Begin
  BY <1>2 DEF Begin
<1>3. CASE Connect
  BY <1>3 DEF Connect
<1>4. CASE StartClient
  BY <1>4 DEF StartClient
<1>5. CASE OnOpen
  BY <1>5 DEF OnOpen, Dispatching
<1>6. CASE OnOpenPublish
  BY <1>6 DEF OnOpenPublish
<1>7. CASE OnFail
  BY <1>7 DEF OnFail, Lose, Dispatching
<1>8. CASE OnClose
  BY <1>8 DEF OnClose, Lose, Dispatching
<1>9. CASE RunReturns
  BY <1>9 DEF RunReturns
<1>10. CASE StopClient
  BY <1>10 DEF StopClient
<1>11. ASSUME NEW t \in Thread, Writing(t)
       PROVE  WSInv'
  <2>1. CASE WriteTest(t)
    BY <2>1 DEF WriteTest, Complement
  <2>2. CASE WriteLock(t)
    BY <2>2 DEF WriteLock
  <2>3. CASE WriteSend(t)
    BY <2>3 DEF WriteSend
  <2>4. QED
    BY <1>11, <2>1, <2>2, <2>3 DEF Writing
<1>12. ASSUME NEW t \in Thread, SpuriousWake(t)
       PROVE  WSInv'
  BY <1>12 DEF SpuriousWake
<1>13. ASSUME NEW m \in Message, PeerAnswers(m)
       PROVE  WSInv'
  BY <1>13 DEF PeerAnswers, Receive, Dispatching
<1>14. ASSUME NEW m \in Message, NEW t \in Thread, WriteWS(t, m)
       PROVE  WSInv'
  BY <1>14 DEF WriteWS
<1>15. QED
  BY <1>1, <1>2, <1>3, <1>4, <1>5, <1>6, <1>7, <1>8, <1>9, <1>10, <1>11, <1>12,
     <1>13, <1>14 DEF SharedStep

\* The client of WSSpec keeps the invariant from the first state on.
THEOREM LinkInvariant == WSSpec => []WSInv
<1>1. WSInit => WSInv
  BY NoMessageAssumption DEF WSInit, WSInv, WSTypeOK, LinkInv
<1>2. WSInv /\ [WSNext]_wsVars => WSInv'
  <2> SUFFICES ASSUME WSInv, [WSNext]_wsVars
               PROVE  WSInv'
    OBVIOUS
  <2>1. CASE UNCHANGED wsVars
    BY <2>1 DEF WSInv, WSTypeOK, LinkInv, wsVars, linkVars, clientVars, writeVars
  <2>2. CASE WSNext
    <3>1. SharedStep
      BY <2>2 DEF WSNext, SharedStep, ClientThread, Network
    <3>2. QED
      BY <3>1, SharedStepPreserves
  <2>3. QED
    BY <2>1, <2>2
<1>3. QED
  BY <1>1, <1>2, PTL DEF WSSpec

\* Every variable of WebSocketListener keeps to its type, for any threads and
\* messages.
THEOREM ListenerTypeCorrect == WSSpec => []WSTypeOK
<1>1. WSInv => WSTypeOK
  BY DEF WSInv
<1>2. QED
  BY <1>1, LinkInvariant, PTL

\* A thread that passes the wait of writeWS uses a handle that was stored.
THEOREM ListenerHandleStored == WSSpec => []HandleBeforeFlag
<1>1. WSInv => HandleBeforeFlag
  BY DEF WSInv, LinkInv, HandleBeforeFlag
<1>2. QED
  BY <1>1, LinkInvariant, PTL

\* writeWS gives up a message only after the connection was lost.
THEOREM ListenerKeepsMessages == WSSpec => []DroppedOnlyAfterClose
<1>1. WSInv => DroppedOnlyAfterClose
  BY DEF WSInv, LinkInv, DroppedOnlyAfterClose
<1>2. QED
  BY <1>1, LinkInvariant, PTL

=============================================================================
