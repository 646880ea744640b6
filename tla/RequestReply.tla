------------------------------ MODULE RequestReply ------------------------------
(***************************************************************************)
(* What BNBBroker promises the threads that use it: a request is issued    *)
(* once, the exchange answers it at most once, and a thread that asks for  *)
(* the answer of a request gets the answer the exchange gave to that       *)
(* request, as soon as there is one.  A thread may be refused, but only    *)
(* when the request was never issued or is already answered.               *)
(***************************************************************************)
CONSTANTS Caller, Request, NoRequest, Reply, NoReply, Refused

VARIABLES
  issued,  \* requests issued so far
  reply,   \* the answer of each request, or NoReply
  asking,  \* the request whose answer each caller waits for, or NoRequest
  result   \* what each caller's last question returned

rrVars == <<issued, reply, asking, result>>

RRInit ==
  /\ issued = {}
  /\ reply = [r \in Request |-> NoReply]
  /\ asking = [c \in Caller |-> NoRequest]
  /\ result = [c \in Caller |-> NoReply]

Issue(r) ==
  /\ r \notin issued
  /\ issued' = issued \cup {r}
  /\ UNCHANGED <<reply, asking, result>>

Answer(r, v) ==
  /\ r \in issued
  /\ reply[r] = NoReply
  /\ reply' = [reply EXCEPT ![r] = v]
  /\ UNCHANGED <<issued, asking, result>>

Ask(c, r) ==
  /\ asking[c] = NoRequest
  /\ r \in issued
  /\ asking' = [asking EXCEPT ![c] = r]
  /\ UNCHANGED <<issued, reply, result>>

Refuse(c, r) ==
  /\ asking[c] = NoRequest
  /\ r \in issued => reply[r] # NoReply
  /\ result' = [result EXCEPT ![c] = Refused]
  /\ UNCHANGED <<issued, reply, asking>>

Deliver(c) ==
  /\ asking[c] # NoRequest
  /\ reply[asking[c]] # NoReply
  /\ result' = [result EXCEPT ![c] = reply[asking[c]]]
  /\ asking' = [asking EXCEPT ![c] = NoRequest]
  /\ UNCHANGED <<issued, reply>>

RRNext ==
  \/ \E r \in Request : Issue(r) \/ \E v \in Reply : Answer(r, v)
  \/ \E c \in Caller : Deliver(c) \/ \E r \in Request : Ask(c, r) \/ Refuse(c, r)

\* An answer that is there is delivered; nobody has to ask or to answer.
RRSafety == RRInit /\ [][RRNext]_rrVars
RRSpec   == RRSafety /\ \A c \in Caller : WF_rrVars(Deliver(c))

=============================================================================
