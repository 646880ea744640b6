------------------------------ MODULE UpdateStream ------------------------------
(***************************************************************************)
(* What BNBFeeder promises the threads that call getUpdate: every frame    *)
(* that arrived is handed out exactly once, in the order of arrival, as    *)
(* soon as somebody asks; the end of the stream is reported only after the *)
(* feeder was stopped and everything that had arrived was handed out.      *)
(***************************************************************************)
EXTENDS Naturals, Sequences

CONSTANTS Caller, Frame

VARIABLES
  arrived,  \* frames the exchange delivered, in order
  taken,    \* frames handed out, in order
  asking,   \* callers that are in getUpdate
  closing,  \* the feeder was stopped
  halted    \* the process is gone

usVars == <<arrived, taken, asking, closing, halted>>

USInit ==
  /\ arrived = <<>>
  /\ taken = <<>>
  /\ asking = {}
  /\ closing = FALSE
  /\ halted = FALSE

Arrive(f) ==
  /\ arrived' = Append(arrived, f)
  /\ UNCHANGED <<taken, asking, closing, halted>>

Ask(c) ==
  /\ c \notin asking
  /\ asking' = asking \cup {c}
  /\ UNCHANGED <<arrived, taken, closing, halted>>

Take(c) ==
  /\ ~halted
  /\ c \in asking
  /\ Len(taken) < Len(arrived)
  /\ taken' = Append(taken, arrived[Len(taken) + 1])
  /\ asking' = asking \ {c}
  /\ UNCHANGED <<arrived, closing, halted>>

End(c) ==
  /\ c \in asking
  /\ closing
  /\ taken = arrived
  /\ asking' = asking \ {c}
  /\ UNCHANGED <<arrived, taken, closing, halted>>

\* The process may also die while it is being stopped.
Stop == 
  /\ closing' \in {closing, TRUE}
  /\ halted' \in {halted, TRUE}
  /\ UNCHANGED <<arrived, taken, asking>>

USNext ==
  /\ ~halted
  /\ \/ \E f \in Frame : Arrive(f)
     \/ \E c \in Caller : Ask(c) \/ Take(c) \/ End(c)
     \/ Stop

USSafety == USInit /\ [][USNext]_usVars

\* A frame that is there is handed out to somebody who asks.
USSpec == USSafety /\ \A c \in Caller : WF_usVars(Take(c))

=============================================================================
