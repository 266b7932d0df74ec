----------------------------- MODULE StripeCalls -----------------------------
(***************************************************************************)
(* What a request thread is promised of a call to Stripe handed to the     *)
(* worker of backend/src/stripe_worker.rs: the call runs at most once; a   *)
(* result is only reported after it ran; a call that was refused, or given *)
(* up before it began, never runs.                                         *)
(***************************************************************************)
CONSTANT Calls    \* the calls made, each by one request thread

VARIABLES
  answer,  \* what the caller was told: nothing yet, a result, or an error
  stripe   \* what happened at Stripe: nothing, running, over

Answers == {"none", "result", "Busy", "Timeout", "Transport"}

Init ==
  /\ answer = [c \in Calls |-> "none"]
  /\ stripe = [c \in Calls |-> "no"]

\* The call starts at Stripe while its caller still waits.
Begin(c) ==
  /\ stripe[c] = "no" /\ answer[c] = "none"
  /\ stripe' = [stripe EXCEPT ![c] = "running"]
  /\ UNCHANGED answer

\* It ends, whether or not anybody still waits for it.
End(c) ==
  /\ stripe[c] = "running"
  /\ stripe' = [stripe EXCEPT ![c] = "over"]
  /\ UNCHANGED answer

\* The caller is told the result.
Report(c) ==
  /\ answer[c] = "none" /\ stripe[c] = "over"
  /\ answer' = [answer EXCEPT ![c] = "result"]
  /\ UNCHANGED stripe

\* The queue is full: only a call that never began can be refused.
Refuse(c) ==
  /\ answer[c] = "none" /\ stripe[c] = "no"
  /\ answer' = [answer EXCEPT ![c] = "Busy"]
  /\ UNCHANGED stripe

\* The caller is told that the time is up or the worker is gone: this says nothing
\* of what Stripe did or is still doing.
GiveUp(c, why) ==
  /\ answer[c] = "none"
  /\ answer' = [answer EXCEPT ![c] = why]
  /\ UNCHANGED stripe

Next == \E c \in Calls :
  \/ Begin(c) \/ End(c) \/ Report(c) \/ Refuse(c)
  \/ \E why \in {"Timeout", "Transport"} : GiveUp(c, why)

Spec == Init /\ [][Next]_<<answer, stripe>>
=============================================================================
