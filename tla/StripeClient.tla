------------------------------ MODULE StripeClient ------------------------------
(***************************************************************************)
(* The calls to Stripe themselves (backend/src/stripe.rs): every attempt   *)
(* may be answered, turned away, or lost on the way out or back; a call is *)
(* tried again with growing pauses; and one circuit breaker, shared by all *)
(* the worker threads, turns calls away after a run of failed ones.        *)
(*                                                                         *)
(* What runs a call, and what its caller does meanwhile, is StripeWorker.  *)
(* Time is counted in ticks of BASE_BACKOFF_MS and kept as what is left of *)
(* each pause.                                                             *)
(***************************************************************************)
EXTENDS Naturals, Sequences, FiniteSets

CONSTANTS
  Calls,             \* calls made, each on a worker thread
  MaxRetries,        \* MAX_RETRIES
  MaxRetryAfter,     \* MAX_RETRY_AFTER_SECS
  FailureThreshold,  \* CIRCUIT_FAILURE_THRESHOLD
  Cooldown           \* CIRCUIT_COOLDOWN

ASSUME ClientAssumption ==
  /\ MaxRetries \in Nat /\ MaxRetryAfter \in Nat
  /\ FailureThreshold \in Nat \ {0} /\ Cooldown \in Nat \ {0}

\* The operations by what they look for: customer_email and price_id_for_lookup_key a
\* field that may be missing, retrieve_subscription the whole answer, and the two that
\* create a session its id.
Ops == {"lookup", "subscription", "session"}

VARIABLES
  call,      \* where each call is
  op,        \* which operation it is
  tries,     \* retries it has made
  pause,     \* ticks left of its pause
  told,      \* what its caller was told
  failures, openFor,   \* the circuit: consecutive failures, ticks left open
  sessions,  \* the Idempotency-Keys Stripe has created a session for
  history    \* calls that ended, in order: Stripe was "reached", or "failed"

clientVars == <<call, op, tries, pause, told, failures, openFor, sessions, history>>

ClientInit ==
  /\ call = [c \in Calls |-> "new"]
  /\ op \in [Calls -> Ops]
  /\ tries = [c \in Calls |-> 0]
  /\ pause = [c \in Calls |-> 0]
  /\ told = [c \in Calls |-> "none"]
  /\ failures = 0 /\ openFor = 0
  /\ sessions = {}
  /\ history = <<>>

-----------------------------------------------------------------------------
(* CircuitState *)

IsOpen == openFor > 0

\* Mutant: a success closes the circuit but leaves the count.
CircuitSuccessCounting == openFor' = 0 /\ UNCHANGED failures

CircuitSuccess == failures' = 0 /\ openFor' = 0

\* The count goes on where it was when the circuit closed by itself: one more
\* failure opens it again.  (It is capped here where it no longer matters.)
CircuitFailure ==
  /\ failures' = IF failures < FailureThreshold THEN failures + 1 ELSE failures
  /\ openFor' = IF failures + 1 >= FailureThreshold THEN Cooldown ELSE openFor

\* The call ends with r for its caller.
EndCall(c, r) == call' = [call EXCEPT ![c] = "over"] /\ told' = [told EXCEPT ![c] = r]

-----------------------------------------------------------------------------
(* One attempt. *)

\* Mutant: a fresh key for every attempt.
KeyPerAttempt(c) == <<c, tries[c]>>

\* post: one Idempotency-Key for all the attempts of a call.
IdempotencyKey(c) == <<c, 0>>

\* Stripe does what is asked, once for each key.
Done(c) == sessions' = IF op[c] = "session" THEN sessions \cup {IdempotencyKey(c)} ELSE sessions

\* request, over libcurl: a status, or none when nothing could be sent, the connection
\* broke, or 30 s were over.  Whoever hears 5xx or nothing does not know what was done.
Transfer(c, status) ==
  \/ status \in {"2xx", "5xx", "none"} /\ Done(c)
  \/ status \in {"4xx", "429", "5xx", "none"} /\ UNCHANGED sessions

\* decode, and what the operation takes from a body that is complete, lacks what it
\* looks for, or is no JSON.
Value(o, body) ==
  IF body = "broken" \/ (body = "lacking" /\ o = "session") THEN "error"
  ELSE IF body = "lacking" /\ o = "lookup" THEN "nothing" ELSE "value"

-----------------------------------------------------------------------------
(* send_with_retry *)

\* An open circuit turns the call away.
StartCall(c) ==
  /\ call[c] = "new"
  /\ IF IsOpen THEN EndCall(c, "error")
               ELSE call' = [call EXCEPT ![c] = "sending"] /\ UNCHANGED told
  /\ UNCHANGED <<op, tries, pause, failures, openFor, sessions, history>>

\* An answer that is worth no retry: Stripe was reached, whatever it says.
Answered(c) ==
  /\ call[c] = "sending"
  /\ \/ Transfer(c, "2xx") /\ \E body \in {"complete", "lacking", "broken"} : EndCall(c, Value(op[c], body))
     \/ Transfer(c, "4xx") /\ EndCall(c, "error")
  /\ CircuitSuccess
  /\ history' = Append(history, "reached")
  /\ UNCHANGED <<op, tries, pause>>

\* The pause before the next attempt: Retry-After, clamped, or 1, 2, 4, ... ticks.
Pauses(c, limited) ==
  {2 ^ tries[c]} \cup (IF limited THEN 0..MaxRetryAfter ELSE {})

\* Mutant: the attempts are not counted.
RetryForever(c, limited) ==
  /\ \E d \in Pauses(c, limited) : pause' = [pause EXCEPT ![c] = d]
  /\ call' = [call EXCEPT ![c] = "pausing"]
  /\ UNCHANGED <<tries, told, failures, openFor, history>>

\* Sleep and try again, or give up.
RetryOrFail(c, limited) ==
  IF tries[c] < MaxRetries
    THEN /\ tries' = [tries EXCEPT ![c] = @ + 1]
         /\ \E d \in Pauses(c, limited) : pause' = [pause EXCEPT ![c] = d]
         /\ call' = [call EXCEPT ![c] = "pausing"]
         /\ UNCHANGED <<told, failures, openFor, history>>
    ELSE /\ EndCall(c, "error")
         /\ CircuitFailure
         /\ history' = Append(history, "failed")
         /\ UNCHANGED <<tries, pause>>

\* 429 or 5xx.
TurnedAway(c) ==
  /\ call[c] = "sending"
  /\ \E status \in {"429", "5xx"} : Transfer(c, status)
  /\ RetryOrFail(c, TRUE)
  /\ UNCHANGED op

Lost(c) ==
  /\ call[c] = "sending"
  /\ Transfer(c, "none")
  /\ RetryOrFail(c, FALSE)
  /\ UNCHANGED op

\* The sleep between two attempts is over.
Wake(c) ==
  /\ call[c] = "pausing" /\ pause[c] = 0
  /\ call' = [call EXCEPT ![c] = "sending"]
  /\ UNCHANGED <<op, tries, pause, told, failures, openFor, sessions, history>>

\* Time passes for the pauses and for the open circuit.
ClientTick ==
  /\ IsOpen \/ \E c \in Calls : pause[c] > 0
  /\ openFor' = IF IsOpen THEN openFor - 1 ELSE 0
  /\ pause' = [c \in Calls |-> IF pause[c] > 0 THEN pause[c] - 1 ELSE 0]
  /\ UNCHANGED <<call, op, tries, told, failures, sessions, history>>

CallStep(c) == StartCall(c) \/ Answered(c) \/ TurnedAway(c) \/ Lost(c) \/ Wake(c)

ClientNext == ClientTick \/ \E c \in Calls : CallStep(c)

ClientSpec == ClientInit /\ [][ClientNext]_clientVars

-----------------------------------------------------------------------------
\* "so the retry loop cannot create a duplicate session" (StripeClient::post):
\* however often an answer is lost after Stripe acted, a call creates at most one.
OneSession == \A c \in Calls : Cardinality({k \in sessions : k[1] = c}) <= 1

\* The circuit is open only after a run of failed calls that no other thread's
\* success has interrupted: CircuitState under record_success and record_failure
\* of calls that overlap.
OpenAfterRun ==
  IsOpen => /\ Len(history) >= FailureThreshold
            /\ \A i \in Len(history) - FailureThreshold + 1 .. Len(history) : history[i] = "failed"

\* Every call ends, however often Stripe fails or is not reached: the attempts are counted.
CallsEnd == <>[](\A c \in Calls : call[c] \in {"new", "over"})
==============================================================================
