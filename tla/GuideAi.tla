------------------------------- MODULE GuideAi -------------------------------
(***************************************************************************)
(* The calls of the background jobs to the language and image models       *)
(* (backend/src/guide_ai.rs, over backend/src/httpc.rs): a request is      *)
(* tried again after growing pauses, and one counter of failures, shared   *)
(* by all the jobs of the process, refuses further calls once it reaches   *)
(* the limit.  Photos of Unsplash and the download of a generated image    *)
(* do not look at the counter.                                             *)
(***************************************************************************)
EXTENDS Naturals, FiniteSets

CONSTANTS
  Jobs,          \* job threads, each of which makes many calls
  BreakerLimit,  \* BREAKER_LIMIT
  MaxAttempts    \* MAX_ATTEMPTS

ASSUME AiAssumption ==
  /\ IsFiniteSet(Jobs) /\ BreakerLimit \in Nat \ {0} /\ MaxAttempts \in Nat \ {0}

VARIABLES
  stage,    \* where the call of each job is
  wants,    \* what it is for
  attempt,  \* attempts made before this one
  streak    \* FAILURES

aiVars == <<stage, wants, attempt, streak>>

AiInit ==
  /\ stage = [j \in Jobs |-> "idle"]
  /\ wants = [j \in Jobs |-> "none"]
  /\ attempt = [j \in Jobs |-> 0]
  /\ streak = 0

\* The call is over: with what it was for, or an error that the job notes down.
AiReturn(j) ==
  /\ stage' = [stage EXCEPT ![j] = "idle"]
  /\ wants' = [wants EXCEPT ![j] = "none"]
  /\ attempt' = [attempt EXCEPT ![j] = 0]

-----------------------------------------------------------------------------
\* analyze_transcript, generate_chapters, generate_image, unsplash_photo: without a
\* key, or with nothing to send, nothing is called.
Ask(j) ==
  /\ stage[j] = "idle"
  /\ \E w \in {"analysis", "chapters", "image", "photo"} :
       /\ wants' = [wants EXCEPT ![j] = w]
       /\ stage' = [stage EXCEPT ![j] = IF w = "photo" THEN "fetching" ELSE "asking"]
  /\ UNCHANGED <<attempt, streak>>

\* Mutant: one failure more before the breaker opens.
Closed(n) == n <= BreakerLimit

\* The counter does not refuse the call.
Admits(n) == n < BreakerLimit

\* post_retry: a counter at the limit refuses the call.
Breaker(j) ==
  /\ stage[j] = "asking"
  /\ IF Admits(streak) THEN stage' = [stage EXCEPT ![j] = "sending"] /\ UNCHANGED <<wants, attempt>>
                       ELSE AiReturn(j)
  /\ UNCHANGED streak

\* An answer with a 2xx starts the count again, whatever other jobs counted meanwhile.
AiSuccess(j) ==
  /\ stage[j] = "sending"
  /\ streak' = 0
  /\ stage' = [stage EXCEPT ![j] = "decoding"]
  /\ UNCHANGED <<wants, attempt>>

\* 429, 5xx or no answer: counted, and tried again until the attempts are used up.
AiRetry(j) ==
  /\ stage[j] = "sending"
  /\ streak' = streak + 1
  /\ IF attempt[j] + 1 < MaxAttempts
     THEN /\ attempt' = [attempt EXCEPT ![j] = @ + 1]
          /\ stage' = [stage EXCEPT ![j] = "sleeping"]
          /\ UNCHANGED wants
     ELSE AiReturn(j)

\* Any other status is counted too, and ends the call.
AiRefused(j) ==
  /\ stage[j] = "sending"
  /\ streak' = streak + 1
  /\ AiReturn(j)

\* 1 s, 2 s, 4 s are over.  The counter is not looked at again.
AiWake(j) ==
  /\ stage[j] = "sleeping"
  /\ stage' = [stage EXCEPT ![j] = "sending"]
  /\ UNCHANGED <<wants, attempt, streak>>

\* The answer holds what was asked for, or not; an image is only its address.
Decode(j) ==
  /\ stage[j] = "decoding"
  /\ \/ wants[j] = "image" /\ stage' = [stage EXCEPT ![j] = "fetching"] /\ UNCHANGED <<wants, attempt>>
     \/ AiReturn(j)
  /\ UNCHANGED streak

\* httpc::get and get_follow: one try, which the counter never hears of.
Fetch(j) ==
  /\ stage[j] = "fetching"
  /\ AiReturn(j)
  /\ UNCHANGED streak

AiStep(j) ==
  Ask(j) \/ Breaker(j) \/ AiSuccess(j) \/ AiRetry(j) \/ AiRefused(j) \/ AiWake(j) \/ Decode(j) \/ Fetch(j)

AiNext == \E j \in Jobs : AiStep(j)

AiSpec == AiInit /\ [][AiNext]_aiVars

-----------------------------------------------------------------------------
\* The counter counts failed attempts in a row of every kind, a 4xx among them, and is
\* looked at once per call (guide_ai.rs:262-291): the calls it let in before it reached
\* the limit go on retrying and counting.  However the jobs interleave, the count stays
\* within one below the limit plus the attempts of one call of each job: with two jobs ten,
\* where the head of the file (lines 3-4) speaks of a stop after three transport or 5xx
\* failures.
FailuresBounded == streak <= (BreakerLimit - 1) + Cardinality(Jobs) * MaxAttempts
==============================================================================
