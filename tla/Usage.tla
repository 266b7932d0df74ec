------------------------------- MODULE Usage -------------------------------
(***************************************************************************)
(* POST /api/usage (backend/src/routes.rs): the free-tier quota of one     *)
(* user.  A request reads the row, decides by the clock whether the window *)
(* is over, and then either starts a new window (reset_usage_window) or    *)
(* consumes one unit (consume_usage); the two transactions are atomic, the *)
(* decision is not.                                                        *)
(*                                                                         *)
(* Requests of subscribers, and checks within a window, change nothing and *)
(* are left out.                                                           *)
(***************************************************************************)
EXTENDS Integers, Requests

CONSTANTS
  Limit,        \* FREE_USAGE_LIMIT
  UsageWindow,  \* USAGE_WINDOW_SECS, in ticks of the clock
  Null,         \* the usage_reset_at of an account that was never used
  MaxTime       \* bound: ticks of the clock

ASSUME UsageAssumption ==
  /\ Limit \in Int
  /\ UsageWindow \in Nat \ {0}
  /\ Null \notin Int
  /\ MaxTime \in Nat

VARIABLES
  now,      \* the clock
  count,    \* usage_count
  resetAt,  \* usage_reset_at
  asked,    \* its operation: "check" or "track"
  saw,      \* the usage_reset_at it read
  until,    \* the end of the window it is about to start
  used      \* tracks admitted since the window was opened (a history)

usageVars == <<now, count, resetAt, pc, asked, saw, until, used>>

UsageInit ==
  /\ now = 0 /\ count = 0 /\ resetAt = Null /\ used = 0
  /\ Idle
  /\ asked = [t \in Threads |-> "check"]
  /\ saw = [t \in Threads |-> Null]
  /\ until = [t \in Threads |-> Null]

WindowOver(end) == IF end = Null THEN TRUE ELSE now > end

UsagePasses ==
  /\ now < MaxTime
  /\ now' = now + 1
  /\ UNCHANGED <<count, resetAt, pc, asked, saw, until, used>>

-----------------------------------------------------------------------------
UsageLeave(t) ==
  /\ pc' = [pc EXCEPT ![t] = "idle"]
  /\ asked' = [asked EXCEPT ![t] = "check"]
  /\ saw' = [saw EXCEPT ![t] = Null]
  /\ until' = [until EXCEPT ![t] = Null]

\* find_user
FindUser(t) ==
  /\ pc[t] = "idle"
  /\ pc' = [pc EXCEPT ![t] = "decide"]
  /\ \E o \in {"check", "track"} : asked' = [asked EXCEPT ![t] = o]
  /\ saw' = [saw EXCEPT ![t] = resetAt]
  /\ UNCHANGED <<now, count, resetAt, until, used>>

\* What the row and the clock say: a limit below 1 refuses every track, an expired
\* window is reset, within one a track consumes.
Decide(t) ==
  /\ pc[t] = "decide"
  /\ \/ /\ WindowOver(saw[t]) /\ (asked[t] = "track" => Limit >= 1)
        /\ pc' = [pc EXCEPT ![t] = "reset"]
        /\ until' = [until EXCEPT ![t] = now + UsageWindow]
        /\ UNCHANGED <<asked, saw>>
     \/ /\ ~WindowOver(saw[t]) /\ asked[t] = "track" /\ Limit >= 1
        /\ pc' = [pc EXCEPT ![t] = "consume"]
        /\ UNCHANGED <<asked, saw, until>>
     \/ /\ IF asked[t] = "track" THEN Limit < 1 ELSE ~WindowOver(saw[t])
        /\ UsageLeave(t)
  /\ UNCHANGED <<now, count, resetAt, used>>

\* The tracks admitted: from scratch when the window really was over.
Admitted(n) == used' = IF WindowOver(resetAt) THEN n ELSE used + n

Unit(t) == IF asked[t] = "track" THEN 1 ELSE 0

\* reset_usage_window: one transaction sets both columns.
Reset(t) ==
  /\ pc[t] = "reset"
  /\ count' = Unit(t)
  /\ resetAt' = until[t]
  /\ Admitted(Unit(t))
  /\ UsageLeave(t)
  /\ UNCHANGED now

\* Mutant: the limit was checked when the row was read.
ConsumeUnlimited(t) ==
  /\ pc[t] = "consume"
  /\ count' = count + 1 /\ used' = used + 1
  /\ UsageLeave(t)
  /\ UNCHANGED <<now, resetAt>>

\* consume_usage: the limit is in the WHERE clause of the UPDATE.
Consume(t) ==
  /\ pc[t] = "consume"
  /\ IF count < Limit THEN count' = count + 1 /\ used' = used + 1
                      ELSE UNCHANGED <<count, used>>
  /\ UsageLeave(t)
  /\ UNCHANGED <<now, resetAt>>

\* A failed statement is rolled back and answered with 500.
UsageFails(t) ==
  /\ pc[t] \in {"reset", "consume"}
  /\ UsageLeave(t)
  /\ UNCHANGED <<now, count, resetAt, used>>

UsageNext ==
  \/ UsagePasses
  \/ \E t \in Threads : FindUser(t) \/ Decide(t) \/ Reset(t) \/ Consume(t) \/ UsageFails(t)

UsageSpec == UsageInit /\ [][UsageNext]_usageVars

-----------------------------------------------------------------------------
Times == Int \cup {Null}

\* Types.  A request that resets knows until when.
UsageTypes ==
  /\ now \in Nat /\ count \in Nat /\ used \in Nat
  /\ resetAt \in Times
  /\ pc \in [Threads -> {"idle", "decide", "reset", "consume"}]
  /\ asked \in [Threads -> {"check", "track"}]
  /\ saw \in [Threads -> Times]
  /\ until \in [Threads -> Times]
  /\ \A t \in Threads : pc[t] = "reset" => until[t] # Null

\* However the requests interleave, the counter never passes the limit ("concurrent
\* requests cannot both be admitted at the boundary").
CountBounded == count <= Limit \/ count = 0

\* Nobody pays for what he did not get: the counter never exceeds the tracks that
\* were admitted in the window.
NeverShortchanged == count <= used

\* A request about to write passed the check of the limit.
Checked ==
  \A t \in Threads :
    /\ pc[t] = "consume" => asked[t] = "track"
    /\ pc[t] \in {"reset", "consume"} /\ asked[t] = "track" => Limit >= 1

\* The inductive invariant behind the three.
UsageInv == UsageTypes /\ CountBounded /\ NeverShortchanged /\ Checked

\* "Reset and first increment together: a separate increment could be issued by a
\* concurrent request and then erased by this reset" (usage): no admitted track is
\* forgotten, and no window admits more than the limit.
LimitPerWindow == used <= Limit \/ used = 0
=============================================================================
