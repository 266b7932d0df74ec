------------------------------- MODULE SignIn -------------------------------
(***************************************************************************)
(* Account lockout: LockoutStore (backend/src/stores.rs) counts failed     *)
(* sign-ins per email and client address, and the sign-in handler          *)
(* (backend/src/routes.rs) asks it before and tells it after it verified   *)
(* the password, which takes long.  The handler holds the lock of the      *)
(* store for one call at a time.                                           *)
(*                                                                         *)
(* All times are kept relative to now, which is 0: a moment ahead is       *)
(* positive, a moment past negative, and LockTick moves every one of them. *)
(* A moment at the horizon may lie any time before it.  The clock is read  *)
(* before the store is locked: a thread may come to its turn with a clock  *)
(* that is behind, and take the times of a record back.                    *)
(***************************************************************************)
EXTENDS Integers, FiniteSets, Requests

CONSTANTS
  Keys,           \* pairs of an email and an address that sign in
  LockThreshold,  \* LOCKOUT_THRESHOLD
  LockDuration,   \* LOCKOUT_DURATION_MS
  GuessWindow,    \* LOCKOUT_ATTEMPT_WINDOW_MS
  LockEntries,    \* LOCKOUT_MAX_ENTRIES
  MaxLag          \* bound: ticks between reading the clock and locking the store

ASSUME SignInAssumption ==
  /\ {LockThreshold, LockDuration, GuessWindow, LockEntries} \subseteq Nat \ {0}
  /\ MaxLag \in Nat /\ MaxLag < GuessWindow /\ GuessWindow <= LockDuration
  /\ Keys # {} /\ IsFiniteSet(Threads)

VARIABLES
  record,  \* the LoginAttempt of each key; no attempts means no entry
  key,     \* what it signs in to
  clock,   \* the clock it read last, for the call it is about to make
  fails    \* failures per key in the sure window, since a success or an eviction: of each
           \* its age and which it was of that moment (a history)

signInVars == <<record, pc, key, clock, fails>>

\* The part of the window that no clock, however late, takes for past.
SureWindow == GuessWindow - MaxLag

\* A moment no comparison with a clock tells from the moments before it.
Horizon == -(GuessWindow + MaxLag + 1)

\* What the key of an idle thread is.
NoKey == CHOOSE k \in Keys : TRUE

NoRecord == [attempts |-> 0, locked |-> FALSE, until |-> 0, last |-> 0]

SignInInit ==
  /\ record = [k \in Keys |-> NoRecord]
  /\ Idle
  /\ key = [t \in Threads |-> NoKey]
  /\ clock = [t \in Threads |-> 0]
  /\ fails = [k \in Keys |-> {}]

\* On the way to a call the clock is read.
SignInGoto(t, l) ==
  /\ pc' = [pc EXCEPT ![t] = l]
  /\ key' = [key EXCEPT ![t] = IF l = "idle" THEN NoKey ELSE @]
  /\ clock' = [clock EXCEPT ![t] = 0]

-----------------------------------------------------------------------------
(* The handler.                                                            *)

\* A request the rate limit lets through; the clock is read.
SigninArrives(t, k) ==
  /\ pc[t] = "idle"
  /\ pc' = [pc EXCEPT ![t] = "check"]
  /\ key' = [key EXCEPT ![t] = k]
  /\ clock' = [clock EXCEPT ![t] = 0]
  /\ UNCHANGED <<record, fails>>

\* find_auth and verify_password: wrong (the clock is read again), right, or a failure
\* that counts as neither.
Verify(t) ==
  /\ pc[t] = "verify"
  /\ \E l \in {"wrong", "right", "idle"} : SignInGoto(t, l)
  /\ UNCHANGED <<record, fails>>

-----------------------------------------------------------------------------
(* LockoutStore.                                                           *)

LiveAt(r, now) == r.locked /\ now < r.until

\* What is_locked answers whose clock is right.
Live(k) == LiveAt(record[k], 0)

\* is_locked: refused while the lock is live; a lock that ran out is forgotten.
IsLocked(t) ==
  /\ pc[t] = "check"
  /\ LET k == key[t]
         live == LiveAt(record[k], clock[t])
     IN  /\ record' = [record EXCEPT ![k] = IF @.locked /\ ~live THEN NoRecord ELSE @]
         /\ SignInGoto(t, IF live THEN "idle" ELSE "verify")
  /\ UNCHANGED fails

\* Mutant: only a streak within one moment counts.
CurrentInstant(r, at) == IF r.last < at THEN NoRecord ELSE r

\* A failure older than the window no longer counts.
Current(r, at) == IF at - r.last > GuessWindow THEN NoRecord ELSE r

\* Mutant: locks rank by their last failure, like every other record.
RankByAttempt(r) == r.last

\* The timestamp evict ranks by.
Rank(r) == IF r.locked THEN r.until ELSE r.last

\* make_room: what is dropped before a record for k is created.
Room(k) ==
  LET known == {j \in Keys : record[j].attempts > 0}
  IN  IF k \notin known /\ Cardinality(known) >= LockEntries
      THEN {{j} : j \in {j \in known : \A i \in known : Rank(record[j]) <= Rank(record[i])}}
      ELSE {{}}

\* record_failure.
RecordFailure(t) ==
  /\ pc[t] = "wrong"
  /\ LET k == key[t]
         at == clock[t]
         r == Current(record[k], at)
         n == r.attempts + 1
         new == IF n >= LockThreshold
                THEN [attempts |-> n, locked |-> TRUE, until |-> at + LockDuration, last |-> at]
                ELSE [r EXCEPT !.attempts = n, !.last = at]
     IN  /\ \E out \in Room(k) :
              /\ record' = [j \in Keys |-> IF j = k THEN new
                                           ELSE IF j \in out THEN NoRecord ELSE record[j]]
              /\ fails' = [j \in Keys |-> IF j = k THEN OneMore(fails[k])
                                          ELSE IF j \in out THEN {} ELSE fails[j]]
  /\ SignInGoto(t, "idle")

\* clear, after a success.
Clear(t) ==
  /\ pc[t] = "right"
  /\ record' = [record EXCEPT ![key[t]] = NoRecord]
  /\ fails' = [fails EXCEPT ![key[t]] = {}]
  /\ SignInGoto(t, "idle")

\* run_lockout_cleanup: the clock is read for both stores, then each is locked.  The
\* store is never over its bound.
Retained(r, at) == IF r.locked THEN at < r.until ELSE at - r.last <= GuessWindow

LockoutCleanup ==
  /\ \E at \in -MaxLag .. 0 :
       record' = [k \in Keys |-> IF Retained(record[k], at) THEN record[k] ELSE NoRecord]
  /\ UNCHANGED <<pc, key, clock, fails>>

\* Time passes; no thread waits longer than the bound for its turn.
Earlier(at) == IF at > Horizon THEN at - 1 ELSE at

Clocked(t) == pc[t] \in {"check", "wrong"}

LockTick ==
  /\ \A t \in Threads : Clocked(t) => clock[t] > -MaxLag
  /\ clock' = [t \in Threads |-> IF Clocked(t) THEN clock[t] - 1 ELSE clock[t]]
  /\ record' = [k \in Keys |->
                  IF record[k] = NoRecord THEN NoRecord
                  ELSE [record[k] EXCEPT !.last = Earlier(@),
                                         !.until = IF record[k].locked THEN Earlier(@) ELSE @]]
  /\ fails' = [k \in Keys |-> Aged(fails[k], SureWindow)]
  /\ UNCHANGED <<pc, key>>

Attempt(t) ==
  \/ \E k \in Keys : SigninArrives(t, k)
  \/ IsLocked(t) \/ Verify(t) \/ RecordFailure(t) \/ Clear(t)

SignInNext == LockTick \/ LockoutCleanup \/ \E t \in Threads : Attempt(t)

SignInSpec == SignInInit /\ [][SignInNext]_signInVars

-----------------------------------------------------------------------------
\* Types.  The store stays within its bound although the janitor comes only every
\* fifteen minutes, and a record is locked exactly from the threshold on.
SignInTypes ==
  /\ \A k \in Keys :
       /\ record[k].attempts \in 0 .. LockThreshold + Cardinality(Threads) - 1
       /\ record[k].last \in Horizon .. 0
       /\ record[k].until \in Horizon .. LockDuration
       /\ record[k].locked <=> record[k].attempts >= LockThreshold
  /\ Cardinality({k \in Keys : record[k].attempts > 0}) <= LockEntries
  /\ pc \in [Threads -> {"idle", "check", "verify", "wrong", "right"}]
  /\ key \in [Threads -> Keys] /\ clock \in [Threads -> -MaxLag .. 0]

\* "Active locks sort last and are evicted only after every unlocked record is gone"
\* (evict): a live lock ends by time, by a success that was already being verified, or
\* to make room in a store that holds nothing but live locks.
LocksOutlive ==
  [][\A k \in Keys : Live(k) /\ ~Live(k)' =>
       \/ record'[k].attempts > 0 /\ record'[k].until <= 0
       \/ \E t \in Threads : pc[t] = "right" /\ key[t] = k /\ pc'[t] = "idle"
       \/ \A j \in Keys : record[j].attempts > 0 => Live(j)]_signInVars

\* The check and the count are separate calls with the password verified in between, so
\* guesses in flight get past the threshold; and a clock read before the store was locked
\* makes a lock end early and a failure look old.  But in no window, less the time a clock
\* may be late, do more fail than the threshold and the other request threads together
\* allow.  (A lock lasts as long as a window, and the record was not evicted.)
GuessesBounded == \A k \in Keys : Cardinality(fails[k]) <= LockThreshold + Cardinality(Threads) - 1

=============================================================================
