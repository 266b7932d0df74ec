--------------------------- MODULE Requests_proofs ---------------------------
(***************************************************************************)
(* What the threads that serve requests at the same time keep of the       *)
(* quota, the CSRF tokens, the lockout, the rate limit and the accounts,   *)
(* for any number of threads, accounts, addresses and keys.                *)
(*                                                                         *)
(* After the histories that two of them use, each section is of one of the *)
(* modules: what holds in between the statements of a request, that every  *)
(* step keeps it, and what follows.                                        *)
(***************************************************************************)
EXTENDS Usage, Csrf, SignIn, Limits, Accounts, FiniteSetTheorems, SequenceTheorems, TLAPS

-----------------------------------------------------------------------------
(***************************************************************************)
(* The histories: sets of events, each with its age.                       *)
(***************************************************************************)

\* The events younger than r.
Since(happened, r) == {e \in happened : e[1] < r}

\* One event more is one more under every age.
LEMMA OneMoreCounts ==
  ASSUME NEW S, NEW w \in Nat \ {0}, IsFiniteSet(S), S \subseteq (0 .. w - 1) \X Nat,
         \A e \in S : e[1] = 0 => e[2] <= Cardinality({g \in S : g[1] = 0})
  PROVE  /\ IsFiniteSet(OneMore(S)) /\ Cardinality(OneMore(S)) = Cardinality(S) + 1
         /\ OneMore(S) \subseteq (0 .. w - 1) \X Nat
         /\ \A e \in OneMore(S) : e[1] = 0 => e[2] <= Cardinality({g \in OneMore(S) : g[1] = 0})
         /\ \A r \in Nat \ {0} :
              /\ IsFiniteSet(Since(S, r)) /\ Cardinality(Since(S, r)) \in Nat
              /\ Cardinality(Since(OneMore(S), r)) = Cardinality(Since(S, r)) + 1
<1> DEFINE Now == {g \in S : g[1] = 0}
           new == <<0, Cardinality(Now) + 1>>
<1>1. IsFiniteSet(Now) /\ Cardinality(Now) \in Nat
  BY FS_Subset, FS_CardinalityType
<1>2. OneMore(S) = S \cup {new}
  BY DEF OneMore
<1>3. new \in (0 .. w - 1) \X Nat /\ new[1] = 0 /\ new[2] = Cardinality(Now) + 1
  BY <1>1
<1>4. new \notin S
  BY <1>1, <1>3
<1> HIDE DEF new
<1>5. {g \in OneMore(S) : g[1] = 0} = Now \cup {new}
  BY <1>2, <1>3
<1>6. Cardinality(Now \cup {new}) = Cardinality(Now) + 1
  BY <1>1, <1>4, FS_AddElement
<1>7. IsFiniteSet(OneMore(S)) /\ Cardinality(OneMore(S)) = Cardinality(S) + 1
  BY <1>2, <1>4, FS_AddElement
<1>8. ASSUME NEW e \in OneMore(S), e[1] = 0 PROVE e[2] <= Cardinality(Now) + 1
  <2>1. CASE e = new
    BY <1>1, <1>3, <2>1
  <2>2. CASE e \in S
    <3>1. e[2] \in Nat /\ e[2] <= Cardinality(Now)
      BY <1>8, <2>2
    <3> QED
      BY <1>1, <3>1
  <2> QED
    BY <1>2, <2>1, <2>2
<1>9. ASSUME NEW r \in Nat \ {0}
      PROVE  /\ IsFiniteSet(Since(S, r)) /\ Cardinality(Since(S, r)) \in Nat
             /\ Cardinality(Since(OneMore(S), r)) = Cardinality(Since(S, r)) + 1
  <2>1. Since(OneMore(S), r) = Since(S, r) \cup {new}
    BY <1>2, <1>3 DEF Since
  <2>2. IsFiniteSet(Since(S, r)) /\ Cardinality(Since(S, r)) \in Nat
    BY FS_Subset, FS_CardinalityType DEF Since
  <2>3. new \notin Since(S, r)
    BY <1>4 DEF Since
  <2> QED
    BY <2>1, <2>2, <2>3, FS_AddElement
<1> QED
  BY <1>2, <1>3, <1>5, <1>6, <1>7, <1>8, <1>9

\* A tick later there are no more of them than under the age before, and none of this moment.
LEMMA AgedCounts ==
  ASSUME NEW S, NEW w \in Nat \ {0}, IsFiniteSet(S), S \subseteq (0 .. w - 1) \X Nat
  PROVE  /\ IsFiniteSet(Aged(S, w)) /\ Cardinality(Aged(S, w)) <= Cardinality(S)
         /\ Aged(S, w) \subseteq (1 .. w - 1) \X Nat
         /\ \A e \in Aged(S, w) : \E g \in S : e[1] = g[1] + 1
<1> DEFINE Young == {g \in S : g[1] + 1 < w}
           older == [g \in Young |-> <<g[1] + 1, g[2]>>]
<1>1. IsFiniteSet(Young) /\ Cardinality(Young) <= Cardinality(S)
  BY FS_Subset
<1>2. Aged(S, w) = {<<g[1] + 1, g[2]>> : g \in Young}
  BY DEF Aged
<1>3. older \in Surjection(Young, Aged(S, w))
  BY <1>2 DEF Surjection
<1>4. IsFiniteSet(Aged(S, w)) /\ Cardinality(Aged(S, w)) <= Cardinality(Young)
  BY <1>1, <1>3, FS_Surjection
<1>5. ASSUME NEW g \in Young
      PROVE  <<g[1] + 1, g[2]>> \in (1 .. w - 1) \X Nat
  OBVIOUS
<1>6. Cardinality(Aged(S, w)) <= Cardinality(S)
  BY <1>1, <1>4, FS_CardinalityType
<1> QED
  BY <1>2, <1>4, <1>5, <1>6

\* And of those of that moment and later there are no more than before it.
LEMMA AgedSince ==
  ASSUME NEW S, NEW w \in Nat \ {0}, IsFiniteSet(S), S \subseteq (0 .. w - 1) \X Nat,
         NEW r \in Int, r <= w
  PROVE  /\ IsFiniteSet(Since(Aged(S, w), r)) /\ IsFiniteSet(Since(S, r - 1))
         /\ Cardinality(Since(Aged(S, w), r)) <= Cardinality(Since(S, r - 1))
<1> DEFINE new == Since(Aged(S, w), r)
           old == Since(S, r - 1)
           older == [g \in old |-> <<g[1] + 1, g[2]>>]
<1>1. IsFiniteSet(old)
  BY FS_Subset DEF Since
<1>2. ASSUME NEW g \in old PROVE older[g] \in new
  <2>1. g \in S /\ g[1] \in Nat /\ g[1] < r - 1
    BY DEF Since
  <2>2. g[1] + 1 < w /\ g[1] + 1 < r
    BY <2>1
  <2>3. <<g[1] + 1, g[2]>> \in Aged(S, w)
    BY <2>1, <2>2 DEF Aged
  <2> QED
    BY <2>2, <2>3 DEF Since
<1>3. ASSUME NEW e \in new PROVE \E g \in old : older[g] = e
  <2>1. PICK g \in S : g[1] + 1 < w /\ e = <<g[1] + 1, g[2]>> /\ e[1] < r
    BY DEF Aged, Since
  <2>2. g[1] \in Nat
    BY <2>1
  <2>3. g \in old
    BY <2>1, <2>2 DEF Since
  <2> QED
    BY <2>1, <2>3
<1>4. older \in Surjection(old, new)
  <2>1. older \in [old -> new]
    BY <1>2
  <2> HIDE DEF older, old, new
  <2> QED
    BY <1>3, <2>1 DEF Surjection
<1> HIDE DEF older, old, new
<1>5. IsFiniteSet(new) /\ Cardinality(new) <= Cardinality(old)
  BY <1>1, <1>4, FS_Surjection
<1> QED
  BY <1>1, <1>5 DEF new, old

-----------------------------------------------------------------------------
(***************************************************************************)
(* The quota: the counter stays within the limit and never charges what    *)
(* was not admitted.                                                       *)
(***************************************************************************)

LEMMA InitUsage == UsageInit => UsageInv
  BY UsageAssumption
  DEF UsageInit, Idle, UsageInv, UsageTypes, CountBounded, NeverShortchanged, Checked, Times, UsageAssumption

LEMMA StepUsage == UsageInv /\ [UsageNext]_usageVars => UsageInv'
<1> SUFFICES ASSUME UsageInv, [UsageNext]_usageVars PROVE UsageInv'
  OBVIOUS
<1> USE UsageAssumption DEF UsageAssumption, UsageInv, UsageTypes, Times
<1>1. CASE UsagePasses
  BY <1>1 DEF UsagePasses, CountBounded, NeverShortchanged, Checked
<1>2. ASSUME NEW t \in Threads, FindUser(t) PROVE UsageInv'
  BY <1>2 DEF FindUser, CountBounded, NeverShortchanged, Checked
<1>3. ASSUME NEW t \in Threads, Decide(t) PROVE UsageInv'
  BY <1>3 DEF Decide, UsageLeave, CountBounded, NeverShortchanged, Checked
<1>4. ASSUME NEW t \in Threads, Reset(t) PROVE UsageInv'
  <2>1. /\ Unit(t) \in {0, 1} /\ (Unit(t) = 1 => Limit >= 1)
        /\ until[t] \in Times /\ UNCHANGED now
    BY <1>4 DEF Reset, Unit, Checked
  <2>2. /\ count' = Unit(t) /\ resetAt' = until[t]
        /\ used' = Unit(t) \/ used' = used + Unit(t)
    BY <1>4 DEF Reset, Admitted
  <2>3. CountBounded' /\ NeverShortchanged' /\ used' \in Nat
    BY <2>1, <2>2 DEF CountBounded, NeverShortchanged
  <2>4. UsageTypes' /\ Checked'
    BY <1>4, <2>1, <2>2, <2>3 DEF Reset, UsageLeave, Checked
  <2> QED BY <2>3, <2>4
<1>5. ASSUME NEW t \in Threads, Consume(t) PROVE UsageInv'
  BY <1>5 DEF Consume, UsageLeave, CountBounded, NeverShortchanged, Checked
<1>6. ASSUME NEW t \in Threads, UsageFails(t) PROVE UsageInv'
  BY <1>6 DEF UsageFails, UsageLeave, CountBounded, NeverShortchanged, Checked
<1>7. CASE UNCHANGED usageVars
  BY <1>7 DEF usageVars, CountBounded, NeverShortchanged, Checked
<1> QED BY <1>1, <1>2, <1>3, <1>4, <1>5, <1>6, <1>7 DEF UsageNext

\* The inductive invariant of the quota.
THEOREM UsageInvariant == UsageSpec => []UsageInv
  BY InitUsage, StepUsage, PTL DEF UsageSpec

\* Concurrent requests are not admitted past the limit of the counter, whatever the
\* limit is (also 0 and below) and however a request is interrupted.
THEOREM CountWithinLimit == UsageSpec => []CountBounded
<1>1. UsageInv => CountBounded
  BY DEF UsageInv
<1> QED BY <1>1, UsageInvariant, PTL

\* The counter never exceeds the tracks admitted in the window.
THEOREM NoneShortchanged == UsageSpec => []NeverShortchanged
<1>1. UsageInv => NeverShortchanged
  BY DEF UsageInv
<1> QED BY <1>1, UsageInvariant, PTL

-----------------------------------------------------------------------------
(***************************************************************************)
(* Signing out ends every token.  A request is accepted for the token that *)
(* is in the store, so what is needed of the store is that it holds        *)
(* nothing minted before the last sign-out: a sign-out empties it, and all *)
(* that is put in is new.                                                  *)
(***************************************************************************)

Labels == {"idle", "change", "signout", "signin", "retry", "remove",
           "accepted", "refused", "signedIn", "signedOut"}

\* The store has no token from before the last sign-out.
StoreIsNew ==
  /\ minted \in Nat /\ ended \in Nat /\ stored \in Nat
  /\ ended <= minted
  /\ pc \in [Threads -> Labels]
  /\ stored # 0 => ended < stored

LEMMA InitStore == CsrfInit => StoreIsNew
  BY DEF CsrfInit, Idle, StoreIsNew, Labels

LEMMA StepStore == StoreIsNew /\ [CsrfNext]_csrfVars => StoreIsNew'
<1> SUFFICES ASSUME StoreIsNew, [CsrfNext]_csrfVars PROVE StoreIsNew'
  OBVIOUS
<1> USE DEF StoreIsNew
<1>1. ASSUME NEW t \in Threads, SetAuthCookies(t) PROVE StoreIsNew'
  BY <1>1 DEF SetAuthCookies, Mint, CsrfGoto, Labels
<1>2. ASSUME NEW t \in Threads, Check(t) PROVE StoreIsNew'
  BY <1>2 DEF Check, CsrfGoto, Labels
<1>3. ASSUME NEW t \in Threads, CsrfRetry(t) PROVE StoreIsNew'
  BY <1>3 DEF CsrfRetry, Mint, CsrfGoto, Labels
<1>4. ASSUME NEW t \in Threads, Signout(t) PROVE StoreIsNew'
  BY <1>4 DEF Signout, CsrfGoto, Labels
<1>5. ASSUME NEW t \in Threads, Receive(t) PROVE StoreIsNew'
  BY <1>5 DEF Receive, Labels
<1>6. ASSUME NEW t \in Threads, NEW b \in Browsers, SendSignin(t, b) PROVE StoreIsNew'
  BY <1>6 DEF SendSignin, Labels
<1>7. ASSUME NEW t \in Threads, NEW b \in Browsers, NEW kind \in {"change", "signout"},
             SendChange(t, b, kind)
      PROVE  StoreIsNew'
  BY <1>7 DEF SendChange, Labels
<1>8. ASSUME NEW b \in Browsers, DropCookie(b) PROVE StoreIsNew'
  BY <1>8 DEF DropCookie, thread
<1>9. ASSUME NEW k, Age(k) PROVE StoreIsNew'
  BY <1>9 DEF Age, thread
<1>10. CASE CsrfCleanup
  BY <1>10 DEF CsrfCleanup, thread
<1>11. CASE CsrfRestart
  BY <1>11 DEF CsrfRestart, Labels
<1>12. CASE UNCHANGED csrfVars
  BY <1>12 DEF csrfVars, thread
<1> QED
  BY <1>1, <1>2, <1>3, <1>4, <1>5, <1>6, <1>7, <1>8, <1>9, <1>10, <1>11, <1>12
  DEF CsrfNext, Serve

\* No step accepts a token from before the last sign-out.
LEMMA AcceptsNew ==
  ASSUME StoreIsNew, [CsrfNext]_csrfVars, NEW t \in Threads, pc[t] = "change", pc'[t] = "accepted"
  PROVE  header[t] > ended
<1>1. ASSUME NEW u \in Threads, Check(u) PROVE header[t] > ended
  <2>1. t = u
    BY <1>1 DEF Check, CsrfGoto, StoreIsNew
  <2>2. header[t] # 0 /\ header[t] = stored
    BY <1>1, <2>1 DEF Check, CsrfGoto, StoreIsNew
  <2> QED
    BY <2>2 DEF StoreIsNew
<1>2. ASSUME NEW u \in Threads, SetAuthCookies(u) \/ CsrfRetry(u) \/ Signout(u) \/ Receive(u) PROVE FALSE
  BY <1>2 DEF SetAuthCookies, CsrfRetry, Signout, Receive, CsrfGoto, StoreIsNew
<1>3. ASSUME NEW u \in Threads, NEW b \in Browsers, SendSignin(u, b) PROVE FALSE
  BY <1>3 DEF SendSignin, StoreIsNew
<1>4. ASSUME NEW u \in Threads, NEW b \in Browsers, NEW kind \in {"change", "signout"},
             SendChange(u, b, kind)
      PROVE  FALSE
  BY <1>4 DEF SendChange, StoreIsNew
<1>5. ASSUME NEW b \in Browsers, DropCookie(b) PROVE FALSE
  BY <1>5 DEF DropCookie, thread
<1>6. ASSUME NEW k, Age(k) PROVE FALSE
  BY <1>6 DEF Age, thread
<1>7. CASE CsrfCleanup
  BY <1>7 DEF CsrfCleanup, thread
<1>8. CASE CsrfRestart
  BY <1>8 DEF CsrfRestart, StoreIsNew
<1>9. CASE UNCHANGED csrfVars
  BY <1>9 DEF csrfVars, thread
<1> QED
  BY <1>1, <1>2, <1>3, <1>4, <1>5, <1>6, <1>7, <1>8, <1>9 DEF CsrfNext, Serve

\* The store never holds a token from before the last sign-out.
THEOREM StoreInvariant == CsrfSpec => []StoreIsNew
  BY InitStore, StepStore, PTL DEF CsrfSpec

\* Signing out ends every token there was (signout, require_csrf): no request is ever
\* accepted with one, whatever refusals and new tokens cross the sign-out.
THEOREM SignoutIsFinal == CsrfSpec => SignoutEnds
<1>1. StoreIsNew /\ [CsrfNext]_csrfVars
      => [\A t \in Threads : pc[t] = "change" /\ pc'[t] = "accepted" => header[t] > ended]_csrfVars
  BY AcceptsNew
<1> QED
  BY <1>1, StoreInvariant, PTL DEF CsrfSpec, SignoutEnds

-----------------------------------------------------------------------------
(***************************************************************************)
(* The lockout: the failures in the window are all counted by the record,  *)
(* and a guess that was let in and is not counted yet has a thread of its  *)
(* own, so together they stay within the threshold and the threads.        *)
(***************************************************************************)

AttemptLabels == {"idle", "check", "verify", "wrong", "right"}
AttemptRecords == [attempts : Nat, locked : BOOLEAN, until : Horizon .. LockDuration, last : Horizon .. 0]
Known == {k \in Keys : record[k].attempts > 0}

SignInShape ==
  /\ record \in [Keys -> AttemptRecords]
  /\ pc \in [Threads -> AttemptLabels] /\ key \in [Threads -> Keys]
  /\ clock \in [Threads -> -MaxLag .. 0]
  /\ IsFiniteSet(Known) /\ Cardinality(Known) <= LockEntries

\* A record is locked from the threshold on, and a lock lives as long as the window at least.
LockShape(k) ==
  LET r == record[k]
  IN  /\ r.locked <=> r.attempts >= LockThreshold
      /\ r.attempts = 0 => r = NoRecord
      /\ r.locked => r.last = Horizon \/ r.until = LockDuration + r.last

\* The failures in the sure window are all counted, and none is later than the clock of
\* the last one can tell.
FailuresCounted(k) ==
  /\ IsFiniteSet(fails[k]) /\ Cardinality(fails[k]) <= record[k].attempts
  /\ fails[k] \subseteq (0 .. SureWindow - 1) \X Nat
  /\ \A f \in fails[k] : f[1] + MaxLag >= -record[k].last
  /\ \A f \in fails[k] : f[1] = 0 => f[2] <= Cardinality({g \in fails[k] : g[1] = 0})

\* The guesses that were let in and are not counted yet.
InFlight(k) == {t \in Threads : key[t] = k /\ pc[t] \in {"verify", "wrong"}}

\* Each thread gets at most one guess past the threshold.
GuessesLeft(k) == record[k].attempts + Cardinality(InFlight(k)) <= LockThreshold - 1 + Cardinality(Threads)

SignInInv ==
  /\ SignInShape
  /\ DOMAIN fails = Keys
  /\ \A k \in Keys : LockShape(k) /\ FailuresCounted(k) /\ GuessesLeft(k)

-----------------------------------------------------------------------------
\* Three ways for a step to leave room for the guesses in flight: the record and they are
\* no more than before, the record is below the threshold, or one of them is counted.
LEMMA RoomLeft ==
  ASSUME NEW k \in Keys, record[k].attempts \in Nat, record'[k].attempts \in Nat, GuessesLeft(k),
         \/ record'[k].attempts <= record[k].attempts /\ InFlight(k)' \subseteq InFlight(k)
         \/ record'[k].attempts < LockThreshold
         \/ /\ record'[k].attempts <= record[k].attempts + 1
            /\ \E t \in InFlight(k) : InFlight(k)' = InFlight(k) \ {t}
  PROVE  GuessesLeft(k)'
<1>1. /\ IsFiniteSet(InFlight(k)) /\ Cardinality(InFlight(k)) \in Nat
      /\ IsFiniteSet(InFlight(k)') /\ Cardinality(InFlight(k)') \in Nat
      /\ Cardinality(InFlight(k)') <= Cardinality(Threads) /\ Cardinality(Threads) \in Nat
  BY FS_Subset, FS_CardinalityType, SignInAssumption DEF InFlight, SignInAssumption
<1>2. LockThreshold \in Nat \ {0}
  BY SignInAssumption DEF SignInAssumption
<1>3. CASE record'[k].attempts <= record[k].attempts /\ InFlight(k)' \subseteq InFlight(k)
  <2>1. Cardinality(InFlight(k)') <= Cardinality(InFlight(k))
    BY <1>1, <1>3, FS_Subset
  <2> QED
    BY <1>1, <1>2, <1>3, <2>1 DEF GuessesLeft
<1>4. CASE record'[k].attempts < LockThreshold
  BY <1>1, <1>2, <1>4 DEF GuessesLeft
<1>5. ASSUME record'[k].attempts <= record[k].attempts + 1,
             NEW t \in InFlight(k), InFlight(k)' = InFlight(k) \ {t}
      PROVE  GuessesLeft(k)'
  <2>1. Cardinality(InFlight(k)') = Cardinality(InFlight(k)) - 1
    BY <1>1, <1>5, FS_RemoveElement
  <2> QED
    BY <1>1, <1>2, <1>5, <2>1 DEF GuessesLeft
<1> QED
  BY <1>3, <1>4, <1>5

LEMMA InitSignIn == SignInInit => SignInInv
<1> SUFFICES ASSUME SignInInit PROVE SignInInv
  OBVIOUS
<1> USE SignInAssumption DEF SignInAssumption
<1>1. /\ record = [k \in Keys |-> NoRecord] /\ fails = [k \in Keys |-> {}]
      /\ pc = [t \in Threads |-> "idle"] /\ key = [t \in Threads |-> NoKey]
      /\ clock = [t \in Threads |-> 0]
  BY DEF SignInInit, Idle
<1>2. NoKey \in Keys /\ Known = {}
  BY <1>1 DEF NoKey, Known, NoRecord
<1>3. SignInShape
  BY <1>1, <1>2, FS_EmptySet DEF SignInShape, AttemptRecords, AttemptLabels, NoRecord, Horizon
<1>4. ASSUME NEW k \in Keys PROVE LockShape(k) /\ FailuresCounted(k) /\ GuessesLeft(k)
  <2>1. LockShape(k)
    BY <1>1 DEF LockShape, NoRecord
  <2>2. FailuresCounted(k)
    BY <1>1, FS_EmptySet DEF FailuresCounted, NoRecord
  <2>3. InFlight(k) = {}
    BY <1>1 DEF InFlight
  <2>4. GuessesLeft(k)
    BY <1>1, <2>3, FS_EmptySet, FS_CardinalityType DEF GuessesLeft, NoRecord
  <2> QED
    BY <2>1, <2>2, <2>4
<1> QED
  BY <1>1, <1>3, <1>4 DEF SignInInv
\* What a clock takes for past, however late it is, a lock that ran out or a failure older
\* than the window, has no failure in the sure window left.
LEMMA OutOfWindow ==
  ASSUME SignInInv, NEW k \in Keys, NEW at \in -MaxLag .. 0,
         \/ record[k].locked /\ record[k].until <= at
         \/ at - record[k].last > GuessWindow
  PROVE  fails[k] = {}
<1>1. /\ record[k] \in AttemptRecords /\ fails[k] \subseteq (0 .. SureWindow - 1) \X Nat
      /\ \A f \in fails[k] : f[1] + MaxLag >= -record[k].last
      /\ record[k].locked => record[k].last = Horizon \/ record[k].until = LockDuration + record[k].last
  BY DEF SignInInv, SignInShape, FailuresCounted, LockShape
<1>2. record[k].last \in Int /\ record[k].last <= -GuessWindow
  BY <1>1, SignInAssumption DEF AttemptRecords, SignInAssumption, Horizon
<1>3. ASSUME NEW f \in fails[k] PROVE FALSE
  <2>1. f[1] \in Nat /\ f[1] <= SureWindow - 1 /\ f[1] + MaxLag >= -record[k].last
    BY <1>1, SignInAssumption DEF SureWindow, SignInAssumption
  <2> QED
    BY <1>2, <2>1, SignInAssumption DEF SureWindow, SignInAssumption
<1> QED
  BY <1>3

\* A key without a record and without failures.
LEMMA Forgotten ==
  ASSUME SignInInv, NEW k \in Keys, record'[k] = NoRecord, fails'[k] = {}
  PROVE  (LockShape(k) /\ FailuresCounted(k) /\ GuessesLeft(k))'
<1> USE SignInAssumption DEF SignInAssumption
<1>1. LockShape(k)' /\ FailuresCounted(k)'
  BY FS_EmptySet DEF LockShape, FailuresCounted, NoRecord
<1>2. record[k].attempts \in Nat /\ GuessesLeft(k)
  BY DEF SignInInv, SignInShape, AttemptRecords
<1>3. record'[k].attempts \in Nat /\ record'[k].attempts < LockThreshold
  BY DEF NoRecord
<1> QED
  BY <1>1, <1>2, <1>3, RoomLeft

\* A key whose record and failures stay, and to which nobody is let in.
LEMMA Untouched ==
  ASSUME SignInInv, NEW k \in Keys, record'[k] = record[k], fails'[k] = fails[k],
         InFlight(k)' \subseteq InFlight(k)
  PROVE  (LockShape(k) /\ FailuresCounted(k) /\ GuessesLeft(k))'
<1>1. /\ record[k].attempts \in Nat
      /\ LockShape(k) /\ FailuresCounted(k) /\ GuessesLeft(k)
  BY DEF SignInInv, SignInShape, AttemptRecords
<1>2. LockShape(k)' /\ FailuresCounted(k)'
  BY <1>1 DEF LockShape, FailuresCounted
<1>3. GuessesLeft(k)'
  BY <1>1, RoomLeft
<1> QED
  BY <1>2, <1>3

\* The store stays within its bound when no key comes to be known.
LEMMA NoneAdded ==
  ASSUME SignInInv, Known' \subseteq Known
  PROVE  IsFiniteSet(Known)' /\ (Cardinality(Known) <= LockEntries)'
<1>1. IsFiniteSet(Known) /\ Cardinality(Known) <= LockEntries
  BY DEF SignInInv, SignInShape
<1>2. IsFiniteSet(Known') /\ Cardinality(Known') <= Cardinality(Known)
  BY <1>1, FS_Subset
<1>3. Cardinality(Known) \in Nat /\ Cardinality(Known') \in Nat
  BY <1>1, <1>2, FS_CardinalityType
<1> QED
  BY <1>1, <1>2, <1>3, SignInAssumption DEF SignInAssumption

\* A step that leaves the store alone and lets nobody in.
LEMMA StoreStays ==
  ASSUME SignInInv, UNCHANGED <<record, fails>>,
         (pc \in [Threads -> AttemptLabels])', (key \in [Threads -> Keys])',
         (clock \in [Threads -> -MaxLag .. 0])',
         \A k \in Keys : InFlight(k)' \subseteq InFlight(k)
  PROVE  SignInInv'
<1>1. SignInShape'
  <2>1. Known' \subseteq Known
    BY DEF Known
  <2> QED
    BY <2>1, NoneAdded DEF SignInInv, SignInShape
<1>2. \A k \in Keys : (LockShape(k) /\ FailuresCounted(k) /\ GuessesLeft(k))'
  BY Untouched
<1> QED
  BY <1>1, <1>2 DEF SignInInv

LEMMA StepIsLocked ==
  ASSUME SignInInv, NEW t \in Threads, IsLocked(t)
  PROVE  SignInInv'
<1> USE DEF SignInInv
<1>0. PICK k \in Keys : k = key[t]
  BY DEF SignInShape
<1> DEFINE live == LiveAt(record[k], clock[t])
           ranOut == record[k].locked /\ ~live
<1>1. /\ pc[t] = "check" /\ UNCHANGED fails
      /\ record' = [record EXCEPT ![k] = IF ranOut THEN NoRecord ELSE record[k]]
      /\ pc' = [pc EXCEPT ![t] = IF live THEN "idle" ELSE "verify"]
      /\ key' = [key EXCEPT ![t] = IF live THEN NoKey ELSE k]
      /\ clock' = [clock EXCEPT ![t] = 0]
  BY <1>0 DEF IsLocked, SignInGoto, SignInShape
<1>2. NoKey \in Keys /\ NoRecord \in AttemptRecords /\ 0 \in -MaxLag .. 0
  BY SignInAssumption DEF NoKey, NoRecord, AttemptRecords, Horizon, SignInAssumption
<1>3. SignInShape'
  <2>1. record' \in [Keys -> AttemptRecords]
    BY <1>1, <1>2 DEF SignInShape
  <2>2. /\ pc' \in [Threads -> AttemptLabels] /\ key' \in [Threads -> Keys]
        /\ clock' \in [Threads -> -MaxLag .. 0]
    BY <1>1, <1>2 DEF SignInShape, AttemptLabels
  <2>3. Known' \subseteq Known
    BY <1>1 DEF Known, SignInShape, NoRecord
  <2> QED
    BY <2>1, <2>2, <2>3, NoneAdded DEF SignInShape
<1>4. ASSUME NEW j \in Keys, j # k PROVE (LockShape(j) /\ FailuresCounted(j) /\ GuessesLeft(j))'
  <2>1. record'[j] = record[j] /\ fails'[j] = fails[j]
    BY <1>1, <1>4 DEF SignInShape
  <2>2. InFlight(j)' \subseteq InFlight(j)
    BY <1>0, <1>1, <1>4 DEF SignInShape, InFlight
  <2> QED
    BY <2>1, <2>2, Untouched
<1>5. (LockShape(k) /\ FailuresCounted(k) /\ GuessesLeft(k))'
  <2>1. CASE ranOut
    <3>1. record[k].until \in Int /\ clock[t] \in -MaxLag .. 0 /\ record[k].until <= clock[t]
      BY <1>1, <2>1, SignInAssumption DEF LiveAt, SignInShape, AttemptRecords, Horizon, SignInAssumption
    <3>2. fails'[k] = {} /\ record'[k] = NoRecord
      BY <1>1, <2>1, <3>1, OutOfWindow DEF SignInShape
    <3> QED
      BY <1>1, <3>2, Forgotten
  <2>2. CASE ~ranOut /\ live
    <3>1. record'[k] = record[k] /\ fails'[k] = fails[k]
      BY <1>1, <2>2 DEF SignInShape
    <3>2. InFlight(k)' \subseteq InFlight(k)
      BY <1>0, <1>1, <2>2 DEF SignInShape, InFlight
    <3> QED
      BY <1>1, <3>1, <3>2, Untouched
  <2>3. CASE ~ranOut /\ ~live
    <3>1. record'[k] = record[k] /\ fails'[k] = fails[k] /\ ~record[k].locked
      BY <1>1, <2>3 DEF SignInShape
    <3>2. record[k].attempts \in Nat /\ record[k].attempts < LockThreshold
      BY <1>1, <3>1, SignInAssumption DEF SignInShape, AttemptRecords, LockShape, SignInAssumption
    <3>3. GuessesLeft(k)'
      BY <1>1, <3>1, <3>2, RoomLeft
    <3> QED
      BY <1>1, <3>1, <3>3 DEF LockShape, FailuresCounted
  <2> QED
    BY <2>1, <2>2, <2>3
<1>6. DOMAIN fails' = Keys
  BY <1>1
<1> QED
  BY <1>3, <1>4, <1>5, <1>6
\* A failure: one guess in flight fewer, one attempt more.  What Current forgets is out
\* of the window.
LEMMA StepRecordFailure ==
  ASSUME SignInInv, NEW t \in Threads, RecordFailure(t)
  PROVE  SignInInv'
<1> USE DEF SignInInv
<1>0. PICK k \in Keys : k = key[t]
  BY DEF SignInShape
<1> DEFINE at == clock[t]
           r == Current(record[k], at)
           n == r.attempts + 1
           new == IF n >= LockThreshold
                  THEN [attempts |-> n, locked |-> TRUE, until |-> at + LockDuration, last |-> at]
                  ELSE [r EXCEPT !.attempts = n, !.last = at]
<1>1. PICK out \in Room(k) :
        /\ record' = [j \in Keys |-> IF j = k THEN new ELSE IF j \in out THEN NoRecord ELSE record[j]]
        /\ fails' = [j \in Keys |-> IF j = k THEN OneMore(fails[k]) ELSE IF j \in out THEN {} ELSE fails[j]]
  BY <1>0 DEF RecordFailure
<1>2. /\ pc[t] = "wrong" /\ pc' = [pc EXCEPT ![t] = "idle"]
      /\ key' = [key EXCEPT ![t] = NoKey] /\ NoKey \in Keys
      /\ clock' = [clock EXCEPT ![t] = 0] /\ 0 \in -MaxLag .. 0 /\ at \in -MaxLag .. 0
  BY SignInAssumption DEF SignInShape, RecordFailure, SignInGoto, NoKey, SignInAssumption
<1>3. /\ record[k] \in AttemptRecords /\ LockShape(k)
      /\ (r = NoRecord /\ fails[k] = {}) \/ r = record[k]
  <2>1. at - record[k].last > GuessWindow => fails[k] = {}
    BY <1>2, OutOfWindow
  <2> QED
    BY <2>1 DEF Current, SignInShape
<1>4. /\ r \in AttemptRecords /\ n \in Nat \ {0} /\ n <= record[k].attempts + 1
      /\ r.locked <=> r.attempts >= LockThreshold
  <2>1. NoRecord \in AttemptRecords /\ NoRecord.attempts = 0 /\ ~NoRecord.locked
    BY SignInAssumption DEF AttemptRecords, NoRecord, Horizon, SignInAssumption
  <2>2. r \in AttemptRecords /\ (r.locked <=> r.attempts >= LockThreshold) /\ r.attempts <= record[k].attempts
    <3>1. record[k].attempts \in Nat
      BY <1>3 DEF AttemptRecords
    <3> QED
      BY <1>3, <2>1, <3>1, SignInAssumption DEF LockShape, SignInAssumption
  <2>3. r.attempts \in Nat /\ record[k].attempts \in Nat
    BY <1>3, <2>2 DEF AttemptRecords
  <2> HIDE DEF r
  <2> QED
    BY <2>2, <2>3
<1>5. /\ new \in AttemptRecords /\ new.attempts = n /\ new.last = at
      /\ new.locked <=> n >= LockThreshold
      /\ new.locked => new.until = LockDuration + at
  <2>0. at \in Horizon .. 0 /\ at + LockDuration \in Horizon .. LockDuration
    BY <1>2, SignInAssumption DEF Horizon, SignInAssumption
  <2> HIDE DEF r, at
  <2>1. CASE n >= LockThreshold
    BY <1>4, <2>0, <2>1, SignInAssumption DEF AttemptRecords, Horizon, SignInAssumption
  <2>2. CASE ~(n >= LockThreshold)
    <3>1. ~r.locked
      BY <1>4, <2>2, SignInAssumption DEF AttemptRecords, SignInAssumption
    <3>2. new = [r EXCEPT !.attempts = n, !.last = at]
      BY <2>2
    <3>3. /\ r.until \in Horizon .. LockDuration
          /\ r = [attempts |-> r.attempts, locked |-> r.locked, until |-> r.until, last |-> r.last]
      BY <1>4, SignInAssumption DEF AttemptRecords, SignInAssumption
    <3>4. new = [attempts |-> n, locked |-> r.locked, until |-> r.until, last |-> at]
      BY <3>2, <3>3
    <3> QED
      BY <1>4, <2>0, <2>2, <3>1, <3>3, <3>4 DEF AttemptRecords
  <2> QED
    BY <2>1, <2>2
<1> HIDE DEF new
<1>6. record'[k] = new /\ fails'[k] = OneMore(fails[k])
  BY <1>1
<1>7. LockShape(k)'
  BY <1>4, <1>5, <1>6, SignInAssumption DEF LockShape, AttemptRecords, SignInAssumption
<1>8. FailuresCounted(k)'
  <2>1. FailuresCounted(k)
    OBVIOUS
  <2>2. /\ IsFiniteSet(OneMore(fails[k])) /\ Cardinality(OneMore(fails[k])) = Cardinality(fails[k]) + 1
        /\ OneMore(fails[k]) \subseteq (0 .. SureWindow - 1) \X Nat
        /\ \A f \in OneMore(fails[k]) : f[1] = 0 => f[2] <= Cardinality({g \in OneMore(fails[k]) : g[1] = 0})
    <3> DEFINE S == fails[k]
    <3>1. /\ IsFiniteSet(S) /\ S \subseteq (0 .. SureWindow - 1) \X Nat
          /\ \A f \in S : f[1] = 0 => f[2] <= Cardinality({g \in S : g[1] = 0})
      BY <2>1 DEF FailuresCounted
    <3>2. SureWindow \in Nat \ {0}
      BY SignInAssumption DEF SureWindow, SignInAssumption
    <3> HIDE DEF S
    <3>3. /\ IsFiniteSet(OneMore(S)) /\ Cardinality(OneMore(S)) = Cardinality(S) + 1
          /\ OneMore(S) \subseteq (0 .. SureWindow - 1) \X Nat
          /\ \A f \in OneMore(S) : f[1] = 0 => f[2] <= Cardinality({g \in OneMore(S) : g[1] = 0})
      BY <3>1, <3>2, OneMoreCounts
    <3> QED
      BY <3>3 DEF S
  <2>3. Cardinality(fails[k]) <= r.attempts
    <3>1. r.attempts \in Nat
      BY <1>4 DEF AttemptRecords
    <3> QED
      BY <1>3, <2>1, <3>1, FS_EmptySet DEF FailuresCounted
  <2>4. Cardinality(fails[k]) + 1 <= n
    BY <1>4, <2>1, <2>3, FS_CardinalityType DEF FailuresCounted, AttemptRecords
  <2>5. \A f \in OneMore(fails[k]) : f[1] + MaxLag >= -at
    <3>1. SureWindow \in Nat /\ MaxLag \in Nat
      BY SignInAssumption DEF SureWindow, SignInAssumption
    <3>2. \A f \in OneMore(fails[k]) : f[1] \in Nat
      BY <2>2, <3>1
    <3> QED
      BY <1>2, <3>1, <3>2
  <2> HIDE DEF at, r
  <2> QED
    BY <1>5, <1>6, <2>2, <2>4, <2>5 DEF FailuresCounted
<1>9. GuessesLeft(k)'
  <2>1. t \in InFlight(k) /\ InFlight(k)' = InFlight(k) \ {t}
    BY <1>0, <1>2 DEF InFlight, SignInShape
  <2>2. record[k].attempts \in Nat /\ record'[k].attempts \in Nat /\ record'[k].attempts <= record[k].attempts + 1
    BY <1>3, <1>4, <1>5, <1>6 DEF AttemptRecords
  <2> QED
    BY <2>1, <2>2, RoomLeft
<1>10. ASSUME NEW j \in Keys, j # k PROVE (LockShape(j) /\ FailuresCounted(j) /\ GuessesLeft(j))'
  <2>1. CASE j \in out
    BY <1>1, <1>10, <2>1, Forgotten
  <2>2. CASE j \notin out
    <3>1. record'[j] = record[j] /\ fails'[j] = fails[j]
      BY <1>1, <1>10, <2>2
    <3>2. InFlight(j)' \subseteq InFlight(j)
      BY <1>0, <1>2, <1>10 DEF SignInShape, InFlight
    <3> QED
      BY <3>1, <3>2, Untouched
  <2> QED
    BY <2>1, <2>2
<1>11. SignInShape'
  <2>1. record' \in [Keys -> AttemptRecords]
    <3>1. NoRecord \in AttemptRecords
      BY SignInAssumption DEF NoRecord, AttemptRecords, Horizon, SignInAssumption
    <3> QED
      BY <1>1, <1>5, <3>1 DEF SignInShape
  <2>2. /\ pc' \in [Threads -> AttemptLabels] /\ key' \in [Threads -> Keys]
        /\ clock' \in [Threads -> -MaxLag .. 0]
    BY <1>2 DEF SignInShape, AttemptLabels
  <2>3. Known' = (Known \ out) \cup {k}
    BY <1>1, <1>4, <1>5 DEF Known, NoRecord
  <2>4. IsFiniteSet(Known') /\ Cardinality(Known') <= LockEntries
    <3>1. IsFiniteSet(Known) /\ Cardinality(Known) <= LockEntries /\ Cardinality(Known) \in Nat
      BY FS_CardinalityType DEF SignInShape
    <3>2. CASE k \notin Known /\ Cardinality(Known) >= LockEntries
      <4>1. PICK j \in Known : out = {j}
        BY <1>1, <3>2 DEF Room, Known
      <4>2. IsFiniteSet(Known \ {j}) /\ Cardinality(Known \ {j}) = Cardinality(Known) - 1
        BY <3>1, FS_RemoveElement
      <4>3. Known' = (Known \ {j}) \cup {k} /\ k \notin Known \ {j}
        BY <2>3, <3>2, <4>1
      <4>4. IsFiniteSet(Known') /\ Cardinality(Known') = Cardinality(Known) - 1 + 1
        BY <4>2, <4>3, FS_AddElement
      <4> QED
        BY <3>1, <4>4
    <3>3. CASE k \in Known
      <4>1. Known' \subseteq Known
        BY <2>3, <3>3
      <4> QED
        BY <4>1, NoneAdded
    <3>4. CASE k \notin Known /\ ~(Cardinality(Known) >= LockEntries)
      <4>1. out = {}
        BY <1>1, <3>4 DEF Room, Known
      <4>2. Known' = Known \cup {k}
        BY <2>3, <4>1
      <4>3. IsFiniteSet(Known') /\ Cardinality(Known') = Cardinality(Known) + 1
        BY <3>1, <3>4, <4>2, FS_AddElement
      <4> QED
        BY <3>1, <3>4, <4>3, SignInAssumption DEF SignInAssumption
    <3> QED
      BY <3>2, <3>3, <3>4
  <2> QED
    BY <2>1, <2>2, <2>4 DEF SignInShape
<1>12. DOMAIN fails' = Keys
  BY <1>1
<1> QED
  BY <1>7, <1>8, <1>9, <1>10, <1>11, <1>12

\* Time: nothing is younger or lasts longer than before.
LEMMA StepLockTick ==
  ASSUME SignInInv, LockTick
  PROVE  SignInInv'
<1> USE SignInAssumption DEF SignInInv, SignInAssumption
<1>1. UNCHANGED <<pc, key>> /\ (clock \in [Threads -> -MaxLag .. 0])'
  <2>1. /\ UNCHANGED <<pc, key>>
        /\ clock' = [t \in Threads |-> IF Clocked(t) THEN clock[t] - 1 ELSE clock[t]]
    BY DEF LockTick
  <2>2. ASSUME NEW t \in Threads
        PROVE  (IF Clocked(t) THEN clock[t] - 1 ELSE clock[t]) \in -MaxLag .. 0
    <3>1. clock[t] \in -MaxLag .. 0 /\ (Clocked(t) => clock[t] > -MaxLag)
      BY DEF LockTick, SignInShape
    <3> HIDE DEF SignInInv
    <3> QED
      BY <3>1
  <2> HIDE DEF SignInInv
  <2> QED
    BY <2>1, <2>2
<1>2. ASSUME NEW k \in Keys
      PROVE  /\ record[k] \in AttemptRecords /\ record'[k] \in AttemptRecords
             /\ record'[k].attempts = record[k].attempts /\ record'[k].locked = record[k].locked
             /\ record[k].attempts = 0 => record'[k] = NoRecord
             /\ record[k].attempts # 0 => record'[k].last = Earlier(record[k].last)
             /\ record'[k].until = IF record[k].locked THEN Earlier(record[k].until) ELSE record[k].until
             /\ fails'[k] = Aged(fails[k], SureWindow)
  <2>1. record[k] \in AttemptRecords /\ LockShape(k)
    BY DEF SignInShape
  <2>2. /\ record'[k] = IF record[k] = NoRecord THEN NoRecord
                         ELSE [record[k] EXCEPT !.last = Earlier(@),
                                                !.until = IF record[k].locked THEN Earlier(@) ELSE @]
        /\ fails'[k] = Aged(fails[k], SureWindow)
    BY DEF LockTick
  <2>3. CASE record[k] = NoRecord
    <3>1. record'[k] = NoRecord /\ NoRecord.attempts = 0 /\ NoRecord.locked = FALSE
      BY <2>2, <2>3 DEF NoRecord
    <3> QED
      BY <2>1, <2>2, <2>3, <3>1
  <2>4. CASE record[k] # NoRecord
    <3> DEFINE r == record[k]
               older == [r EXCEPT !.last = Earlier(@), !.until = IF r.locked THEN Earlier(@) ELSE @]
    <3>1. r.attempts # 0
      BY <2>1, <2>4 DEF LockShape
    <3>2. /\ r.last \in Horizon .. 0 => Earlier(r.last) \in Horizon .. 0
          /\ r.until \in Horizon .. LockDuration => Earlier(r.until) \in Horizon .. LockDuration
      BY DEF Earlier, Horizon
    <3>3. older \in AttemptRecords /\ older.attempts = r.attempts /\ older.locked = r.locked
          /\ older.last = Earlier(r.last) /\ older.until = IF r.locked THEN Earlier(r.until) ELSE r.until
      BY <2>1, <3>2 DEF AttemptRecords
    <3> QED
      BY <2>1, <2>2, <2>4, <3>1, <3>3
  <2> QED
    BY <2>3, <2>4
<1>3. ASSUME NEW k \in Keys PROVE (LockShape(k) /\ FailuresCounted(k) /\ GuessesLeft(k))'
  <2>1. LockShape(k) /\ FailuresCounted(k) /\ GuessesLeft(k)
    OBVIOUS
  <2>2. LockShape(k)'
    BY <1>2, <2>1 DEF LockShape, AttemptRecords, Earlier, Horizon
  <2>3. FailuresCounted(k)'
    <3>1. /\ IsFiniteSet(fails'[k]) /\ Cardinality(fails'[k]) <= Cardinality(fails[k])
          /\ fails'[k] \subseteq (1 .. SureWindow - 1) \X Nat
          /\ \A f \in fails'[k] : \E g \in fails[k] : f[1] = g[1] + 1
      <4>1. SureWindow \in Nat \ {0}
        BY DEF SureWindow
      <4> QED
        BY <1>2, <2>1, <4>1, AgedCounts DEF FailuresCounted
    <3>2. Cardinality(fails'[k]) <= record'[k].attempts
      BY <1>2, <2>1, <3>1, FS_CardinalityType DEF FailuresCounted, AttemptRecords
    <3>3. ASSUME NEW f \in fails'[k] PROVE f[1] + MaxLag >= -record'[k].last
      <4>1. PICK g \in fails[k] : f[1] = g[1] + 1
        BY <3>1
      <4>2. g[1] \in Nat /\ g[1] + MaxLag >= -record[k].last /\ f[1] \in Nat
        BY <2>1, <3>1 DEF FailuresCounted, SureWindow
      <4> QED
        BY <1>2, <4>1, <4>2 DEF Earlier, AttemptRecords, NoRecord, Horizon
    <3>4. \A f \in fails'[k] : f[1] # 0
      BY <3>1
    <3> QED
      BY <3>1, <3>2, <3>3, <3>4 DEF FailuresCounted
  <2>4. InFlight(k)' = InFlight(k)
    BY <1>1 DEF InFlight
  <2> QED
    BY <1>2, <2>1, <2>2, <2>3, <2>4, RoomLeft DEF AttemptRecords
<1>4. SignInShape'
  <2>1. record' \in [Keys -> AttemptRecords]
    <3>1. DOMAIN record' = Keys /\ record' = [k \in Keys |-> record'[k]]
      BY DEF LockTick
    <3> QED
      BY <1>2, <3>1
  <2>2. Known' \subseteq Known
    BY <1>2 DEF Known
  <2> QED
    BY <1>1, <2>1, <2>2, NoneAdded DEF SignInShape
<1>5. DOMAIN fails' = Keys
  BY DEF LockTick
<1> QED
  BY <1>3, <1>4, <1>5
LEMMA StepClear ==
  ASSUME SignInInv, NEW t \in Threads, Clear(t)
  PROVE  SignInInv'
<1> USE DEF SignInInv
<1>0. PICK k \in Keys : k = key[t]
  BY DEF SignInShape
<1>1. /\ record' = [record EXCEPT ![k] = NoRecord] /\ fails' = [fails EXCEPT ![k] = {}]
      /\ pc' = [pc EXCEPT ![t] = "idle"] /\ key' = [key EXCEPT ![t] = NoKey] /\ NoKey \in Keys
      /\ clock' = [clock EXCEPT ![t] = 0] /\ 0 \in -MaxLag .. 0
  BY <1>0, SignInAssumption DEF Clear, SignInGoto, NoKey, SignInAssumption
<1>2. ASSUME NEW j \in Keys PROVE (LockShape(j) /\ FailuresCounted(j) /\ GuessesLeft(j))'
  <2>1. CASE j = k
    BY <1>1, <2>1, Forgotten DEF SignInShape
  <2>2. CASE j # k
    <3>1. record'[j] = record[j] /\ fails'[j] = fails[j]
      BY <1>1, <2>2 DEF SignInShape
    <3>2. InFlight(j)' \subseteq InFlight(j)
      BY <1>0, <1>1 DEF SignInShape, InFlight
    <3> QED
      BY <3>1, <3>2, Untouched
  <2> QED
    BY <2>1, <2>2
<1>3. SignInShape'
  <2>1. NoRecord \in AttemptRecords
    BY SignInAssumption DEF NoRecord, AttemptRecords, Horizon, SignInAssumption
  <2>2. Known' \subseteq Known
    BY <1>1 DEF Known, SignInShape, NoRecord
  <2> QED
    BY <1>1, <2>1, <2>2, NoneAdded DEF SignInShape, AttemptLabels
<1> QED
  BY <1>1, <1>2, <1>3

LEMMA StepLockoutCleanup ==
  ASSUME SignInInv, LockoutCleanup
  PROVE  SignInInv'
<1> USE DEF SignInInv
<1>1. UNCHANGED <<pc, key, clock, fails>>
  BY DEF LockoutCleanup
<1>2. ASSUME NEW k \in Keys
      PROVE  record'[k] = record[k] \/ (record'[k] = NoRecord /\ fails[k] = {})
  <2>1. record[k] \in AttemptRecords
    BY DEF SignInShape
  <2>2. PICK at \in -MaxLag .. 0 :
          record' = [j \in Keys |-> IF Retained(record[j], at) THEN record[j] ELSE NoRecord]
    BY DEF LockoutCleanup
  <2>3. ASSUME ~Retained(record[k], at)
        PROVE  (record[k].locked /\ record[k].until <= at) \/ at - record[k].last > GuessWindow
    BY <2>1, <2>3, SignInAssumption DEF Retained, AttemptRecords, Horizon, SignInAssumption
  <2>4. ~Retained(record[k], at) => fails[k] = {}
    BY <2>3, OutOfWindow
  <2> QED
    BY <2>2, <2>4
<1>3. ASSUME NEW k \in Keys PROVE (LockShape(k) /\ FailuresCounted(k) /\ GuessesLeft(k))'
  <2>1. InFlight(k)' \subseteq InFlight(k)
    BY <1>1 DEF InFlight
  <2> QED
    BY <1>1, <1>2, <2>1, Forgotten, Untouched
<1>4. SignInShape'
  <2>1. record' \in [Keys -> AttemptRecords]
    <3>1. record' = [k \in Keys |-> record'[k]] /\ NoRecord \in AttemptRecords
      BY SignInAssumption DEF LockoutCleanup, NoRecord, AttemptRecords, Horizon, SignInAssumption
    <3> QED
      BY <1>2, <3>1 DEF SignInShape
  <2>2. Known' \subseteq Known
    BY <1>2 DEF Known, NoRecord
  <2> QED
    BY <1>1, <2>1, <2>2, NoneAdded DEF SignInShape
<1> QED
  BY <1>1, <1>3, <1>4

LEMMA StepSignIn == SignInInv /\ [SignInNext]_signInVars => SignInInv'
<1> SUFFICES ASSUME SignInInv, [SignInNext]_signInVars PROVE SignInInv'
  OBVIOUS
<1>1. ASSUME NEW t \in Threads, NEW k \in Keys, SigninArrives(t, k) PROVE SignInInv'
  <2>1. /\ (pc \in [Threads -> AttemptLabels])' /\ (key \in [Threads -> Keys])'
        /\ (clock \in [Threads -> -MaxLag .. 0])'
        /\ \A j \in Keys : InFlight(j)' \subseteq InFlight(j)
    BY <1>1, SignInAssumption DEF SigninArrives, SignInAssumption, SignInInv, SignInShape, AttemptLabels, InFlight
  <2> QED
    BY <1>1, <2>1, StoreStays DEF SigninArrives
<1>2. ASSUME NEW t \in Threads, Verify(t) PROVE SignInInv'
  <2>1. NoKey \in Keys
    BY SignInAssumption DEF NoKey, SignInAssumption
  <2>2. PICK l \in {"wrong", "right", "idle"} : SignInGoto(t, l)
    BY <1>2 DEF Verify
  <2>3. /\ pc' = [pc EXCEPT ![t] = l] /\ pc[t] = "verify"
        /\ key' = [key EXCEPT ![t] = IF l = "idle" THEN NoKey ELSE key[t]]
        /\ clock' = [clock EXCEPT ![t] = 0] /\ 0 \in -MaxLag .. 0
    BY <1>2, <2>2, SignInAssumption DEF Verify, SignInGoto, SignInInv, SignInShape, SignInAssumption
  <2>4. /\ (pc \in [Threads -> AttemptLabels])' /\ (key \in [Threads -> Keys])'
        /\ (clock \in [Threads -> -MaxLag .. 0])'
        /\ \A j \in Keys : InFlight(j)' \subseteq InFlight(j)
    BY <2>1, <2>3 DEF SignInInv, SignInShape, AttemptLabels, InFlight
  <2> QED
    BY <1>2, <2>4, StoreStays DEF Verify
<1>3. CASE UNCHANGED signInVars
  <2>1. /\ (pc \in [Threads -> AttemptLabels])' /\ (key \in [Threads -> Keys])'
        /\ (clock \in [Threads -> -MaxLag .. 0])'
        /\ \A j \in Keys : InFlight(j)' \subseteq InFlight(j)
    BY <1>3 DEF signInVars, SignInInv, SignInShape, InFlight
  <2> QED
    BY <1>3, <2>1, StoreStays DEF signInVars
<1> QED
  BY <1>1, <1>2, <1>3, StepIsLocked, StepRecordFailure, StepClear, StepLockoutCleanup, StepLockTick
  DEF SignInNext, Attempt

\* The inductive invariant of the lockout.
THEOREM SignInInvariant == SignInSpec => []SignInInv
  BY InitSignIn, StepSignIn, PTL DEF SignInSpec

\* In no window, less the time a clock may be late, do more guesses of one key fail than
\* the threshold and the other request threads together allow, however many are in flight
\* when the lock comes (is_locked, record_failure), and whatever the limits.
THEOREM GuessesStayBounded == SignInSpec => []GuessesBounded
<1>1. SignInInv => GuessesBounded
  <2> SUFFICES ASSUME SignInInv, NEW k \in Keys
               PROVE  Cardinality(fails[k]) <= LockThreshold + Cardinality(Threads) - 1
    BY DEF GuessesBounded
  <2>1. /\ record[k].attempts \in Nat /\ GuessesLeft(k)
        /\ IsFiniteSet(fails[k]) /\ Cardinality(fails[k]) <= record[k].attempts
    BY DEF SignInInv, SignInShape, AttemptRecords, FailuresCounted
  <2>2. /\ Cardinality(InFlight(k)) \in Nat /\ Cardinality(Threads) \in Nat
        /\ Cardinality(fails[k]) \in Nat /\ LockThreshold \in Nat
    BY <2>1, FS_Subset, FS_CardinalityType, SignInAssumption DEF InFlight, SignInAssumption
  <2> QED
    BY <2>1, <2>2 DEF GuessesLeft
<1> QED
  BY <1>1, SignInInvariant, PTL

\* The types of the lockout, with the bound of the store: it is kept by every call, the
\* janitor is not needed for it (make_room).
THEOREM LockoutTypes == SignInSpec => []SignInTypes
<1>1. SignInInv => SignInTypes
  <2> SUFFICES ASSUME SignInInv PROVE SignInTypes
    OBVIOUS
  <2>1. ASSUME NEW k \in Keys
        PROVE  /\ record[k].attempts \in 0 .. LockThreshold + Cardinality(Threads) - 1
               /\ record[k].last \in Horizon .. 0
               /\ record[k].until \in Horizon .. LockDuration
               /\ record[k].locked <=> record[k].attempts >= LockThreshold
    <3>1. /\ record[k] \in AttemptRecords /\ GuessesLeft(k)
          /\ record[k].locked <=> record[k].attempts >= LockThreshold
      BY DEF SignInInv, SignInShape, LockShape
    <3>2. Cardinality(InFlight(k)) \in Nat /\ Cardinality(Threads) \in Nat /\ LockThreshold \in Nat
      BY FS_Subset, FS_CardinalityType, SignInAssumption DEF InFlight, SignInAssumption
    <3> QED
      BY <3>1, <3>2 DEF AttemptRecords, GuessesLeft
  <2> QED
    BY <2>1 DEF SignInTypes, SignInInv, SignInShape, AttemptLabels, Known
<1> QED
  BY <1>1, SignInInvariant, PTL

\* A step that ends a live lock does so for one of the three reasons.
LEMMA LiveLockEnds ==
  ASSUME SignInInv, [SignInNext]_signInVars, NEW k \in Keys, Live(k), ~Live(k)'
  PROVE  \/ record'[k].attempts > 0 /\ record'[k].until <= 0
         \/ \E t \in Threads : pc[t] = "right" /\ key[t] = k /\ pc'[t] = "idle"
         \/ \A j \in Keys : record[j].attempts > 0 => Live(j)
<1> USE SignInAssumption DEF SignInAssumption
<1>1. /\ record[k] \in AttemptRecords /\ record[k].locked /\ record[k].until > 0
      /\ record[k].attempts > 0 /\ record'[k] # record[k]
  <2>1. record[k] \in AttemptRecords /\ (record[k].locked <=> record[k].attempts >= LockThreshold)
    BY DEF SignInInv, SignInShape, LockShape
  <2> QED
    BY <2>1 DEF Live, LiveAt, AttemptRecords, Horizon
<1>2. ASSUME NEW t \in Threads, IsLocked(t) PROVE FALSE
  <2>1. CASE key[t] = k
    <3>1. LiveAt(record[k], clock[t])
      BY <1>1 DEF LiveAt, SignInInv, SignInShape, AttemptRecords, Horizon
    <3> QED
      BY <1>1, <1>2, <2>1, <3>1 DEF IsLocked, SignInInv, SignInShape
  <2>2. CASE key[t] # k
    BY <1>1, <1>2, <2>2 DEF IsLocked, SignInInv, SignInShape
  <2> QED
    BY <2>1, <2>2
<1>3. ASSUME NEW t \in Threads, Clear(t)
      PROVE  pc[t] = "right" /\ key[t] = k /\ pc'[t] = "idle"
  BY <1>1, <1>3 DEF Clear, SignInGoto, SignInInv, SignInShape
<1>4. CASE LockoutCleanup
  <2>1. PICK at \in -MaxLag .. 0 : record'[k] = IF Retained(record[k], at) THEN record[k] ELSE NoRecord
    BY <1>4 DEF LockoutCleanup
  <2>2. Retained(record[k], at)
    BY <1>1 DEF Retained, AttemptRecords, Horizon
  <2> QED
    BY <1>1, <2>1, <2>2
<1>5. CASE LockTick
  <2>1. record'[k] = [record[k] EXCEPT !.last = Earlier(@),
                                       !.until = IF record[k].locked THEN Earlier(@) ELSE @]
    BY <1>1, <1>5 DEF LockTick, NoRecord
  <2>2. record'[k].attempts = record[k].attempts /\ record'[k].locked /\ record'[k].until \in Int
    BY <1>1, <2>1 DEF AttemptRecords, Earlier, Horizon
  <2> QED
    BY <1>1, <2>2 DEF Live, LiveAt
<1>6. ASSUME NEW t \in Threads, RecordFailure(t)
      PROVE  \/ record'[k].attempts > 0 /\ record'[k].until <= 0
             \/ \A j \in Keys : record[j].attempts > 0 => Live(j)
  <2>1. CASE key[t] = k
    <3> DEFINE at == clock[t]
               r == Current(record[k], at)
               n == r.attempts + 1
               new == IF n >= LockThreshold
                      THEN [attempts |-> n, locked |-> TRUE, until |-> at + LockDuration, last |-> at]
                      ELSE [r EXCEPT !.attempts = n, !.last = at]
    <3>1. record'[k] = new
      BY <1>6, <2>1 DEF RecordFailure
    <3>2. r = NoRecord \/ r = record[k]
      BY DEF Current
    <3>3. CASE n >= LockThreshold
      <4>1. at + LockDuration > 0
        BY DEF SignInInv, SignInShape
      <4> QED
        BY <1>1, <3>1, <3>3, <4>1 DEF Live, LiveAt
    <3>4. CASE ~(n >= LockThreshold) /\ r = record[k]
      <4>1. record[k].attempts >= LockThreshold
        BY <1>1 DEF SignInInv, LockShape
      <4> QED
        BY <1>1, <3>4, <4>1 DEF AttemptRecords
    <3>5. CASE ~(n >= LockThreshold) /\ r = NoRecord
      BY <3>1, <3>5 DEF NoRecord
    <3> QED
      BY <3>2, <3>3, <3>4, <3>5
  <2>2. CASE key[t] # k
    <3>1. PICK out \in Room(key[t]) : k \in out
      BY <1>1, <1>6, <2>2 DEF RecordFailure
    <3>2. ASSUME NEW j \in Keys, record[j].attempts > 0
          PROVE  record[k].until <= Rank(record[j])
      BY <1>1, <3>1, <3>2 DEF Room, Rank
    <3>3. ASSUME NEW j \in Keys, record[j].attempts > 0 PROVE Live(j)
      <4>1. record[j] \in AttemptRecords
        BY DEF SignInInv, SignInShape
      <4> QED
        BY <1>1, <3>2, <3>3, <4>1 DEF Rank, Live, LiveAt, AttemptRecords, Horizon
    <3> QED
      BY <3>3
  <2> QED
    BY <2>1, <2>2
<1>7. ASSUME NEW t \in Threads, (\E j \in Keys : SigninArrives(t, j)) \/ Verify(t) PROVE FALSE
  BY <1>1, <1>7 DEF SigninArrives, Verify
<1>8. CASE UNCHANGED signInVars
  BY <1>1, <1>8 DEF signInVars
<1> QED
  BY <1>2, <1>3, <1>4, <1>5, <1>6, <1>7, <1>8 DEF SignInNext, Attempt

\* A live lock is not evicted while there is a record without one, and nothing but time
\* and a right password ends it otherwise (evict, clear, is_locked, cleanup).
THEOREM LocksLast == SignInSpec => LocksOutlive
<1>1. SignInInv /\ [SignInNext]_signInVars
      => [\A k \in Keys : Live(k) /\ ~Live(k)' =>
            \/ record'[k].attempts > 0 /\ record'[k].until <= 0
            \/ \E t \in Threads : pc[t] = "right" /\ key[t] = k /\ pc'[t] = "idle"
            \/ \A j \in Keys : record[j].attempts > 0 => Live(j)]_signInVars
  BY LiveLockEnds
<1> QED
  BY <1>1, SignInInvariant, PTL DEF SignInSpec, LocksOutlive

-----------------------------------------------------------------------------
(***************************************************************************)
(* The rate limit: what a client gets through in a window.                 *)
(***************************************************************************)

\* The places of a sequence with an age under r.
Under(seq, r) == {k \in DOMAIN seq : seq[k] < r}

\* The threads that do not hold a clock r ticks old.
Fresh(r) == {t \in Threads : ~(pc[t] = "limit" /\ readAt[t] >= r)}

\* There are n places in a sequence of n.
LEMMA PlacesCounted ==
  ASSUME NEW n \in Nat
  PROVE  IsFiniteSet(1 .. n) /\ Cardinality(1 .. n) = n
  BY FS_Interval

\* Each entry picked is at one of the places, and each place gives one.
LEMMA PickedPlaces ==
  ASSUME NEW seq, NEW P, IsFiniteSet(P), P \subseteq Nat
  PROVE  /\ Cardinality(P) \in Nat
         /\ Picked(seq, P) = [n \in 1 .. Cardinality(P) |-> Picked(seq, P)[n]]
         /\ \E nth \in Bijection(1 .. Cardinality(P), P) :
              \A n \in 1 .. Cardinality(P) : Picked(seq, P)[n] = seq[nth[n]]
<1> DEFINE m == Cardinality(P)
           upTo(k) == {j \in P : j <= k}
           rank == [k \in P |-> Cardinality(upTo(k))]
           nth == [n \in 1 .. m |-> CHOOSE k \in P : Cardinality({j \in P : j <= k}) = n]
<1>1. m \in Nat
  BY FS_CardinalityType
<1>2. ASSUME NEW k \in P PROVE IsFiniteSet(upTo(k)) /\ Cardinality(upTo(k)) \in 1 .. m
  <2>1. IsFiniteSet(upTo(k)) /\ Cardinality(upTo(k)) <= m
    BY FS_Subset
  <2>2. upTo(k) # {}
    OBVIOUS
  <2>3. Cardinality(upTo(k)) \in Nat /\ Cardinality(upTo(k)) # 0
    BY <2>1, <2>2, FS_CardinalityType, FS_EmptySet
  <2> QED
    BY <1>1, <2>1, <2>3
<1>3. ASSUME NEW j \in P, NEW k \in P, rank[j] = rank[k] PROVE j = k
  <2>1. ASSUME NEW a \in P, NEW b \in P, a < b PROVE rank[a] # rank[b]
    <3>1. upTo(a) \subseteq upTo(b) /\ b \in upTo(b) /\ b \notin upTo(a)
      <4>1. a \in Nat /\ b \in Nat
        OBVIOUS
      <4> HIDE DEF rank, nth, m
      <4>2. ASSUME NEW i \in P, i <= a PROVE i <= b
        <5>1. i \in Nat
          BY <4>2
        <5> QED
          BY <2>1, <4>1, <4>2, <5>1
      <4>3. b <= b /\ ~ (b <= a)
        BY <2>1, <4>1
      <4> QED
        BY <4>2, <4>3
    <3>2. Cardinality(upTo(b)) = Cardinality(upTo(a)) => upTo(b) = upTo(a)
      <4>1. IsFiniteSet(upTo(b)) /\ upTo(a) \in SUBSET upTo(b)
        BY <1>2, <3>1
      <4> HIDE DEF upTo
      <4> QED
        BY <4>1, FS_Subset
    <3>3. rank[a] = Cardinality(upTo(a)) /\ rank[b] = Cardinality(upTo(b))
      OBVIOUS
    <3> HIDE DEF upTo, rank
    <3> QED
      BY <3>1, <3>2, <3>3
  <2> QED
    BY <1>3, <2>1
<1>4. rank \in Injection(P, 1 .. m)
  <2>1. rank \in [P -> 1 .. m]
    BY <1>2
  <2> HIDE DEF rank
  <2> QED
    BY <1>3, <2>1 DEF Injection, IsInjective
<1>5. rank \in Surjection(P, 1 .. m)
  <2>1. IsFiniteSet(1 .. m) /\ Cardinality(1 .. m) = m
    BY <1>1, PlacesCounted
  <2> HIDE DEF rank
  <2> QED
    BY <1>4, <2>1, FS_Injection
<1>6. ASSUME NEW n \in 1 .. m PROVE nth[n] \in P /\ rank[nth[n]] = n
  <2>1. PICK k \in P : rank[k] = n
    <3> HIDE DEF rank
    <3> QED
      BY <1>5 DEF Surjection
  <2>2. Cardinality({j \in P : j <= k}) = n
    BY <2>1
  <2>3. nth[n] \in P /\ Cardinality({j \in P : j <= nth[n]}) = n
    BY <2>2
  <2> QED
    BY <2>3
<1>7. nth \in Bijection(1 .. m, P)
  <2>1. nth \in [1 .. m -> P]
    BY <1>6
  <2>2. ASSUME NEW i \in 1 .. m, NEW j \in 1 .. m, nth[i] = nth[j] PROVE i = j
    BY <1>6, <2>2
  <2>3. ASSUME NEW k \in P PROVE \E n \in 1 .. m : nth[n] = k
    <3>1. rank[k] \in 1 .. m
      BY <1>2
    <3>2. nth[rank[k]] \in P /\ rank[nth[rank[k]]] = rank[k]
      BY <1>6, <3>1
    <3> QED
      BY <1>3, <3>1, <3>2
  <2> HIDE DEF nth
  <2> QED
    BY <2>1, <2>2, <2>3 DEF Bijection, Injection, Surjection, IsInjective
<1>8. Picked(seq, P) = [n \in 1 .. m |-> Picked(seq, P)[n]]
  BY DEF Picked
<1>9. ASSUME NEW n \in 1 .. m PROVE Picked(seq, P)[n] = seq[nth[n]]
  BY DEF Picked
<1> HIDE DEF nth
<1> QED
  BY <1>1, <1>7, <1>8, <1>9

\* The times that leave the window are none of those younger than it.
LEMMA WindowKeeps ==
  ASSUME NEW times \in Seq(Nat), NEW stamp \in Int
  PROVE  /\ InWindow(times, stamp) \in Seq(Nat) /\ Len(InWindow(times, stamp)) <= Len(times)
         /\ \A r \in Int : r <= stamp + RateWindow =>
              Cardinality(Under(InWindow(times, stamp), r)) = Cardinality(Under(times, r))
         /\ times # <<>> /\ times[1] >= stamp + RateWindow => Len(InWindow(times, stamp)) < Len(times)
<1> DEFINE P == {k \in DOMAIN times : times[k] < stamp + RateWindow}
           m == Cardinality(P)
<1>1. /\ DOMAIN times = 1 .. Len(times) /\ Len(times) \in Nat
      /\ \A k \in 1 .. Len(times) : times[k] \in Nat
  OBVIOUS
<1>2. IsFiniteSet(1 .. Len(times)) /\ Cardinality(1 .. Len(times)) = Len(times)
  BY <1>1, PlacesCounted
<1>3. P \subseteq 1 .. Len(times) /\ P \subseteq Nat
  BY <1>1
<1>4. IsFiniteSet(P) /\ m <= Len(times) /\ (m = Len(times) => P = 1 .. Len(times))
  BY <1>2, <1>3, FS_Subset
<1>5. InWindow(times, stamp) = Picked(times, P)
  BY DEF InWindow
<1>6. ASSUME times # <<>>, times[1] >= stamp + RateWindow PROVE m # Len(times)
  <2>1. 1 \in 1 .. Len(times) /\ 1 \notin P
    BY <1>1, <1>6, LimitsAssumption DEF LimitsAssumption
  <2> QED
    BY <1>4, <2>1
<1> HIDE DEF P
<1>7. m \in Nat
  BY <1>3, <1>4, FS_CardinalityType
<1>8. PICK nth \in Bijection(1 .. m, P) : \A n \in 1 .. m : Picked(times, P)[n] = times[nth[n]]
  <2>1. IsFiniteSet(P) /\ P \subseteq Nat
    BY <1>3, <1>4
  <2>2. \E nth \in Bijection(1 .. Cardinality(P), P) :
          \A n \in 1 .. Cardinality(P) : Picked(times, P)[n] = times[nth[n]]
    BY <2>1, PickedPlaces
  <2> QED
    BY <2>2, Zenon DEF m
<1>9. nth \in [1 .. m -> P] /\ (\A i, j \in 1 .. m : nth[i] = nth[j] => i = j)
      /\ (\A k \in P : \E n \in 1 .. m : nth[n] = k)
  BY <1>8 DEF Bijection, Injection, Surjection, IsInjective
<1> HIDE DEF m
<1>10. Picked(times, P) = [n \in 1 .. m |-> Picked(times, P)[n]]
  BY <1>3, <1>4, PickedPlaces DEF m
<1>11. /\ InWindow(times, stamp) = [n \in 1 .. m |-> times[nth[n]]]
       /\ \A n \in 1 .. m : times[nth[n]] \in Nat
  BY <1>1, <1>3, <1>5, <1>8, <1>9, <1>10
<1>12. InWindow(times, stamp) \in Seq(Nat) /\ Len(InWindow(times, stamp)) = m
  BY <1>7, <1>11
<1>13. ASSUME NEW r \in Int, r <= stamp + RateWindow
       PROVE  Cardinality(Under(InWindow(times, stamp), r)) = Cardinality(Under(times, r))
  <2> DEFINE new == Under(InWindow(times, stamp), r)
             old == Under(times, r)
             f == [n \in new |-> nth[n]]
  <2>1. new = {n \in 1 .. m : times[nth[n]] < r}
    BY <1>11 DEF Under
  <2>2. old = {k \in P : times[k] < r}
    BY <1>1, <1>13, LimitsAssumption DEF Under, P, LimitsAssumption
  <2>3. f \in [new -> old]
    BY <1>9, <2>1, <2>2
  <2>4. \A i, j \in new : f[i] = f[j] => i = j
    BY <1>9, <2>1
  <2>5. \A k \in old : \E n \in new : f[n] = k
    BY <1>9, <2>1, <2>2
  <2>6. IsFiniteSet(old)
    BY <1>4, <2>2, FS_Subset
  <2> HIDE DEF new, old, f
  <2>7. f \in Bijection(new, old)
    BY <2>3, <2>4, <2>5 DEF Bijection, Injection, Surjection, IsInjective
  <2>8. f \in Injection(new, old) /\ f \in Surjection(new, old)
    BY <2>7 DEF Bijection
  <2>9. Cardinality(new) = Cardinality(old)
    BY <2>6, <2>8, FS_Injection
  <2> QED
    BY <2>9 DEF new, old
<1>14. Len(InWindow(times, stamp)) <= Len(times)
  BY <1>4, <1>12 DEF m
<1>15. times # <<>> /\ times[1] >= stamp + RateWindow => Len(InWindow(times, stamp)) < Len(times)
  BY <1>1, <1>4, <1>6, <1>7, <1>12 DEF m
<1> QED
  BY <1>12, <1>13, <1>14, <1>15

\* One time more is one more under each age above it.
LEMMA AppendUnder ==
  ASSUME NEW times \in Seq(Nat), NEW stamp \in Nat, NEW r \in Int
  PROVE  /\ IsFiniteSet(Under(times, r)) /\ Cardinality(Under(times, r)) \in Nat
         /\ Cardinality(Under(times, r)) <= Len(times)
         /\ Cardinality(Under(Append(times, stamp), r))
              = Cardinality(Under(times, r)) + (IF stamp < r THEN 1 ELSE 0)
<1>1. /\ DOMAIN times = 1 .. Len(times) /\ Len(times) \in Nat
      /\ DOMAIN Append(times, stamp) = 1 .. Len(times) + 1
      /\ \A k \in 1 .. Len(times) : Append(times, stamp)[k] = times[k]
      /\ Append(times, stamp)[Len(times) + 1] = stamp
  OBVIOUS
<1>2. IsFiniteSet(1 .. Len(times)) /\ Cardinality(1 .. Len(times)) = Len(times)
  <2>1. Len(times) \in Nat
    BY <1>1
  <2> QED
    BY <2>1, PlacesCounted
<1>3. Under(times, r) \subseteq 1 .. Len(times)
  BY <1>1 DEF Under
<1>4. /\ IsFiniteSet(Under(times, r)) /\ Cardinality(Under(times, r)) \in Nat
      /\ Cardinality(Under(times, r)) <= Len(times)
  BY <1>2, <1>3, FS_Subset, FS_CardinalityType
<1>5. Len(times) + 1 \notin Under(times, r)
  BY <1>1, <1>3
<1>6. CASE stamp < r
  <2>1. Under(Append(times, stamp), r) = Under(times, r) \cup {Len(times) + 1}
    BY <1>1, <1>6 DEF Under
  <2> QED
    BY <1>4, <1>5, <1>6, <2>1, FS_AddElement
<1>7. CASE ~ (stamp < r)
  <2>1. Under(Append(times, stamp), r) = Under(times, r)
    BY <1>1, <1>7 DEF Under
  <2> QED
    BY <1>4, <1>7, <2>1
<1> QED
  BY <1>4, <1>6, <1>7

\* A tick later those under an age are those that were under the age before.
LEMMA OlderUnder ==
  ASSUME NEW times \in Seq(Nat), NEW older, older = [k \in DOMAIN times |-> Older(times[k])]
  PROVE  /\ older \in Seq(Nat) /\ Len(older) = Len(times)
         /\ \A r \in Int : r <= RateWindow => Under(older, r) = Under(times, r - 1)
<1>1. DOMAIN times = 1 .. Len(times) /\ Len(times) \in Nat /\ \A k \in 1 .. Len(times) : times[k] \in Nat
  OBVIOUS
<1>2. ASSUME NEW k \in 1 .. Len(times)
      PROVE  /\ Older(times[k]) \in Nat
             /\ \A r \in Int : r <= RateWindow => (Older(times[k]) < r <=> times[k] < r - 1)
  BY <1>1, LimitsAssumption DEF Older, LimitsAssumption
<1>3. older \in Seq(Nat) /\ Len(older) = Len(times)
  BY <1>1, <1>2
<1>4. ASSUME NEW r \in Int, r <= RateWindow PROVE Under(older, r) = Under(times, r - 1)
  BY <1>1, <1>2, <1>4 DEF Under
<1> QED
  BY <1>3, <1>4


-----------------------------------------------------------------------------
\* Whatever the client wrote into the header, the address is its own (client_ip).
LEMMA ClientIpIsOwn ==
  ASSUME NEW c \in Clients, NEW spoofed \in Seq(Clients)
  PROVE  ClientIp(c, spoofed) = c
<1>1. Proxies \in Seq(Range(Proxies)) /\ Len(Proxies) \in Nat
  BY LimitsAssumption DEF LimitsAssumption
<1>2. CASE Proxies = <<>>
  BY <1>1, <1>2 DEF ClientIp, Peer, Forwarded
<1>3. CASE Proxies # <<>>
  <2> DEFINE behind == SubSeq(Proxies, 1, Len(Proxies) - 1)
             S == Clients \cup Range(Proxies)
             chain == spoofed \o <<c>> \o behind
  <2>1. Len(Proxies) > 0
    BY <1>1, <1>3
  <2>2. behind \in Seq(Range(Proxies)) /\ Len(behind) = Len(Proxies) - 1
    <3>1. \A i \in 1 .. Len(Proxies) - 1 : Proxies[i] \in Range(Proxies)
      BY <1>1, <2>1
    <3>2. Len(Proxies) - 1 \in Int /\ Len(Proxies) - 1 >= 0
      BY <1>1, <2>1
    <3> DEFINE R == Range(Proxies)
               n == Len(Proxies) - 1
    <3> HIDE DEF R, n
    <3>3. SubSeq(Proxies, 1, n) \in Seq(R) /\ Len(SubSeq(Proxies, 1, n)) = IF 1 <= n THEN n - 1 + 1 ELSE 0
      BY <3>1, <3>2, SubSeqProperties DEF n, R
    <3>4. behind = SubSeq(Proxies, 1, n)
      BY DEF n
    <3> HIDE DEF behind
    <3>5. n \in Int /\ n >= 0
      BY <3>2 DEF n
    <3>6. behind \in Seq(R) /\ Len(behind) = n
      <4> DEFINE front == SubSeq(Proxies, 1, n)
      <4> HIDE DEF front
      <4>1. front \in Seq(R) /\ Len(front) = IF 1 <= n THEN n - 1 + 1 ELSE 0
        BY <3>3 DEF front
      <4>2. behind = front
        BY <3>4 DEF front
      <4> QED
        BY <3>5, <4>1, <4>2
    <3> QED
      BY <3>6 DEF n, R
  <2>3. spoofed \o <<c>> \in Seq(S) /\ Len(spoofed \o <<c>>) = Len(spoofed) + 1
        /\ (spoofed \o <<c>>)[Len(spoofed) + 1] = c
    <3>1. spoofed \in Seq(S) /\ <<c>> \in Seq(S) /\ Len(<<c>>) = 1 /\ <<c>>[1] = c /\ Len(spoofed) \in Nat
      OBVIOUS
    <3> HIDE DEF S
    <3> QED
      BY <3>1, ConcatProperties
  <2>4. Len(chain) = Len(spoofed) + Len(Proxies) /\ chain[Len(spoofed) + 1] = c
    <3>1. behind \in Seq(S) /\ Len(spoofed) \in Nat
      BY <2>2
    <3> HIDE DEF S, behind
    <3>2. /\ Len(chain) = Len(spoofed \o <<c>>) + Len(behind)
          /\ \A i \in 1 .. Len(chain) : chain[i] =
               IF i <= Len(spoofed \o <<c>>) THEN (spoofed \o <<c>>)[i]
               ELSE behind[i - Len(spoofed \o <<c>>)]
      BY <2>3, <3>1, ConcatProperties
    <3>3. Len(spoofed) + 1 \in 1 .. Len(chain)
      BY <1>1, <2>1, <2>2, <2>3, <3>1, <3>2
    <3> HIDE DEF chain
    <3>4. chain[Len(spoofed) + 1] = (spoofed \o <<c>>)[Len(spoofed) + 1]
      BY <2>3, <3>1, <3>2, <3>3
    <3>5. Len(chain) = Len(spoofed) + Len(Proxies)
      BY <1>1, <2>2, <2>3, <3>1, <3>2
    <3> QED
      BY <2>3, <3>4, <3>5
  <2>5. Forwarded(c, spoofed) = chain
    BY <1>3 DEF Forwarded
  <2> HIDE DEF chain
  <2>6. Len(chain) - Len(Proxies) + 1 = Len(spoofed) + 1 /\ Len(chain) >= Len(Proxies)
    <3>1. Len(spoofed) \in Nat
      OBVIOUS
    <3> QED
      BY <1>1, <2>4, <3>1
  <2> QED
    BY <2>1, <2>4, <2>5, <2>6 DEF ClientIp
<1> QED
  BY <1>2, <1>3

\* The seconds to wait reach the time at which the first one leaves.
LEMMA WaitIsEnough ==
  ASSUME NEW times \in Seq(Nat), times # <<>>, NEW stamp \in Nat
  PROVE  /\ RetryAfter(times, stamp) \in Nat \ {0}
         /\ RetryAfter(times, stamp) * Second >= stamp - times[1] + RateWindow
<1> DEFINE left == stamp - times[1] + RateWindow
           s == (left + Second - 1) \div Second
<1>1. times[1] \in Nat /\ left \in Int /\ Second \in Nat \ {0}
  BY LimitsAssumption DEF LimitsAssumption
<1>2. RetryAfter(times, stamp) = IF s < 1 THEN 1 ELSE s
  BY DEF RetryAfter
<1> HIDE DEF left
<1>3. s \in Int /\ s * Second >= left
  BY <1>1
<1> HIDE DEF s
<1>4. CASE s < 1
  <2>1. s * Second <= 0
    BY <1>1, <1>3, <1>4
  <2> QED
    BY <1>1, <1>2, <1>3, <1>4, <2>1 DEF left
<1>5. CASE ~ (s < 1)
  BY <1>1, <1>2, <1>3, <1>5 DEF left
<1> QED
  BY <1>4, <1>5

-----------------------------------------------------------------------------
LimitsShape ==
  /\ windows \in [Addresses -> Seq(Nat)]
  /\ \A a \in Addresses : Len(windows[a]) <= RateLimit
  /\ pc \in [Threads -> {"idle", "limit"}]
  /\ caller \in [Threads -> Clients] /\ ip \in [Threads -> Clients]
  /\ readAt \in [Threads -> Nat] /\ wait \in [Threads -> Nat]
  /\ \A t \in Threads : pc[t] = "limit" => ip[t] = caller[t] /\ wait[t] = 0

\* The admissions of a client, one element for each.
AdmissionsShape(c) ==
  /\ IsFiniteSet(granted[c]) /\ granted[c] \subseteq (0 .. RateWindow - 1) \X Nat
  /\ \A e \in granted[c] : e[1] = 0 => e[2] <= Cardinality({g \in granted[c] : g[1] = 0})

\* Of those admitted since some moment all are in the window but at most one of each
\* thread that has no older clock: it read the clock before that moment.
Recorded(c) ==
  \A r \in 1 .. RateWindow :
    Cardinality(Since(granted[c], r)) <= Cardinality(Under(windows[c], r)) + Cardinality(Fresh(r))

LimitsInv ==
  /\ LimitsShape
  /\ DOMAIN granted = Clients
  /\ \A c \in Clients : AdmissionsShape(c) /\ Recorded(c)

LEMMA ClientsHaveAddresses == Clients \subseteq Addresses
  BY DEF Addresses

LEMMA FreshCounts ==
  ASSUME NEW r
  PROVE  IsFiniteSet(Fresh(r)) /\ Cardinality(Fresh(r)) \in Nat /\ Cardinality(Fresh(r)) <= Cardinality(Threads)
  BY FS_Subset, FS_CardinalityType, LimitsAssumption DEF Fresh, LimitsAssumption

LEMMA InitLimits == LimitsInit => LimitsInv
<1> SUFFICES ASSUME LimitsInit PROVE LimitsInv
  OBVIOUS
<1>1. NoClient \in Clients
  BY LimitsAssumption DEF NoClient, LimitsAssumption
<1>2. LimitsShape
  BY <1>1, LimitsAssumption DEF LimitsInit, LimitsShape, Idle, LimitsAssumption
<1>3. ASSUME NEW c \in Clients PROVE granted[c] = {} /\ windows[c] \in Seq(Nat)
  BY <1>2, ClientsHaveAddresses DEF LimitsInit, LimitsShape
<1>4. ASSUME NEW c \in Clients PROVE AdmissionsShape(c)
  BY <1>3, FS_EmptySet DEF AdmissionsShape
<1>5. ASSUME NEW c \in Clients, NEW r \in 1 .. RateWindow
      PROVE  Cardinality(Since(granted[c], r)) <= Cardinality(Under(windows[c], r)) + Cardinality(Fresh(r))
  <2>1. Since(granted[c], r) = {}
    BY <1>3 DEF Since
  <2>2. Cardinality(Under(windows[c], r)) \in Nat
    BY <1>3, AppendUnder
  <2> QED
    BY <2>1, <2>2, FreshCounts, FS_EmptySet
<1>6. DOMAIN granted = Clients
  BY DEF LimitsInit
<1> QED
  BY <1>2, <1>4, <1>5, <1>6 DEF LimitsInv, Recorded

-----------------------------------------------------------------------------
LEMMA ApproachKeeps ==
  ASSUME LimitsInv, NEW t \in Threads, NEW c \in Clients, Approach(t, c)
  PROVE  LimitsInv'
<1>1. PICK spoofed \in Seq(Clients) : ip' = [ip EXCEPT ![t] = ClientIp(c, spoofed)]
  <2>1. BoundedSeq(Clients, 1) \subseteq Seq(Clients)
    <3>1. ASSUME NEW m \in 0 .. 1, NEW f \in [1 .. m -> Clients] PROVE f \in Seq(Clients)
      <4>1. m \in Nat
        OBVIOUS
      <4> QED
        BY <4>1, SeqDef
    <3> QED
      BY <3>1 DEF BoundedSeq, SeqOf
  <2> QED
    BY <2>1 DEF Approach
<1>2. ip' = [ip EXCEPT ![t] = c]
  BY <1>1, ClientIpIsOwn
<1>3. LimitsShape'
  BY <1>2 DEF LimitsInv, LimitsShape, Approach
<1>4. ASSUME NEW r \in 1 .. RateWindow PROVE Fresh(r)' = Fresh(r)
  BY LimitsAssumption DEF Fresh, Approach, LimitsInv, LimitsShape, LimitsAssumption
<1> QED
  BY <1>3, <1>4 DEF LimitsInv, AdmissionsShape, Recorded, Approach

LEMMA CleanupKeeps ==
  ASSUME LimitsInv, RateCleanup
  PROVE  LimitsInv'
<1>1. ASSUME NEW a \in Addresses
      PROVE  /\ windows[a] \in Seq(Nat) /\ windows'[a] \in Seq(Nat)
             /\ Len(windows[a]) \in Nat /\ Len(windows[a]) <= RateLimit
             /\ Len(windows'[a]) \in Nat /\ Len(windows'[a]) <= Len(windows[a])
             /\ \A r \in 1 .. RateWindow : Cardinality(Under(windows'[a], r)) = Cardinality(Under(windows[a], r))
  <2>1. windows[a] \in Seq(Nat) /\ windows'[a] = InWindow(windows[a], 0) /\ Len(windows[a]) <= RateLimit
    BY DEF RateCleanup, LimitsInv, LimitsShape
  <2> DEFINE times == windows[a]
             kept == InWindow(times, 0)
  <2> HIDE DEF times, kept
  <2>2. times \in Seq(Nat) /\ 0 \in Int
    BY <2>1 DEF times
  <2>3. /\ kept \in Seq(Nat) /\ Len(kept) <= Len(times)
        /\ \A r \in Int : r <= 0 + RateWindow => Cardinality(Under(kept, r)) = Cardinality(Under(times, r))
    BY <2>2, WindowKeeps DEF kept
  <2>4. /\ windows'[a] \in Seq(Nat) /\ Len(windows'[a]) <= Len(windows[a])
        /\ \A r \in Int : r <= 0 + RateWindow =>
             Cardinality(Under(windows'[a], r)) = Cardinality(Under(windows[a], r))
    BY <2>1, <2>3 DEF times, kept
  <2> QED
    BY <2>1, <2>4, LimitsAssumption DEF LimitsAssumption
<1>2. windows' \in [Addresses -> Seq(Nat)]
  BY <1>1 DEF RateCleanup
<1>3. LimitsShape'
  BY <1>1, <1>2, LimitsAssumption DEF LimitsInv, LimitsShape, RateCleanup, LimitsAssumption
<1>4. ASSUME NEW r \in 1 .. RateWindow PROVE Fresh(r)' = Fresh(r)
  BY DEF Fresh, RateCleanup
<1>5. ASSUME NEW c \in Clients PROVE Recorded(c)'
  BY <1>1, <1>4, ClientsHaveAddresses DEF LimitsInv, Recorded, RateCleanup
<1> QED
  BY <1>3, <1>5 DEF LimitsInv, AdmissionsShape, RateCleanup

LEMMA TickKeeps ==
  ASSUME LimitsInv, LimitsTick
  PROVE  LimitsInv'
<1>1. ASSUME NEW a \in Addresses
      PROVE  /\ windows[a] \in Seq(Nat) /\ windows'[a] \in Seq(Nat) /\ Len(windows'[a]) <= RateLimit
             /\ \A r \in 1 .. RateWindow : Under(windows'[a], r) = Under(windows[a], r - 1)
  <2>1. windows[a] \in Seq(Nat) /\ Len(windows[a]) <= RateLimit
        /\ windows'[a] = [k \in DOMAIN windows[a] |-> Older(windows[a][k])]
    BY DEF LimitsTick, LimitsInv, LimitsShape
  <2>2. windows'[a] \in Seq(Nat) /\ Len(windows'[a]) = Len(windows[a])
    BY <2>1, LimitsAssumption, OlderUnder DEF LimitsAssumption
  <2>3. ASSUME NEW r \in 1 .. RateWindow PROVE Under(windows'[a], r) = Under(windows[a], r - 1)
    BY <2>1, LimitsAssumption, OlderUnder DEF LimitsAssumption
  <2> QED
    BY <2>1, <2>2, <2>3
<1>2. windows' \in [Addresses -> Seq(Nat)]
  BY <1>1 DEF LimitsTick
<1>3. readAt' \in [Threads -> Nat]
  BY DEF LimitsTick, LimitsInv, LimitsShape
<1>4. LimitsShape'
  BY <1>1, <1>2, <1>3 DEF LimitsInv, LimitsShape, LimitsTick
<1>5. ASSUME NEW r \in 1 .. RateWindow PROVE Fresh(r)' = Fresh(r - 1)
  BY LimitsAssumption DEF Fresh, LimitsTick, LimitsInv, LimitsShape, LimitsAssumption
<1>6. ASSUME NEW c \in Clients
      PROVE  /\ granted'[c] = Aged(granted[c], RateWindow)
             /\ IsFiniteSet(granted[c]) /\ granted[c] \subseteq (0 .. RateWindow - 1) \X Nat
  BY DEF LimitsTick, LimitsInv, AdmissionsShape
<1>7. ASSUME NEW c \in Clients PROVE AdmissionsShape(c)'
  <2>1. /\ IsFiniteSet(granted'[c]) /\ granted'[c] \subseteq (1 .. RateWindow - 1) \X Nat
    BY <1>6, AgedCounts, LimitsAssumption DEF LimitsAssumption
  <2>2. \A e \in granted'[c] : e[1] # 0 /\ e \in (0 .. RateWindow - 1) \X Nat
    BY <2>1, LimitsAssumption DEF LimitsAssumption
  <2> QED
    BY <2>1, <2>2 DEF AdmissionsShape
<1>8. ASSUME NEW c \in Clients PROVE Recorded(c)'
  <2> SUFFICES ASSUME NEW r \in 1 .. RateWindow
               PROVE  Cardinality(Since(granted'[c], r)) <= Cardinality(Under(windows'[c], r)) + Cardinality(Fresh(r)')
    BY DEF Recorded
  <2>1. /\ IsFiniteSet(Since(granted'[c], r)) /\ IsFiniteSet(Since(granted[c], r - 1))
        /\ Cardinality(Since(granted'[c], r)) <= Cardinality(Since(granted[c], r - 1))
    <3>1. RateWindow \in Nat \ {0} /\ r \in Int /\ r <= RateWindow
      BY LimitsAssumption DEF LimitsAssumption
    <3> DEFINE S == granted[c]
    <3>2. IsFiniteSet(S) /\ S \subseteq (0 .. RateWindow - 1) \X Nat
      BY <1>6
    <3> HIDE DEF S
    <3>3. /\ IsFiniteSet(Since(Aged(S, RateWindow), r)) /\ IsFiniteSet(Since(S, r - 1))
          /\ Cardinality(Since(Aged(S, RateWindow), r)) <= Cardinality(Since(S, r - 1))
      BY <3>1, <3>2, AgedSince
    <3> QED
      BY <1>6, <3>3 DEF S
  <2>2. /\ Cardinality(Since(granted'[c], r)) \in Nat /\ Cardinality(Since(granted[c], r - 1)) \in Nat
    BY <2>1, FS_CardinalityType
  <2>3. Under(windows'[c], r) = Under(windows[c], r - 1) /\ windows[c] \in Seq(Nat)
    BY <1>1, ClientsHaveAddresses
  <2>4. Cardinality(Under(windows[c], r - 1)) \in Nat /\ Cardinality(Fresh(r - 1)) \in Nat
    <3>1. r - 1 \in Int /\ 0 \in Nat
      OBVIOUS
    <3> DEFINE times == windows[c]
    <3>2. times \in Seq(Nat)
      BY <2>3
    <3> HIDE DEF times
    <3>3. Cardinality(Under(times, r - 1)) \in Nat
      BY <3>1, <3>2, AppendUnder
    <3> QED
      BY <3>3, FreshCounts DEF times
  <2>5. CASE r = 1
    <3>1. Since(granted[c], r - 1) = {}
      BY <1>6, <2>5, LimitsAssumption DEF Since, LimitsAssumption
    <3>2. Cardinality(Since(granted[c], r - 1)) = 0
      BY <3>1, FS_EmptySet
    <3> QED
      BY <1>5, <2>1, <2>2, <2>3, <2>4, <3>2
  <2>6. CASE r # 1
    <3>1. r - 1 \in 1 .. RateWindow
      BY <2>6, LimitsAssumption DEF LimitsAssumption
    <3>2. Cardinality(Since(granted[c], r - 1)) <= Cardinality(Under(windows[c], r - 1)) + Cardinality(Fresh(r - 1))
      BY <3>1 DEF LimitsInv, Recorded
    <3> QED
      BY <1>5, <2>1, <2>2, <2>3, <2>4, <3>2
  <2> QED
    BY <2>5, <2>6
<1>9. DOMAIN granted' = Clients
  BY DEF LimitsTick
<1> QED
  BY <1>4, <1>7, <1>8, <1>9 DEF LimitsInv

\* Another address may lose its entry to the one that is looked up.
LEMMA DroppedIsOther ==
  ASSUME NEW a, NEW out \in Dropped(a)
  PROVE  a \notin out
  BY DEF Dropped

LEMMA RecordKeeps ==
  ASSUME LimitsInv, NEW t \in Threads, CheckAndRecord(t)
  PROVE  LimitsInv'
<1> DEFINE a == ip[t]
           stamp == readAt[t]
           times == InWindow(windows[a], stamp)
           new == IF Full(times) THEN times ELSE Append(times, stamp)
<1>1. PICK out \in Dropped(a) :
        /\ windows' = [b \in Addresses |-> IF b = a THEN new ELSE IF b \in out THEN <<>> ELSE windows[b]]
        /\ wait' = [wait EXCEPT ![t] = IF Full(times) THEN RetryAfter(times, stamp) ELSE 0]
        /\ granted' = [c \in Clients |->
             IF c \in out THEN {}
             ELSE IF c = caller[t] /\ ~Full(times) THEN OneMore(granted[c]) ELSE granted[c]]
  BY DEF CheckAndRecord
<1>2. /\ pc[t] = "limit" /\ pc' = [pc EXCEPT ![t] = "idle"]
      /\ UNCHANGED <<caller, ip, readAt>>
  BY DEF CheckAndRecord
<1>3. a = caller[t] /\ a \in Clients /\ a \in Addresses /\ stamp \in Nat
  BY <1>2, ClientsHaveAddresses DEF LimitsInv, LimitsShape
<1>4. a \notin out
  BY DroppedIsOther
<1>5. windows[a] \in Seq(Nat) /\ Len(windows[a]) \in Nat /\ Len(windows[a]) <= RateLimit
  BY <1>3 DEF LimitsInv, LimitsShape
<1>6. RateWindow \in Nat \ {0} /\ RateLimit \in Nat \ {0}
  BY LimitsAssumption DEF LimitsAssumption
<1> HIDE DEF a, stamp
<1>7. /\ times \in Seq(Nat) /\ Len(times) \in Nat /\ Len(times) <= RateLimit
      /\ \A r \in 1 .. RateWindow : Cardinality(Under(times, r)) = Cardinality(Under(windows[a], r))
  <2> DEFINE old == windows[a]
  <2> HIDE DEF old
  <2>1. old \in Seq(Nat) /\ stamp \in Int
    BY <1>3, <1>5 DEF old
  <2>2. /\ InWindow(old, stamp) \in Seq(Nat) /\ Len(InWindow(old, stamp)) <= Len(old)
        /\ \A r \in Int : r <= stamp + RateWindow =>
             Cardinality(Under(InWindow(old, stamp), r)) = Cardinality(Under(old, r))
    BY <2>1, WindowKeeps
  <2> DEFINE kept == InWindow(old, stamp)
  <2> HIDE DEF kept
  <2>3. kept \in Seq(Nat) /\ Len(kept) \in Nat /\ Len(kept) <= Len(old)
    BY <2>2 DEF kept
  <2>4. \A r \in 1 .. RateWindow : Cardinality(Under(kept, r)) = Cardinality(Under(old, r))
    <3>1. \A r \in 1 .. RateWindow : r \in Int /\ r <= stamp + RateWindow
      BY <1>3, <1>6
    <3> QED
      BY <2>2, <3>1 DEF kept
  <2>5. times = kept /\ windows[a] = old
    BY DEF kept, old
  <2> HIDE DEF times
  <2>6. Len(kept) <= RateLimit
    BY <1>5, <1>6, <2>3, <2>5
  <2> QED
    BY <2>3, <2>4, <2>5, <2>6
<1> HIDE DEF times
<1>8. /\ times # <<>> \/ ~Full(times)
      /\ new \in Seq(Nat) /\ Len(new) <= RateLimit
  BY <1>3, <1>6, <1>7 DEF Full
<1>9. IF Full(times) THEN RetryAfter(times, stamp) \in Nat ELSE TRUE
  BY <1>3, <1>7, <1>8, WaitIsEnough
<1> HIDE DEF new
<1>10. LimitsShape'
  <2>1. windows' \in [Addresses -> Seq(Nat)] /\ \A b \in Addresses : Len(windows'[b]) <= RateLimit
    <3>1. <<>> \in Seq(Nat) /\ Len(<<>>) <= RateLimit
      BY <1>6
    <3>2. \A b \in Addresses : windows[b] \in Seq(Nat) /\ Len(windows[b]) <= RateLimit
      BY DEF LimitsInv, LimitsShape
    <3> QED
      BY <1>1, <1>8, <3>1, <3>2
  <2>2. wait' \in [Threads -> Nat]
    BY <1>1, <1>9 DEF LimitsInv, LimitsShape
  <2>3. \A s \in Threads : s # t => wait'[s] = wait[s]
    BY <1>1 DEF LimitsInv, LimitsShape
  <2> QED
    BY <1>2, <2>1, <2>2, <2>3 DEF LimitsInv, LimitsShape
<1>11. ASSUME NEW r \in 1 .. RateWindow
       PROVE  Fresh(r)' = Fresh(r) \cup {t} /\ (stamp < r => t \in Fresh(r)) /\ (~(stamp < r) => t \notin Fresh(r))
  BY <1>2, <1>3, <1>6 DEF Fresh, LimitsInv, LimitsShape, stamp
<1>12. ASSUME NEW r \in 1 .. RateWindow
       PROVE  Cardinality(Fresh(r)') = Cardinality(Fresh(r)) + (IF stamp < r THEN 0 ELSE 1)
  <2>1. IsFiniteSet(Fresh(r)) /\ Cardinality(Fresh(r)) \in Nat
    BY FreshCounts
  <2>2. Cardinality(Fresh(r) \cup {t}) = IF t \in Fresh(r) THEN Cardinality(Fresh(r)) ELSE Cardinality(Fresh(r)) + 1
    BY <2>1, FS_AddElement
  <2>3. CASE stamp < r
    <3>1. Fresh(r)' = Fresh(r) \cup {t} /\ t \in Fresh(r)
      BY <1>11, <2>3
    <3>2. Cardinality(Fresh(r)') = Cardinality(Fresh(r))
      BY <2>2, <3>1
    <3> QED
      BY <2>1, <2>3, <3>2
  <2>4. CASE ~ (stamp < r)
    BY <1>11, <2>1, <2>2, <2>4
  <2> QED
    BY <2>3, <2>4
<1>13. ASSUME NEW c \in Clients
       PROVE  \/ c \in out /\ c # a /\ granted'[c] = {} /\ windows'[c] = <<>>
              \/ c \notin out /\ c # a /\ granted'[c] = granted[c] /\ windows'[c] = windows[c]
              \/ c = a /\ Full(times) /\ granted'[c] = granted[c] /\ windows'[c] = times
              \/ c = a /\ ~Full(times) /\ granted'[c] = OneMore(granted[c]) /\ windows'[c] = Append(times, stamp)
  BY <1>1, <1>3, <1>4, ClientsHaveAddresses DEF new
<1>14. ASSUME NEW c \in Clients
       PROVE  /\ AdmissionsShape(c)
              /\ IsFiniteSet(OneMore(granted[c])) /\ OneMore(granted[c]) \subseteq (0 .. RateWindow - 1) \X Nat
              /\ \A e \in OneMore(granted[c]) : e[1] = 0 => e[2] <= Cardinality({g \in OneMore(granted[c]) : g[1] = 0})
              /\ \A r \in Nat \ {0} :
                   /\ Cardinality(Since(granted[c], r)) \in Nat
                   /\ Cardinality(Since(OneMore(granted[c]), r)) = Cardinality(Since(granted[c], r)) + 1
  <2>1. AdmissionsShape(c)
    BY DEF LimitsInv
  <2> QED
    BY <1>6, <2>1, OneMoreCounts DEF AdmissionsShape
<1>15. ASSUME NEW c \in Clients PROVE AdmissionsShape(c)'
  <2>1. CASE granted'[c] = {}
    BY <2>1, FS_EmptySet DEF AdmissionsShape
  <2>2. CASE granted'[c] = granted[c]
    BY <1>14, <2>2 DEF AdmissionsShape
  <2>3. CASE granted'[c] = OneMore(granted[c])
    BY <1>14, <2>3 DEF AdmissionsShape
  <2> QED
    BY <1>13, <2>1, <2>2, <2>3
<1>16. ASSUME NEW c \in Clients, NEW r \in 1 .. RateWindow
       PROVE  Cardinality(Since(granted'[c], r)) <= Cardinality(Under(windows'[c], r)) + Cardinality(Fresh(r)')
  <2>1. Cardinality(Fresh(r)) \in Nat
    BY FreshCounts
  <2>2. windows[c] \in Seq(Nat)
    BY ClientsHaveAddresses DEF LimitsInv, LimitsShape
  <2>3. Cardinality(Under(windows[c], r)) \in Nat
    <3> DEFINE old == windows[c]
    <3>1. old \in Seq(Nat) /\ r \in Int /\ 0 \in Nat
      BY <2>2
    <3> HIDE DEF old
    <3> QED
      BY <3>1, AppendUnder DEF old
  <2>4. /\ Cardinality(Since(granted[c], r)) \in Nat
        /\ Cardinality(Since(OneMore(granted[c]), r)) = Cardinality(Since(granted[c], r)) + 1
    BY <1>14
  <2>5. Cardinality(Since(granted[c], r)) <= Cardinality(Under(windows[c], r)) + Cardinality(Fresh(r))
    BY DEF LimitsInv, Recorded
  <2>6. CASE granted'[c] = {} /\ windows'[c] = <<>>
    <3>1. Since({}, r) = {} /\ Under(<<>>, r) = {}
      BY DEF Since, Under
    <3>2. Cardinality(Since(granted'[c], r)) = 0 /\ Cardinality(Under(windows'[c], r)) = 0
      BY <2>6, <3>1, FS_EmptySet
    <3> QED
      BY <1>12, <2>1, <3>2
  <2>7. CASE granted'[c] = granted[c] /\ windows'[c] = windows[c]
    BY <1>12, <2>1, <2>3, <2>4, <2>5, <2>7
  <2>8. CASE c = a /\ granted'[c] = granted[c] /\ windows'[c] = times
    BY <1>7, <1>12, <2>1, <2>3, <2>4, <2>5, <2>8
  <2>9. CASE c = a /\ granted'[c] = OneMore(granted[c]) /\ windows'[c] = Append(times, stamp)
    <3>1. Cardinality(Under(Append(times, stamp), r)) = Cardinality(Under(times, r)) + (IF stamp < r THEN 1 ELSE 0)
      <4>1. times \in Seq(Nat) /\ stamp \in Nat /\ r \in Int
        BY <1>3, <1>7
      <4> QED
        BY <4>1, AppendUnder
    <3>2. Cardinality(Under(times, r)) = Cardinality(Under(windows[c], r))
      BY <1>7, <2>9
    <3>3. /\ Cardinality(Since(granted'[c], r)) = Cardinality(Since(granted[c], r)) + 1
          /\ Cardinality(Under(windows'[c], r)) = Cardinality(Under(windows[c], r)) + (IF stamp < r THEN 1 ELSE 0)
      BY <2>4, <2>9, <3>1, <3>2
    <3> QED
      BY <1>12, <2>1, <2>3, <2>4, <2>5, <3>3
  <2> QED
    BY <1>13, <2>6, <2>7, <2>8, <2>9
<1>17. DOMAIN granted' = Clients
  BY <1>1
<1>18. ASSUME NEW c \in Clients PROVE Recorded(c)'
  BY <1>16 DEF Recorded
<1> QED
  BY <1>10, <1>15, <1>17, <1>18 DEF LimitsInv

LEMMA StepLimits == LimitsInv /\ [LimitsNext]_limitVars => LimitsInv'
<1> SUFFICES ASSUME LimitsInv, [LimitsNext]_limitVars PROVE LimitsInv'
  OBVIOUS
<1>1. CASE UNCHANGED limitVars
  BY <1>1 DEF limitVars, LimitsInv, LimitsShape, AdmissionsShape, Recorded, Fresh
<1> QED
  BY <1>1, TickKeeps, CleanupKeeps, RecordKeeps, ApproachKeeps DEF LimitsNext

\* The inductive invariant of the rate limit.
THEOREM LimitsInvariant == LimitsSpec => []LimitsInv
  BY InitLimits, StepLimits, PTL DEF LimitsSpec

\* In no window does a client get more requests through than the limit and one of each
\* thread, however stale the clocks they bring to the lock are (check_and_record) and
\* whatever X-Forwarded-For says (client_ip).
THEOREM AdmissionsStayBounded == LimitsSpec => []AdmissionsBounded
<1>1. LimitsInv => AdmissionsBounded
  <2> SUFFICES ASSUME LimitsInv, NEW c \in Clients
               PROVE  Cardinality(granted[c]) <= RateLimit + Cardinality(Threads)
    BY DEF AdmissionsBounded
  <2>1. RateWindow \in 1 .. RateWindow /\ RateLimit \in Nat /\ RateWindow \in Int
    BY LimitsAssumption DEF LimitsAssumption
  <2>2. granted[c] = Since(granted[c], RateWindow) /\ IsFiniteSet(granted[c])
    BY <2>1 DEF LimitsInv, AdmissionsShape, Since
  <2>3. windows[c] \in Seq(Nat) /\ Len(windows[c]) <= RateLimit /\ Len(windows[c]) \in Nat
    BY ClientsHaveAddresses DEF LimitsInv, LimitsShape
  <2>4. /\ Cardinality(Under(windows[c], RateWindow)) \in Nat
        /\ Cardinality(Under(windows[c], RateWindow)) <= Len(windows[c])
    <3> DEFINE old == windows[c]
    <3>1. old \in Seq(Nat) /\ 0 \in Nat
      BY <2>3
    <3> HIDE DEF old
    <3> QED
      BY <2>1, <3>1, AppendUnder DEF old
  <2>5. /\ Cardinality(Fresh(RateWindow)) \in Nat /\ Cardinality(Fresh(RateWindow)) <= Cardinality(Threads)
        /\ Cardinality(Threads) \in Nat
    BY FreshCounts, FS_CardinalityType, LimitsAssumption DEF LimitsAssumption
  <2>6. Cardinality(Since(granted[c], RateWindow))
          <= Cardinality(Under(windows[c], RateWindow)) + Cardinality(Fresh(RateWindow))
    BY <2>1 DEF LimitsInv, Recorded
  <2>7. Cardinality(granted[c]) \in Nat
    BY <2>2, FS_CardinalityType
  <2> QED
    BY <2>1, <2>2, <2>3, <2>4, <2>5, <2>6, <2>7
<1> QED
  BY <1>1, LimitsInvariant, PTL

\* Who waits as long as a refusal says finds room in the window then, although the first
\* time in it need not be the oldest (check_and_record, retry_after_secs).
THEOREM WaitingHelps == LimitsSpec => RetryAfterIsEnough
<1> DEFINE Granted(t) == pc[t] = "limit" /\ wait'[t] > 0 =>
                        Len(InWindow(windows'[ip[t]], readAt[t] - wait'[t] * Second)) < RateLimit
<1>1. LimitsInv /\ [LimitsNext]_limitVars => [\A t \in Threads : Granted(t)]_limitVars
  <2> SUFFICES ASSUME LimitsInv, LimitsNext, NEW t \in Threads, pc[t] = "limit", wait'[t] > 0
               PROVE  Len(InWindow(windows'[ip[t]], readAt[t] - wait'[t] * Second)) < RateLimit
    OBVIOUS
  <2>1. wait[t] = 0
    BY DEF LimitsInv, LimitsShape
  <2>2. wait' # wait
    BY <2>1
  <2>3. PICK s \in Threads : CheckAndRecord(s) \/ \E c \in Clients : Approach(s, c)
    BY <2>2 DEF LimitsNext, LimitsTick, RateCleanup
  <2>4. ASSUME NEW c \in Clients, Approach(s, c) PROVE FALSE
    <3>1. pc[s] = "idle" /\ wait' = [wait EXCEPT ![s] = 0] /\ wait \in [Threads -> Nat]
      BY <2>4 DEF Approach, LimitsInv, LimitsShape
    <3>2. s # t
      BY <3>1
    <3>3. wait'[t] = 0
      BY <2>1, <3>1, <3>2
    <3> QED
      BY <3>3
  <2>5. s = t /\ CheckAndRecord(t)
    <3>1. CheckAndRecord(s)
      BY <2>3, <2>4
    <3>2. \E n : wait' = [wait EXCEPT ![s] = n]
      BY <3>1 DEF CheckAndRecord
    <3>3. wait \in [Threads -> Nat]
      BY DEF LimitsInv, LimitsShape
    <3>4. s # t => wait'[t] = wait[t]
      BY <3>2, <3>3
    <3>5. s = t
      BY <2>1, <3>4
    <3> QED
      BY <3>1, <3>5
  <2> DEFINE a == ip[t]
             stamp == readAt[t]
             times == InWindow(windows[a], stamp)
  <2>6. /\ a \in Addresses /\ stamp \in Nat /\ windows[a] \in Seq(Nat) /\ Len(windows[a]) <= RateLimit
        /\ Len(windows[a]) \in Nat
    BY ClientsHaveAddresses DEF LimitsInv, LimitsShape
  <2>7. /\ wait'[t] = IF Full(times) THEN RetryAfter(times, stamp) ELSE 0
        /\ windows'[a] = IF Full(times) THEN times ELSE Append(times, stamp)
    BY <2>5, <2>6 DEF CheckAndRecord, LimitsInv, LimitsShape
  <2>8. Full(times) /\ wait'[t] = RetryAfter(times, stamp) /\ windows'[a] = times
    BY <2>7
  <2> HIDE DEF a, stamp
  <2>9. times \in Seq(Nat) /\ Len(times) <= Len(windows[a]) /\ Len(times) \in Nat
    <3> DEFINE old == windows[a]
    <3>1. old \in Seq(Nat) /\ stamp \in Int
      BY <2>6
    <3> HIDE DEF old
    <3>2. InWindow(old, stamp) \in Seq(Nat) /\ Len(InWindow(old, stamp)) <= Len(old)
      BY <3>1, WindowKeeps
    <3> QED
      BY <3>2 DEF old
  <2> HIDE DEF times
  <2>10. RateLimit \in Nat \ {0} /\ Second \in Nat \ {0} /\ RateWindow \in Nat
    BY LimitsAssumption DEF LimitsAssumption
  <2>11. times # <<>> /\ times[1] \in Nat
    BY <2>8, <2>9, <2>10 DEF Full
  <2> DEFINE w == RetryAfter(times, stamp)
             later == w * Second
             then == stamp - later
  <2>12. w \in Nat /\ later >= stamp - times[1] + RateWindow
    BY <2>6, <2>9, <2>11, WaitIsEnough
  <2>13. later \in Int
    BY <2>10, <2>12
  <2> HIDE DEF w, later
  <2>14. then \in Int /\ times[1] >= then + RateWindow
    BY <2>6, <2>10, <2>11, <2>12, <2>13
  <2> HIDE DEF then
  <2>15. Len(InWindow(times, then)) < Len(times) /\ InWindow(times, then) \in Seq(Nat)
    BY <2>9, <2>11, <2>14, WindowKeeps
  <2>16. Len(InWindow(times, then)) < RateLimit
    BY <2>6, <2>9, <2>10, <2>15
  <2> QED
    BY <2>8, <2>16 DEF a, stamp, then, later, w
<1> QED
  BY <1>1, LimitsInvariant, PTL DEF LimitsSpec, RetryAfterIsEnough

-----------------------------------------------------------------------------
(***************************************************************************)
(* The accounts: Users and Auths are written in two statements, and a      *)
(* request goes on with rows it read before.                               *)
(***************************************************************************)

AccountLabels == {"idle", "signup", "signin", "verify", "rehash", "find", "portal", "open", "checkout", "pay"}
HashKinds == {"bcrypt", "scrypt", "current"}
UserRows == [id : Nat, email : Emails, customer : Customers \cup {"none"}, had : SUBSET Customers]
AuthRows == [email : Emails, hash : [kind : HashKinds, pw : Passwords], id : Nat]

AccountTypes ==
  /\ users \subseteq UserRows /\ auths \subseteq AuthRows /\ first \subseteq AuthRows
  /\ pc \in [Threads -> AccountLabels]
  /\ request \in [Threads -> [email : Emails \cup {"none"}, pw : Passwords \cup {<<>>},
                              id : Nat, customer : Customers \cup {"none"}]]
  /\ row \in [Threads -> AuthRows \cup {NoRow}]
  /\ \A t \in Threads : pc[t] \in {"signup", "signin", "verify", "rehash", "find"} =>
       request[t].email \in Emails /\ request[t].pw \in Passwords

\* The rowids: no two users have the same.
IdsUnique ==
  /\ IsFiniteSet(users)
  /\ \A u \in users : u.id \in 1 .. Cardinality(users)
  /\ \A u, v \in users : u.id = v.id => u = v

\* What a hash may have become: itself, or a current one of a password it verifies.
Kept(hash, old) == hash = old \/ (hash.kind = "current" /\ VerifyPassword(hash.pw, old))

\* One row of Auths for every account, and its hash kept.
AuthsKept ==
  /\ \A a \in auths : \E o \in first : o.email = a.email /\ o.id = a.id /\ Kept(a.hash, o.hash)
  /\ \A o \in first : \E a \in auths : a.email = o.email /\ a.id = o.id
  /\ \A o, p \in first : o.email = p.email => o = p
  /\ \A a, b \in auths : a.email = b.email => a = b

\* A row a thread works on may be old, but was kept too; and only a verified password
\* is about to be hashed.
RowKept(t) ==
  /\ row[t].email = request[t].email
  /\ \E o \in first : o.email = row[t].email /\ Kept(row[t].hash, o.hash)

RowsKept ==
  \A t \in Threads :
    /\ pc[t] \in {"verify", "rehash"} => RowKept(t)
    /\ pc[t] = "rehash" => Verified(t) /\ NeedsRehash(row[t].hash)

\* What Stripe is about to be asked for is the caller's.
AsksForOwn ==
  /\ \A u \in users : u.customer # "none" => u.customer \in u.had
  /\ \A t \in Threads :
       /\ pc[t] = "open" => \E u \in users : u.id = request[t].id /\ request[t].customer \in u.had
       /\ pc[t] = "pay" => \E u \in users : u.id = request[t].id /\ u.email = request[t].email

AccountsInv ==
  AccountTypes /\ NoHalfAccounts /\ IdsUnique /\ AuthsKept /\ RowsKept /\ AsksForOwn /\ PortalsOwn

-----------------------------------------------------------------------------
LEMMA InitAccounts == AccountsInit => AccountsInv
<1> SUFFICES ASSUME AccountsInit PROVE AccountsInv
  OBVIOUS
<1> USE AccountsAssumption DEF AccountsAssumption
<1>1. /\ pc \in [Threads -> AccountLabels] /\ \A t \in Threads : pc[t] = "idle"
      /\ request = [t \in Threads |-> NoRequest] /\ row = [t \in Threads |-> NoRow]
      /\ opened = {} /\ first = auths
  BY DEF AccountsInit, Idle, AccountLabels
<1>2. RowsKept /\ PortalsOwn
  BY <1>1 DEF RowsKept, PortalsOwn
<1>3. CASE users = {} /\ auths = {}
  <2>1. AccountTypes
    BY <1>1, <1>3 DEF AccountTypes, NoRequest, Request
  <2>2. IdsUnique
    BY <1>3, FS_EmptySet DEF IdsUnique
  <2> QED
    BY <1>1, <1>2, <1>3, <2>1, <2>2 DEF AccountsInv, NoHalfAccounts, AuthsKept, AsksForOwn
<1>4. ASSUME NEW e \in Emails, NEW kind \in HashKinds, NEW pw \in Passwords,
             users = {NewUser(1, e)}, auths = {[email |-> e, hash |-> Hash(kind, pw), id |-> 1]}
      PROVE  AccountsInv
  <2> USE DEF NewUser, Hash
  <2>1. users \subseteq UserRows /\ auths \subseteq AuthRows
    BY <1>4 DEF UserRows, AuthRows
  <2>2. AccountTypes
    BY <1>1, <1>4, <2>1 DEF AccountTypes, NoRequest, Request
  <2>3. IdsUnique
    <3>1. IsFiniteSet(users) /\ Cardinality(users) = 1
      BY <1>4, FS_Singleton
    <3> QED
      BY <1>4, <3>1 DEF IdsUnique
  <2>4. NoHalfAccounts
    BY <1>4 DEF NoHalfAccounts
  <2>5. AuthsKept
    BY <1>1, <1>4 DEF AuthsKept, Kept
  <2>6. AsksForOwn
    BY <1>1, <1>4 DEF AsksForOwn
  <2> QED
    BY <1>2, <2>2, <2>3, <2>4, <2>5, <2>6 DEF AccountsInv
<1>5. ASSUME NEW old \in OldHashes,
             users = {NewUser(1, Normal[old[1]])},
             auths = {[email |-> Normal[old[1]], hash |-> Hash(old[2], old[3]), id |-> 1]}
      PROVE  AccountsInv
  <2>1. Normal[old[1]] \in Emails /\ old[2] \in HashKinds /\ old[3] \in Passwords
    BY DEF HashKinds
  <2> QED
    BY <1>4, <1>5, <2>1
<1> QED
  BY <1>3, <1>5 DEF AccountsInit

\* A step that writes no row leaves the rows as they were.
LEMMA RowsStay ==
  ASSUME AccountsInv, UNCHANGED <<users, auths, first>>
  PROVE  (NoHalfAccounts /\ IdsUnique /\ AuthsKept)'
  BY DEF AccountsInv, NoHalfAccounts, IdsUnique, AuthsKept, Kept, VerifyPassword

\* What Reply leaves of the threads, also when an account was added.
LEMMA Replied ==
  ASSUME AccountsInv, NEW t \in Threads, Reply(t), users \subseteq users', first \subseteq first',
         \A u \in users' : u \in users \/ u.customer = "none"
  PROVE  RowsKept' /\ AsksForOwn'
<1> USE DEF AccountsInv, Reply
<1>1. ASSUME NEW s \in Threads, pc'[s] # "idle"
      PROVE  s # t /\ pc'[s] = pc[s] /\ request'[s] = request[s] /\ row'[s] = row[s]
  BY <1>1 DEF AccountTypes
<1>2. RowsKept'
  <2> SUFFICES ASSUME NEW s \in Threads, pc'[s] \in {"verify", "rehash"}
               PROVE  RowKept(s)' /\ (pc'[s] = "rehash" => Verified(s)' /\ NeedsRehash(row[s].hash)')
    BY DEF RowsKept
  <2>1. RowKept(s) /\ (pc[s] = "rehash" => Verified(s) /\ NeedsRehash(row[s].hash))
    BY <1>1 DEF RowsKept
  <2> QED
    BY <1>1, <2>1 DEF RowKept, Kept, VerifyPassword, Verified, NeedsRehash
<1>3. AsksForOwn'
  BY <1>1 DEF AsksForOwn
<1> QED
  BY <1>2, <1>3

\* A sign-up that is refused or fails, or adds its rows.
LEMMA StepSignUp ==
  ASSUME AccountsInv, NEW t \in Threads, SignUp(t)
  PROVE  AccountsInv'
<1> USE DEF AccountsInv
<1>1. CASE UNCHANGED <<users, auths, first>>
  <2>1. AccountTypes'
    BY <1>1 DEF SignUp, Reply, AccountTypes, AccountLabels, NoRequest, Request
  <2> QED
    BY <1>1, <2>1, RowsStay, Replied DEF SignUp, PortalsOwn
<1>2. CASE ~Taken(request[t].email) /\ CreateAccount(t)
  <2> DEFINE n == Cardinality(users) + 1
             fresh == NewUser(n, request[t].email)
             auth == [email |-> request[t].email, hash |-> Hash("current", request[t].pw), id |-> n]
  <2>1. /\ users' = users \cup {fresh} /\ auths' = auths \cup {auth} /\ first' = first \cup {auth}
        /\ Reply(t) /\ UNCHANGED opened
    BY <1>2 DEF SignUp, CreateAccount
  <2>2. /\ \A v \in users : v.email # fresh.email
        /\ \A b \in auths : b.email # auth.email
        /\ \A o \in first : o.email # auth.email
    <3>1. /\ \A v \in users : v.email # request[t].email
          /\ \A b \in auths : b.email # request[t].email
      BY <1>2 DEF Taken
    <3> QED
      BY <3>1 DEF AuthsKept, NewUser
  <2>3. /\ Cardinality(users) \in Nat /\ n \in Nat
        /\ IsFiniteSet(users') /\ Cardinality(users') = n
    BY <2>1, <2>2, FS_CardinalityType, FS_AddElement DEF IdsUnique
  <2>4. fresh \in UserRows /\ auth \in AuthRows
    BY <2>3 DEF AccountTypes, SignUp, NewUser, Hash, UserRows, AuthRows, HashKinds
  <2>5. AccountTypes'
    BY <2>1, <2>4 DEF AccountTypes, Reply, AccountLabels, NoRequest, Request
  <2>6. fresh.email = auth.email /\ fresh.id = n /\ auth.id = n /\ fresh.customer = "none"
    BY DEF NewUser
  <2> HIDE DEF fresh, auth
  <2>7. NoHalfAccounts'
    BY <2>1, <2>2, <2>6 DEF NoHalfAccounts
  <2>8. IdsUnique'
    <3>1. \A v \in users' : v.id \in 1 .. n
      BY <2>1, <2>3, <2>6 DEF IdsUnique
    <3>2. \A v \in users : v.id # fresh.id
      BY <2>3, <2>6 DEF IdsUnique
    <3> HIDE DEF n
    <3> QED
      BY <2>1, <2>3, <3>1, <3>2 DEF IdsUnique
  <2> USE DEF fresh, auth, NewUser, Hash
  <2>9. AuthsKept'
    BY <2>1, <2>2 DEF AuthsKept, Kept, VerifyPassword
  <2>10. /\ users \subseteq users' /\ first \subseteq first'
        /\ \A v \in users' : v \in users \/ v.customer = "none"
    BY <2>1
  <2>11. RowsKept' /\ AsksForOwn' /\ PortalsOwn'
    BY <2>1, <2>10, Replied DEF PortalsOwn
  <2> QED
    BY <2>5, <2>7, <2>8, <2>9, <2>10, <2>11
<1> QED
  BY <1>1, <1>2 DEF SignUp

\* A step of a thread t that leaves the rows and goes on to l, where what l asks for holds.
LEMMA Proceeds ==
  ASSUME AccountsInv, NEW t \in Threads, NEW l \in AccountLabels,
         pc' = [pc EXCEPT ![t] = l], UNCHANGED <<users, first, request, row>>,
         l \in {"verify", "rehash"} => RowKept(t),
         l = "rehash" => Verified(t) /\ NeedsRehash(row[t].hash),
         l = "open" => \E u \in users : u.id = request[t].id /\ request[t].customer \in u.had,
         l = "pay" => \E u \in users : u.id = request[t].id /\ u.email = request[t].email
  PROVE  RowsKept' /\ AsksForOwn'
<1> USE DEF AccountsInv
<1>1. \A s \in Threads : pc'[s] = IF s = t THEN l ELSE pc[s]
  BY DEF AccountTypes
<1>2. RowsKept'
  BY <1>1 DEF RowsKept, RowKept, Kept, VerifyPassword, Verified, NeedsRehash
<1>3. AsksForOwn'
  BY <1>1 DEF AsksForOwn
<1> QED
  BY <1>2, <1>3

\* The hash written over whatever the row holds by then is one of a password that the
\* row's first hash verifies.
LEMMA StepRehash ==
  ASSUME AccountsInv, NEW t \in Threads, Rehash(t)
  PROVE  AccountsInv'
<1> USE DEF AccountsInv
<1> DEFINE new == Hash("current", request[t].pw)
<1>1. /\ pc[t] = "rehash" /\ pc' = [pc EXCEPT ![t] = "find"]
      /\ UNCHANGED <<users, first, opened, request, row>>
  BY DEF Rehash, ProceedTo
<1>2. RowsKept' /\ AsksForOwn' /\ PortalsOwn' /\ IdsUnique'
  <2>1. "find" \in AccountLabels
    BY DEF AccountLabels
  <2> QED
    BY <1>1, <2>1, Proceeds DEF PortalsOwn, IdsUnique
<1>3. CASE UNCHANGED auths
  <2>1. AccountTypes'
    BY <1>1, <1>3 DEF AccountTypes, AccountLabels
  <2> QED
    BY <1>1, <1>2, <1>3, <2>1, RowsStay
<1>4. CASE auths' = {IF a.email = request[t].email THEN [a EXCEPT !.hash = new] ELSE a : a \in auths}
  <2>1. \E o \in first : o.email = request[t].email /\ Kept(new, o.hash)
    <3>1. RowKept(t) /\ Verified(t) /\ NeedsRehash(row[t].hash)
      BY <1>1 DEF RowsKept
    <3> QED
      BY <3>1 DEF RowKept, Verified, NeedsRehash, Kept, Hash
  <2>2. new \in [kind : HashKinds, pw : Passwords]
    BY <1>1 DEF AccountTypes, Hash, HashKinds
  <2> HIDE DEF new
  <2>3. ASSUME NEW b \in auths'
        PROVE  \E a \in auths : /\ b \in AuthRows /\ b.email = a.email /\ b.id = a.id
                                /\ b.hash = IF a.email = request[t].email THEN new ELSE a.hash
    BY <1>4, <2>2 DEF AccountTypes, AuthRows
  <2>4. ASSUME NEW a \in auths
        PROVE  \E b \in auths' : /\ b.email = a.email /\ b.id = a.id
                                 /\ b.hash = IF a.email = request[t].email THEN new ELSE a.hash
    <3> DEFINE b == IF a.email = request[t].email THEN [a EXCEPT !.hash = new] ELSE a
    <3>1. b \in auths'
      BY <1>4
    <3>2. /\ b.email = a.email /\ b.id = a.id
          /\ b.hash = IF a.email = request[t].email THEN new ELSE a.hash
      BY <2>2 DEF AccountTypes, AuthRows
    <3> QED
      BY <3>1, <3>2
  <2>5. AccountTypes'
    BY <1>1, <2>3 DEF AccountTypes, AccountLabels
  <2>6. NoHalfAccounts'
    BY <1>1, <2>3, <2>4 DEF NoHalfAccounts
  <2>7. AuthsKept'
    <3>1. ASSUME NEW b \in auths'
          PROVE  \E o \in first : o.email = b.email /\ o.id = b.id /\ Kept(b.hash, o.hash)
      BY <2>1, <2>3 DEF AuthsKept
    <3>2. \A o \in first : \E b \in auths' : b.email = o.email /\ b.id = o.id
      BY <2>4 DEF AuthsKept
    <3>3. ASSUME NEW b \in auths', NEW c \in auths', b.email = c.email PROVE b = c
      <4>1. PICK a \in auths : b = IF a.email = request[t].email THEN [a EXCEPT !.hash = new] ELSE a
        BY <1>4
      <4>2. PICK d \in auths : c = IF d.email = request[t].email THEN [d EXCEPT !.hash = new] ELSE d
        BY <1>4
      <4>3. a.email = b.email /\ d.email = c.email
        BY <4>1, <4>2 DEF AccountTypes, AuthRows
      <4>4. a = d
        BY <3>3, <4>3 DEF AuthsKept
      <4> QED
        BY <4>1, <4>2, <4>4
    <3> QED
      BY <1>1, <3>1, <3>2, <3>3 DEF AuthsKept, Kept, VerifyPassword
  <2> QED
    BY <1>2, <2>5, <2>6, <2>7
<1> QED
  BY <1>3, <1>4 DEF Rehash

\* A subscription is recorded with the row of its user.
LEMMA StepSubscribe ==
  ASSUME AccountsInv, NEW u \in users, NEW c \in Customers, Subscribe(u, c)
  PROVE  AccountsInv'
<1> USE DEF AccountsInv
<1> DEFINE new == [u EXCEPT !.customer = c, !.had = @ \cup {c}]
<1>1. /\ users' = (users \ {u}) \cup {new}
      /\ UNCHANGED <<auths, pc, request, row, first, opened>>
  BY DEF Subscribe
<1>2. /\ new \in UserRows /\ new.id = u.id /\ new.email = u.email
      /\ new.customer = c /\ new.had = u.had \cup {c}
  BY DEF AccountTypes, UserRows
<1> HIDE DEF new
<1>3. \A v \in users : \E w \in users' : w.id = v.id /\ w.email = v.email /\ v.had \subseteq w.had
  BY <1>1, <1>2
<1>4. \A w \in users' : \E v \in users : w.id = v.id /\ w.email = v.email
  BY <1>1, <1>2
<1>5. AccountTypes'
  BY <1>1, <1>2 DEF AccountTypes
<1>6. NoHalfAccounts'
  BY <1>1, <1>2 DEF NoHalfAccounts
<1>7. IdsUnique'
  <2>1. /\ IsFiniteSet(users \ {u}) /\ Cardinality(users \ {u}) = Cardinality(users) - 1
        /\ Cardinality(users) \in Nat
    BY FS_RemoveElement, FS_CardinalityType DEF IdsUnique
  <2>2. new \notin users \ {u}
    BY <1>2 DEF IdsUnique
  <2>3. IsFiniteSet(users') /\ Cardinality(users') = Cardinality(users)
    BY <1>1, <2>1, <2>2, FS_AddElement
  <2>4. \A w \in users' : w.id \in 1 .. Cardinality(users)
    BY <1>4 DEF IdsUnique
  <2>5. \A v \in users \ {u} : v.id # new.id
    BY <1>2 DEF IdsUnique
  <2>6. \A v, w \in users' : v.id = w.id => v = w
    BY <1>1, <2>5 DEF IdsUnique
  <2> QED
    BY <2>3, <2>4, <2>6 DEF IdsUnique
<1>8. AuthsKept' /\ RowsKept'
  BY <1>1 DEF AuthsKept, RowsKept, RowKept, Kept, VerifyPassword, Verified, NeedsRehash
<1>9. AsksForOwn'
  <2>1. \A w \in users' : w.customer # "none" => w.customer \in w.had
    BY <1>1, <1>2 DEF AsksForOwn
  <2>2. ASSUME NEW s \in Threads, pc[s] = "open"
        PROVE  \E w \in users' : w.id = request[s].id /\ request[s].customer \in w.had
    BY <1>3, <2>2 DEF AsksForOwn
  <2>3. ASSUME NEW s \in Threads, pc[s] = "pay"
        PROVE  \E w \in users' : w.id = request[s].id /\ w.email = request[s].email
    BY <1>3, <2>3 DEF AsksForOwn
  <2> QED
    BY <1>1, <2>1, <2>2, <2>3 DEF AsksForOwn
<1>10. PortalsOwn'
  BY <1>1, <1>3 DEF PortalsOwn
<1> QED
  BY <1>5, <1>6, <1>7, <1>8, <1>9, <1>10
LEMMA StepAccounts == AccountsInv /\ [AccountsNext]_accountVars => AccountsInv'
<1> SUFFICES ASSUME AccountsInv, [AccountsNext]_accountVars PROVE AccountsInv'
  OBVIOUS
<1> USE DEF AccountsInv
<1> DEFINE Rows == UNCHANGED <<users, auths, first>>
\* A step that writes no row, and is about one thread, or answers.
<1>1. ASSUME NEW t \in Threads, Reply(t), Rows, UNCHANGED opened PROVE AccountsInv'
  <2>1. AccountTypes'
    BY <1>1 DEF Reply, AccountTypes, AccountLabels, NoRequest, Request
  <2> QED
    BY <1>1, <2>1, RowsStay, Replied DEF PortalsOwn
\* A thread takes a request.
<1>2. ASSUME NEW t \in Threads, Rows, UNCHANGED <<row, opened>>,
             NEW l \in {"signup", "signin", "portal", "checkout"}, pc' = [pc EXCEPT ![t] = l],
             NEW e \in Emails \cup {"none"}, NEW pw \in Passwords \cup {<<>>}, NEW id \in Nat,
             NEW c \in Customers \cup {"none"},
             request' = [request EXCEPT ![t] = Request(e, pw, id, c)],
             l \in {"signup", "signin"} => e \in Emails /\ pw \in Passwords
      PROVE  AccountsInv'
  <2>1. AccountTypes'
    BY <1>2 DEF AccountTypes, AccountLabels, Request
  <2>2. \A s \in Threads : pc'[s] \notin {"signup", "signin", "portal", "checkout"}
          => pc'[s] = pc[s] /\ request'[s] = request[s]
    BY <1>2 DEF AccountTypes
  <2>3. RowsKept'
    BY <1>2, <2>2 DEF RowsKept, RowKept, Kept, VerifyPassword, Verified, NeedsRehash
  <2>4. AsksForOwn' /\ PortalsOwn'
    BY <1>2, <2>2 DEF AsksForOwn, PortalsOwn
  <2> QED
    BY <1>2, <2>1, <2>3, <2>4, RowsStay
<1>3. ASSUME NEW t \in Threads, SignUpOrIn(t) PROVE AccountsInv'
  <2>1. PICK l \in {"signup", "signin"}, e \in Emails, pw \in Passwords :
          /\ pc' = [pc EXCEPT ![t] = l]
          /\ request' = [request EXCEPT ![t] = Request(Normal[e], pw, 0, "none")]
    BY <1>3 DEF SignUpOrIn
  <2>2. Normal[e] \in Emails
    BY AccountsAssumption DEF AccountsAssumption
  <2> QED
    BY <1>2, <1>3, <2>1, <2>2 DEF SignUpOrIn
<1>4. ASSUME NEW t \in Threads, WithJwt(t) PROVE AccountsInv'
  <2>1. PICK u \in users :
          \/ /\ pc' = [pc EXCEPT ![t] = "portal"]
             /\ \E c \in Customers \cup {"none"} :
                  request' = [request EXCEPT ![t] = Request("none", <<>>, u.id, c)]
          \/ /\ pc' = [pc EXCEPT ![t] = "checkout"]
             /\ \E e \in Emails : request' = [request EXCEPT ![t] = Request(e, <<>>, u.id, "none")]
    BY <1>4 DEF WithJwt
  <2>2. u.id \in Nat /\ Rows /\ UNCHANGED <<row, opened>>
    BY <1>4 DEF WithJwt, AccountTypes, UserRows
  <2>3. ASSUME NEW c \in Customers \cup {"none"}, pc' = [pc EXCEPT ![t] = "portal"],
               request' = [request EXCEPT ![t] = Request("none", <<>>, u.id, c)]
        PROVE  AccountsInv'
    BY <1>2, <2>2, <2>3
  <2>4. ASSUME NEW e \in Emails, pc' = [pc EXCEPT ![t] = "checkout"],
               request' = [request EXCEPT ![t] = Request(e, <<>>, u.id, "none")]
        PROVE  AccountsInv'
    BY <1>2, <2>2, <2>4
  <2> QED
    BY <2>1, <2>3, <2>4
<1>5. ASSUME NEW t \in Threads, FindAuth(t) PROVE AccountsInv'
  <2>1. CASE Reply(t)
    BY <1>1, <1>5, <2>1 DEF FindAuth
  <2>2. ASSUME NEW a \in auths, a.email = request[t].email, row' = [row EXCEPT ![t] = a],
               pc' = [pc EXCEPT ![t] = "verify"], UNCHANGED request
        PROVE  AccountsInv'
    <3>1. Rows /\ UNCHANGED opened /\ pc[t] = "signin"
      BY <1>5 DEF FindAuth
    <3>2. AccountTypes'
      BY <2>2, <3>1 DEF AccountTypes, AccountLabels
    <3>3. /\ \A s \in Threads : row'[s] = IF s = t THEN a ELSE row[s]
          /\ \A s \in Threads : pc'[s] = IF s = t THEN "verify" ELSE pc[s]
      BY <2>2 DEF AccountTypes
    <3>4. \E o \in first : o.email = a.email /\ Kept(a.hash, o.hash)
      BY DEF AuthsKept
    <3>5. RowsKept'
      BY <2>2, <3>1, <3>3, <3>4 DEF RowsKept, RowKept, Kept, VerifyPassword, Verified, NeedsRehash
    <3>6. AsksForOwn' /\ PortalsOwn'
      BY <2>2, <3>1, <3>3 DEF AsksForOwn, PortalsOwn
    <3> QED
      BY <3>1, <3>2, <3>5, <3>6, RowsStay
  <2> QED
    BY <1>5, <2>1, <2>2 DEF FindAuth
<1>6. ASSUME NEW t \in Threads, VerifySignIn(t) PROVE AccountsInv'
  <2>1. CASE Reply(t)
    BY <1>1, <1>6, <2>1 DEF VerifySignIn
  <2>2. CASE Verified(t) /\ ProceedTo(t, IF NeedsRehash(row[t].hash) THEN "rehash" ELSE "find")
    <3> DEFINE l == IF NeedsRehash(row[t].hash) THEN "rehash" ELSE "find"
    <3>1. Rows /\ UNCHANGED opened /\ pc[t] = "verify"
      BY <1>6 DEF VerifySignIn
    <3>2. l \in AccountLabels /\ pc' = [pc EXCEPT ![t] = l] /\ UNCHANGED <<request, row>>
      BY <2>2 DEF AccountLabels, ProceedTo
    <3>3. AccountTypes'
      BY <3>1, <3>2 DEF AccountTypes, AccountLabels
    <3>4. RowKept(t)
      BY <3>1 DEF RowsKept
    <3>5. RowsKept' /\ AsksForOwn'
      BY <2>2, <3>1, <3>2, <3>4, Proceeds
    <3> QED
      BY <3>1, <3>3, <3>5, RowsStay DEF PortalsOwn
  <2> QED
    BY <1>6, <2>1, <2>2 DEF VerifySignIn
<1>7. ASSUME NEW t \in Threads, FindSignedIn(t) PROVE AccountsInv'
  BY <1>1, <1>7 DEF FindSignedIn
<1>8. ASSUME NEW t \in Threads, NEW l \in {"open", "pay"}, ProceedTo(t, l), Rows, UNCHANGED opened,
             pc[t] \in {"portal", "checkout"},
             l = "open" => \E u \in users : u.id = request[t].id /\ request[t].customer \in u.had,
             l = "pay" => \E u \in users : u.id = request[t].id /\ u.email = request[t].email
      PROVE  AccountsInv'
  <2>1. AccountTypes' /\ l \in AccountLabels
    BY <1>8 DEF ProceedTo, AccountTypes, AccountLabels
  <2>2. RowsKept' /\ AsksForOwn'
    BY <1>8, <2>1, Proceeds DEF ProceedTo
  <2> QED
    BY <1>8, <2>1, <2>2, RowsStay DEF PortalsOwn
<1>9. ASSUME NEW t \in Threads, Portal(t) PROVE AccountsInv'
  BY <1>1, <1>8, <1>9 DEF Portal, Authorized, AsksForOwn
<1>10. ASSUME NEW t \in Threads, Checkout(t) PROVE AccountsInv'
  BY <1>1, <1>8, <1>10 DEF Checkout
\* A session is opened, or not, and the thread answers.
<1>11. ASSUME NEW t \in Threads, NEW x, Rows, Reply(t), opened' \in {opened, {<<request[t].id, x>>}},
              \E u \in users : u.id = request[t].id /\ x \in u.had \cup {u.email}
       PROVE  AccountsInv'
  <2>1. AccountTypes'
    BY <1>11 DEF Reply, AccountTypes, AccountLabels, NoRequest, Request
  <2>2. PortalsOwn'
    BY <1>11 DEF PortalsOwn
  <2> QED
    BY <1>11, <2>1, <2>2, RowsStay, Replied
<1>12. ASSUME NEW t \in Threads, OpenPortal(t) PROVE AccountsInv'
  BY <1>11, <1>12 DEF OpenPortal, AsksForOwn
<1>13. ASSUME NEW t \in Threads, OpenCheckout(t) PROVE AccountsInv'
  <2>1. \E u \in users : u.id = request[t].id /\ u.email = request[t].email
    BY <1>13 DEF OpenCheckout, AsksForOwn
  <2> QED
    BY <1>11, <1>13, <2>1 DEF OpenCheckout
<1>14. CASE AccountsCrash
  <2>1. AccountTypes' /\ RowsKept' /\ AsksForOwn' /\ PortalsOwn'
    BY <1>14 DEF AccountsCrash, AccountTypes, AccountLabels, NoRequest, Request, RowsKept, AsksForOwn, PortalsOwn
  <2> QED
    BY <1>14, <2>1, RowsStay DEF AccountsCrash
<1>15. CASE UNCHANGED accountVars
  <2>1. AccountTypes' /\ AsksForOwn' /\ PortalsOwn'
    BY <1>15 DEF accountVars, AccountTypes, AsksForOwn, PortalsOwn
  <2>2. RowsKept'
    BY <1>15 DEF accountVars, RowsKept, RowKept, Kept, VerifyPassword, Verified, NeedsRehash
  <2> QED
    BY <1>15, <2>1, <2>2, RowsStay DEF accountVars
<1> QED
  BY <1>3, <1>4, <1>5, <1>6, <1>7, <1>9, <1>10, <1>12, <1>13, <1>14, <1>15,
     StepSignUp, StepRehash, StepSubscribe
  DEF AccountsNext, HandleAccount

\* The inductive invariant of the accounts.
THEOREM AccountsInvariant == AccountsSpec => []AccountsInv
  BY InitAccounts, StepAccounts, PTL DEF AccountsSpec

\* No failure or crash of a sign-up leaves a user without credentials, or credentials
\* without a user, and no email gets two accounts (signup, create_account).
THEOREM AccountsAreWhole == AccountsSpec => []NoHalfAccounts
<1>1. AccountsInv => NoHalfAccounts
  BY DEF AccountsInv
<1> QED
  BY <1>1, AccountsInvariant, PTL

\* Every account keeps the password it was made with, however the sign-ins that move
\* its old hash overtake one another (signin, update_auth_password).
THEOREM PasswordsStay == AccountsSpec => []PasswordsKept
<1>1. AccountsInv => PasswordsKept
  <2> SUFFICES ASSUME AccountsInv, NEW o \in first
               PROVE  /\ \E a \in auths : a.email = o.email /\ a.id = o.id
                      /\ \A a \in auths : a.email = o.email => VerifyPassword(a.hash.pw, o.hash)
    BY DEF PasswordsKept
  <2>1. ASSUME NEW a \in auths, a.email = o.email PROVE VerifyPassword(a.hash.pw, o.hash)
    BY <2>1 DEF AccountsInv, AuthsKept, Kept, VerifyPassword
  <2> QED
    BY <2>1 DEF AccountsInv, AuthsKept
<1> QED
  BY <1>1, AccountsInvariant, PTL

\* A portal is opened for a customer of the caller's only, and a checkout for his email
\* (portal, checkout), whatever the webhooks write between the check and the call.
THEOREM SessionsAreOwn == AccountsSpec => []PortalsOwn
<1>1. AccountsInv => PortalsOwn
  BY DEF AccountsInv
<1> QED
  BY <1>1, AccountsInvariant, PTL
=============================================================================
