----------------------------- MODULE Codecs_proofs -----------------------------
(***************************************************************************)
(* What is written in one form is read back as it was, for texts, values,  *)
(* files and uploads of any length; the dates of all days; and which       *)
(* signatures of webhooks are accepted, for any header.                    *)
(*                                                                         *)
(* What a recursive function makes of a text is found by induction from    *)
(* the end of the text: among the positions at which a claim is false, if  *)
(* there are any, there is a last one (FromTheEnd).  That a function is    *)
(* defined by its recursion is proved in the same way for each of them     *)
(* (the lemmas that end in Runs).                                          *)
(***************************************************************************)
EXTENDS Codecs, FiniteSetTheorems, FunctionTheorems, SequenceTheorems, WellFoundedInduction, TLAPS

-----------------------------------------------------------------------------
(***************************************************************************)
(* Induction over natural numbers, and what FlattenSeq makes of pieces.    *)
(***************************************************************************)

\* Induction: a set of natural numbers that holds 0 and, with a number, the next one.
LEMMA NatSet ==
  ASSUME NEW T \in SUBSET Nat, 0 \in T, \A n \in T : n + 1 \in T
  PROVE  T = Nat
<1> DEFINE Rest == Nat \ T
           Below == {ss \in Nat \X Nat : ss[1] < ss[2]}
<1>1. OpToRel(<, Nat) = Below
  BY DEF OpToRel
<1>2. IsWellFoundedOn(Below, Nat)
  BY <1>1, NatLessThanWellFounded
<1>3. SUFFICES ASSUME Rest # {} PROVE FALSE
  OBVIOUS
<1>4. Rest \subseteq Nat
  OBVIOUS
<1> HIDE DEF Below, Rest
<1>5. PICK x \in Rest : \A y \in Rest : ~ (<<y, x>> \in Below)
  BY <1>2, <1>3, <1>4, WFMin
<1>6. x \in Nat /\ x # 0
  BY <1>5 DEF Rest
<1>7. x - 1 \in Nat /\ <<x - 1, x>> \in Below /\ (x - 1) + 1 = x
  BY <1>6 DEF Below
<1>8. x - 1 \in T
  BY <1>5, <1>7 DEF Rest
<1> QED
  BY <1>5, <1>7, <1>8 DEF Rest

\* The least of a set of natural numbers is one of them, and none is less.
LEMMA MinIsLeast ==
  ASSUME NEW S \in SUBSET Nat, S # {}
  PROVE  Min(S) \in S /\ \A y \in S : Min(S) <= y
<1> DEFINE Below == {ss \in Nat \X Nat : ss[1] < ss[2]}
<1>1. OpToRel(<, Nat) = Below
  BY DEF OpToRel
<1>2. IsWellFoundedOn(Below, Nat)
  BY <1>1, NatLessThanWellFounded
<1> HIDE DEF Below
<1>3. PICK x \in S : \A y \in S : ~ (<<y, x>> \in Below)
  BY <1>2, WFMin
<1>4. \A y \in S : x <= y
  <2> TAKE y \in S
  <2>1. x \in Nat /\ y \in Nat /\ ~ (<<y, x>> \in Below)
    BY <1>3
  <2> QED
    BY <2>1 DEF Below
<1> QED
  BY <1>3, <1>4 DEF Min

\* Where each piece of a flattened sequence ends, and what stands there.
Flattened(q, t, ends) ==
  /\ ends \in [0 .. Len(q) -> Nat] /\ ends[0] = 0 /\ Len(t) = ends[Len(q)]
  /\ \A k \in 1 .. Len(q) : ends[k] = ends[k - 1] + Len(q[k])
  /\ \A k \in 1 .. Len(q) : \A j \in 1 .. Len(q[k]) : t[ends[k - 1] + j] = q[k][j]

\* The first n pieces of q, one after the other.
FlattenRun(q, g, n) == g = [i \in 1 .. n |-> IF i = 1 THEN q[i] ELSE g[i - 1] \o q[i]]

\* FlattenSeq is defined: there is a function that takes one piece after the other.
LEMMA FlattenRuns ==
  ASSUME NEW S, NEW q \in Seq(Seq(S)), q # <<>>
  PROVE  \E g : FlattenRun(q, g, Len(q)) /\ FlattenSeq(q) = g[Len(q)]
<1> DEFINE T == {n \in Nat : \E g : FlattenRun(q, g, n)}
<1>1. 0 \in T
  <2>1. FlattenRun(q, [i \in 1 .. 0 |-> <<>>], 0)
    BY DEF FlattenRun
  <2> QED
    BY <2>1
<1>2. ASSUME NEW n \in T PROVE n + 1 \in T
  <2>0. n \in Nat
    OBVIOUS
  <2>1. PICK g : FlattenRun(q, g, n)
    OBVIOUS
  <2>a. \A i \in 1 .. n : g[i] = IF i = 1 THEN q[i] ELSE g[i - 1] \o q[i]
    BY <2>1 DEF FlattenRun
  <2> DEFINE h == [i \in 1 .. n + 1 |-> IF i <= n THEN g[i] ELSE IF i = 1 THEN q[i] ELSE g[i - 1] \o q[i]]
  <2>2. ASSUME NEW i \in 1 .. n + 1 PROVE h[i] = IF i = 1 THEN q[i] ELSE h[i - 1] \o q[i]
    <3>1. CASE i <= n
      <4>1. h[i] = g[i] /\ i \in 1 .. n
        BY <3>1, <2>0
      <4>2. CASE i = 1
        BY <2>a, <4>1, <4>2
      <4>3. CASE i # 1
        <5>1. i - 1 \in 1 .. n + 1 /\ i - 1 <= n
          BY <4>1, <4>3, <2>0
        <5>2. h[i - 1] = g[i - 1]
          BY <5>1
        <5> HIDE DEF h
        <5> QED
          BY <2>a, <4>1, <4>3, <5>2
      <4> QED
        BY <4>2, <4>3
    <3>2. CASE ~ (i <= n)
      <4>1. CASE i = 1
        BY <3>2, <4>1
      <4>2. CASE i # 1
        <5>1. i - 1 \in 1 .. n + 1 /\ i - 1 <= n
          BY <2>0, <3>2, <4>2
        <5>2. h[i - 1] = g[i - 1]
          BY <5>1
        <5>3. h[i] = g[i - 1] \o q[i]
          BY <3>2, <4>2
        <5> HIDE DEF h
        <5> QED
          BY <4>2, <5>2, <5>3
      <4> QED
        BY <4>1, <4>2
    <3> QED
      BY <3>1, <3>2
  <2>3. h = [i \in 1 .. n + 1 |-> IF i = 1 THEN q[i] ELSE h[i - 1] \o q[i]]
    <3>1. h = [i \in 1 .. n + 1 |-> h[i]]
      OBVIOUS
    <3> HIDE DEF h
    <3> QED
      BY <2>2, <3>1
  <2> HIDE DEF h
  <2>4. FlattenRun(q, h, n + 1)
    BY <2>3 DEF FlattenRun
  <2> QED
    BY <2>4, <2>0
<1>3. T = Nat
  <2>1. T \in SUBSET Nat
    OBVIOUS
  <2> HIDE DEF T
  <2> QED
    BY <1>1, <1>2, <2>1, NatSet
<1>4. Len(q) \in Nat /\ Len(q) # 0
  OBVIOUS
<1>5. PICK g : FlattenRun(q, g, Len(q))
  BY <1>3, <1>4
<1> DEFINE c == CHOOSE f : f = [i \in 1 .. Len(q) |-> IF i = 1 THEN q[i] ELSE f[i - 1] \o q[i]]
<1>6. FlattenSeq(q) = c[Len(q)]
  BY Zenon, <1>4 DEF FlattenSeq
<1>7. FlattenRun(q, c, Len(q))
  BY Zenon, <1>5 DEF FlattenRun
<1> HIDE DEF c
<1> QED
  BY <1>6, <1>7

\* Where the n-th piece ends in that, and what the first n pieces are.
EndIn(g, n) == IF n = 0 THEN 0 ELSE Len(g[n])

FlattenedTo(S, q, g, n) ==
  /\ g[n] \in Seq(S) /\ EndIn(g, n) = EndIn(g, n - 1) + Len(q[n])
  /\ \A k \in 1 .. n : EndIn(g, k - 1) \in Nat /\ EndIn(g, k - 1) + Len(q[k]) <= EndIn(g, n)
  /\ \A k \in 1 .. n : \A j \in 1 .. Len(q[k]) : g[n][EndIn(g, k - 1) + j] = q[k][j]

LEMMA Joined ==
  ASSUME NEW S, NEW a \in Seq(S), NEW b \in Seq(S)
  PROVE  /\ a \o b \in Seq(S) /\ Len(a \o b) = Len(a) + Len(b)
         /\ \A i \in 1 .. Len(a) : (a \o b)[i] = a[i]
         /\ \A j \in 1 .. Len(b) : (a \o b)[Len(a) + j] = b[j]
<1>1. Len(a) \in Nat /\ Len(b) \in Nat
  OBVIOUS
<1>2. a \o b \in Seq(S) /\ Len(a \o b) = Len(a) + Len(b)
  OBVIOUS
<1>3. ASSUME NEW i \in 1 .. Len(a) PROVE (a \o b)[i] = a[i]
  OBVIOUS
<1>4. ASSUME NEW j \in 1 .. Len(b) PROVE (a \o b)[Len(a) + j] = b[j]
  BY <1>1
<1> QED
  BY <1>2, <1>3, <1>4

LEMMA FlattenFirst ==
  ASSUME NEW S, NEW q \in Seq(Seq(S)), q # <<>>, NEW g, FlattenRun(q, g, Len(q))
  PROVE  FlattenedTo(S, q, g, 1)
<1>1. g[1] = q[1] /\ q[1] \in Seq(S)
  BY DEF FlattenRun
<1> QED
  BY <1>1 DEF FlattenedTo, EndIn

LEMMA FlattenNext ==
  ASSUME NEW S, NEW q \in Seq(Seq(S)), NEW g, FlattenRun(q, g, Len(q)),
         NEW m \in 1 .. Len(q), m # 1, FlattenedTo(S, q, g, m - 1)
  PROVE  FlattenedTo(S, q, g, m)
<1> DEFINE n == m - 1
<1>0. m = n + 1 /\ n \in Nat /\ n # 0 /\ n \in 1 .. Len(q)
  OBVIOUS
<1>a. FlattenedTo(S, q, g, n)
  OBVIOUS
<1> HIDE DEF n
<1>1. \A i \in 1 .. Len(q) : g[i] = IF i = 1 THEN q[i] ELSE g[i - 1] \o q[i]
  BY DEF FlattenRun
<1>2. g[m] = g[n] \o q[m]
  <2>1. m - 1 = n
    BY <1>0
  <2> QED
    BY <2>1, <1>1
<1>3. g[n] \in Seq(S) /\ q[m] \in Seq(S)
  BY <1>0, <1>a DEF FlattenedTo
<1>4. /\ g[m] \in Seq(S) /\ Len(g[m]) = Len(g[n]) + Len(q[m])
      /\ \A i \in 1 .. Len(g[n]) : g[m][i] = g[n][i]
      /\ \A j \in 1 .. Len(q[m]) : g[m][Len(g[n]) + j] = q[m][j]
  <2> DEFINE a == g[n]
             b == q[m]
  <2>1. a \in Seq(S) /\ b \in Seq(S) /\ g[m] = a \o b
    BY <1>2, <1>3
  <2> HIDE DEF a, b
  <2>2. /\ a \o b \in Seq(S) /\ Len(a \o b) = Len(a) + Len(b)
        /\ \A i \in 1 .. Len(a) : (a \o b)[i] = a[i]
        /\ \A j \in 1 .. Len(b) : (a \o b)[Len(a) + j] = b[j]
    BY <2>1, Joined
  <2>3. /\ g[m] \in Seq(S) /\ Len(g[m]) = Len(a) + Len(b)
        /\ \A i \in 1 .. Len(a) : g[m][i] = a[i]
        /\ \A j \in 1 .. Len(b) : g[m][Len(a) + j] = b[j]
    BY <2>1, <2>2
  <2> QED
    BY <2>3 DEF a, b
<1>5. EndIn(g, n) = Len(g[n]) /\ EndIn(g, m) = Len(g[m]) /\ EndIn(g, n) \in Nat /\ Len(q[m]) \in Nat
  BY <1>0, <1>3 DEF EndIn
<1> DEFINE e == EndIn(g, n)
           f == EndIn(g, m)
<1>7. /\ e \in Nat /\ f = e + Len(q[m]) /\ \A j \in 1 .. Len(q[m]) : g[m][e + j] = q[m][j]
      /\ \A i \in 1 .. e : g[m][i] = g[n][i]
  BY <1>4, <1>5
<1>8. \A k \in 1 .. n : /\ EndIn(g, k - 1) \in Nat /\ EndIn(g, k - 1) + Len(q[k]) <= e
                        /\ \A j \in 1 .. Len(q[k]) : g[n][EndIn(g, k - 1) + j] = q[k][j]
  BY <1>a DEF FlattenedTo
<1> HIDE DEF e, f
<1>6. ASSUME NEW k \in 1 .. m
      PROVE  /\ EndIn(g, k - 1) \in Nat /\ EndIn(g, k - 1) + Len(q[k]) <= f
             /\ \A j \in 1 .. Len(q[k]) : g[m][EndIn(g, k - 1) + j] = q[k][j]
  <2>1. CASE k = m
    <3>1. k - 1 = n /\ EndIn(g, n) = e /\ Len(q[m]) \in Nat
      BY <2>1, <1>0, <1>5 DEF e
    <3>2. EndIn(g, k - 1) = e
      BY <3>1
    <3> QED
      BY <2>1, <3>1, <3>2, <1>7
  <2>2. CASE k # m
    <3>1. k \in 1 .. n /\ k \in 1 .. Len(q) /\ q[k] \in Seq(S) /\ Len(q[k]) \in Nat /\ Len(q[m]) \in Nat
      BY <2>2, <1>0, <1>5
    <3> DEFINE p == EndIn(g, k - 1)
    <3>2. p \in Nat /\ p + Len(q[k]) <= e /\ \A j \in 1 .. Len(q[k]) : g[n][p + j] = q[k][j]
      BY <3>1, <1>8
    <3> HIDE DEF p
    <3>3. ASSUME NEW j \in 1 .. Len(q[k]) PROVE g[m][p + j] = q[k][j]
      <4>1. p + j \in 1 .. e
        BY <3>1, <3>2, <1>7
      <4> QED
        BY <4>1, <3>2, <1>7
    <3>4. p + Len(q[k]) <= f
      BY <3>1, <3>2, <1>7
    <3> QED
      BY <3>2, <3>3, <3>4 DEF p
  <2> QED
    BY <2>1, <2>2
<1>9. g[m] \in Seq(S) /\ EndIn(g, m) = EndIn(g, m - 1) + Len(q[m])
  <2>1. m - 1 = n
    BY <1>0
  <2> QED
    BY <2>1, <1>4, <1>7 DEF e, f
<1> QED
  BY <1>6, <1>9 DEF FlattenedTo, f

LEMMA FlattenIs ==
  ASSUME NEW S, NEW q \in Seq(Seq(S))
  PROVE  FlattenSeq(q) \in Seq(S) /\ \E ends : Flattened(q, FlattenSeq(q), ends)
<1>1. CASE q = <<>>
  <2>1. Flattened(q, q, [k \in 0 .. 0 |-> 0]) /\ FlattenSeq(q) = q /\ q \in Seq(S)
    BY <1>1 DEF Flattened, FlattenSeq
  <2> QED
    BY <2>1
<1>2. CASE q # <<>>
  <2>0. PICK g : FlattenRun(q, g, Len(q)) /\ FlattenSeq(q) = g[Len(q)]
    BY <1>2, FlattenRuns
  <2> DEFINE ends == [k \in 0 .. Len(q) |-> EndIn(g, k)]
             T == {n \in Nat : n <= Len(q) => n = 0 \/ FlattenedTo(S, q, g, n)}
  <2>1. Len(q) \in Nat /\ Len(q) # 0
    BY <1>2
  <2>2. 0 \in T
    OBVIOUS
  <2>3. ASSUME NEW n \in T PROVE n + 1 \in T
    <3>1. n \in Nat /\ (n <= Len(q) => n = 0 \/ FlattenedTo(S, q, g, n))
      OBVIOUS
    <3>2. CASE n = 0
      BY <3>2, <2>0, <1>2, FlattenFirst
    <3>3. CASE n # 0 /\ n + 1 <= Len(q)
      <4>1. n + 1 \in 1 .. Len(q) /\ n + 1 # 1 /\ n + 1 - 1 = n /\ FlattenedTo(S, q, g, n)
        BY <3>1, <3>3, <2>1
      <4>2. FlattenedTo(S, q, g, n + 1)
        BY <4>1, <2>0, FlattenNext
      <4> QED
        BY <4>2, <3>1
    <3>4. CASE ~ (n + 1 <= Len(q))
      BY <3>1, <3>4
    <3> QED
      BY <3>2, <3>3, <3>4
  <2>4. T = Nat
    <3>1. T \in SUBSET Nat
      OBVIOUS
    <3> HIDE DEF T
    <3> QED
      BY <2>2, <2>3, <3>1, NatSet
  <2>5. ASSUME NEW n \in 1 .. Len(q) PROVE FlattenedTo(S, q, g, n)
    <3>1. n \in Nat /\ n <= Len(q) /\ n # 0
      BY <2>1
    <3>2. n \in T
      BY <2>4, <3>1
    <3> QED
      BY <3>1, <3>2
  <2>6. FlattenedTo(S, q, g, Len(q)) /\ EndIn(g, Len(q)) = Len(g[Len(q)]) /\ EndIn(g, 0) = 0
    BY <2>5, <2>1 DEF EndIn
  <2>7. \A k \in 0 .. Len(q) : EndIn(g, k) \in Nat
    BY <2>5, <2>1 DEF EndIn, FlattenedTo
  <2>8. \A k \in 1 .. Len(q) : EndIn(g, k) = EndIn(g, k - 1) + Len(q[k])
    BY <2>5 DEF FlattenedTo
  <2>9. \A k \in 1 .. Len(q) : \A j \in 1 .. Len(q[k]) : g[Len(q)][EndIn(g, k - 1) + j] = q[k][j]
    BY <2>6 DEF FlattenedTo
  <2>10. \A k \in 1 .. Len(q) : ends[k] = EndIn(g, k) /\ ends[k - 1] = EndIn(g, k - 1)
    BY <2>1
  <2>11. ends \in [0 .. Len(q) -> Nat] /\ ends[0] = 0 /\ Len(FlattenSeq(q)) = ends[Len(q)]
    BY <2>0, <2>1, <2>6, <2>7
  <2> HIDE DEF ends
  <2>12. Flattened(q, FlattenSeq(q), ends)
    BY <2>0, <2>8, <2>9, <2>10, <2>11 DEF Flattened
  <2> QED
    BY <2>0, <2>6, <2>12 DEF FlattenedTo
<1> QED
  BY <1>1, <1>2

\* Induction from n downwards: what holds of a position when it holds of all after it,
\* holds of every one.
LEMMA FromTheEnd ==
  ASSUME NEW n \in Nat, NEW T \in SUBSET (1 .. n),
         \A i \in 1 .. n : (\A j \in i + 1 .. n : j \in T) => i \in T
  PROVE  T = 1 .. n
<1> DEFINE M == {m \in Nat : \A j \in 1 .. n : j > n - m => j \in T}
<1>1. 0 \in M
  OBVIOUS
<1>2. ASSUME NEW m \in M PROVE m + 1 \in M
  <2>1. m \in Nat /\ \A j \in 1 .. n : j > n - m => j \in T
    OBVIOUS
  <2>2. ASSUME NEW j \in 1 .. n, j > n - (m + 1) PROVE j \in T
    <3>1. \A l \in j + 1 .. n : l \in 1 .. n /\ l > n - m
      BY <2>1, <2>2
    <3>2. \A l \in j + 1 .. n : l \in T
      BY <2>1, <3>1
    <3> QED
      BY <3>2
  <2> QED
    BY <2>1, <2>2
<1>3. M = Nat
  <2>1. M \in SUBSET Nat
    OBVIOUS
  <2> HIDE DEF M
  <2> QED
    BY <1>1, <1>2, <2>1, NatSet
<1>4. n \in M
  BY <1>3
<1>5. \A j \in 1 .. n : j > n - n => j \in T
  BY <1>4
<1>6. \A j \in 1 .. n : j > n - n
  OBVIOUS
<1>7. \A j \in 1 .. n : j \in T
  BY <1>5, <1>6
<1> QED
  BY <1>7

\* No piece ends behind the end of the whole, and every place is one of a piece.
LEMMA FlattenedEnds ==
  ASSUME NEW S, NEW q \in Seq(Seq(S)), NEW t, NEW ends, Flattened(q, t, ends)
  PROVE  \A k \in 0 .. Len(q) : ends[k] \in Nat /\ ends[k] <= Len(t)
<1> DEFINE n == Len(q)
           T == {k \in 1 .. n : ends[k] <= Len(t)}
<1>1. n \in Nat /\ ends \in [0 .. n -> Nat] /\ Len(t) = ends[n]
  BY DEF Flattened
<1>2. \A k \in 1 .. n : ends[k] = ends[k - 1] + Len(q[k]) /\ Len(q[k]) \in Nat
  BY DEF Flattened
<1>3. ASSUME NEW k \in 1 .. n, \A j \in k + 1 .. n : j \in T PROVE k \in T
  <2>1. CASE k = n
    BY <2>1, <1>1
  <2>2. CASE k # n
    <3> DEFINE j == k + 1
    <3>1. j \in k + 1 .. n /\ j \in 1 .. n /\ j - 1 = k
      BY <1>1, <2>2
    <3>2. j \in T
      BY <3>1, <1>3
    <3>a. 0 .. n # {} /\ n \in 0 .. n /\ k \in 0 .. n /\ j \in 0 .. n
      BY <3>1, <1>1
    <3> HIDE DEF j
    <3>3. ends[j] <= Len(t) /\ ends[j] \in Nat /\ ends[k] \in Nat /\ Len(t) \in Nat
      BY <3>a, <3>2, <1>1
    <3>4. ends[j] = ends[k] + Len(q[j]) /\ Len(q[j]) \in Nat
      BY <3>1, <1>2
    <3> QED
      BY <3>3, <3>4
  <2> QED
    BY <2>1, <2>2
<1>4. T = 1 .. n
  <2>1. T \in SUBSET (1 .. n)
    OBVIOUS
  <2> HIDE DEF T, n
  <2> QED
    BY <1>1, <1>3, <2>1, FromTheEnd
<1>5. ends[0] = 0 /\ Len(t) \in Nat
  BY <1>1 DEF Flattened
<1> QED
  BY <1>1, <1>4, <1>5

\* Position i of t is position j of its piece k.
InPiece(q, t, ends, i, k, j) ==
  k \in 1 .. Len(q) /\ j \in 1 .. Len(q[k]) /\ i = ends[k - 1] + j /\ t[i] = q[k][j]

LEMMA FlattenedCovers ==
  ASSUME NEW S, NEW q \in Seq(Seq(S)), NEW t, NEW ends, Flattened(q, t, ends), NEW i \in 1 .. Len(t)
  PROVE  \E k, j : InPiece(q, t, ends, i, k, j)
<1> DEFINE n == Len(q)
           Later == {k \in Nat : k \in 1 .. n /\ i <= ends[k]}
<1>1. n \in Nat /\ ends \in [0 .. n -> Nat] /\ Len(t) = ends[n] /\ ends[0] = 0
  BY DEF Flattened
<1>2. n # 0
  BY <1>1
<1>3. n \in Later
  BY <1>1, <1>2
<1> DEFINE k == Min(Later)
<1>4. k \in Later /\ \A l \in Later : k <= l
  <2>1. Later \in SUBSET Nat /\ Later # {}
    BY <1>3
  <2> HIDE DEF Later
  <2> QED
    BY <2>1, MinIsLeast
<1>5. k \in 1 .. n /\ i <= ends[k] /\ k \in Nat
  BY <1>4
<1>6. \A l \in Later : k <= l
  BY <1>4
<1>7. k - 1 \in 0 .. n
  BY <1>1, <1>5
<1>8. ends[k - 1] < i
  <2>1. CASE k = 1
    BY <2>1, <1>1
  <2>2. CASE k # 1
    <3>1. k - 1 \in 1 .. n /\ ~ (k <= k - 1)
      BY <2>2, <1>1, <1>5
    <3>2. k - 1 \notin Later
      <4> HIDE DEF Later, k
      <4> QED
        BY <1>6, <3>1
    <3> HIDE DEF k
    <3> QED
      BY <3>1, <3>2, <1>1, <1>7
  <2> QED
    BY <2>1, <2>2
<1> HIDE DEF k, Later
<1>a. \A l \in 1 .. n : ends[l] = ends[l - 1] + Len(q[l]) /\ Len(q[l]) \in Nat
  BY DEF Flattened
<1>9. ends[k] = ends[k - 1] + Len(q[k]) /\ Len(q[k]) \in Nat /\ ends[k - 1] \in Nat
  BY <1>1, <1>5, <1>7, <1>a
<1> DEFINE j == i - ends[k - 1]
<1>10. j \in 1 .. Len(q[k]) /\ i = ends[k - 1] + j
  BY <1>5, <1>8, <1>9
<1> HIDE DEF j
<1>11. t[ends[k - 1] + j] = q[k][j]
  BY <1>5, <1>10 DEF Flattened
<1>12. InPiece(q, t, ends, i, k, j)
  BY <1>5, <1>10, <1>11 DEF InPiece
<1> QED
  BY <1>12

-----------------------------------------------------------------------------
(***************************************************************************)
(* Percent encoding and hexadecimal text.                                  *)
(***************************************************************************)

\* What percent_decode makes of s from position i on, when later is what it makes of it
\* from later positions on.
DecodedAt(s, plus, later, i) ==
  IF i > Len(s) THEN <<>>
  ELSE IF s[i] = Percent /\ i + 2 <= Len(s) /\ HexVal(s[i + 1]) >= 0 /\ HexVal(s[i + 2]) >= 0
    THEN <<16 * HexVal(s[i + 1]) + HexVal(s[i + 2])>> \o later[i + 3]
  ELSE <<IF s[i] = Plus /\ plus THEN Space ELSE s[i]>> \o later[i + 1]

DecodeRun(s, plus, g, from) == g = [i \in from .. Len(s) + 1 |-> DecodedAt(s, plus, g, i)]

LEMMA DecodedLocal ==
  ASSUME NEW S, NEW s \in Seq(S), NEW plus, NEW i \in 1 .. Len(s) + 1, NEW g, NEW h,
         \A j \in i + 1 .. Len(s) + 1 : g[j] = h[j]
  PROVE  DecodedAt(s, plus, g, i) = DecodedAt(s, plus, h, i)
<1>1. i <= Len(s) => g[i + 1] = h[i + 1]
  OBVIOUS
<1>2. i + 2 <= Len(s) => g[i + 3] = h[i + 3]
  OBVIOUS
<1> QED
  BY <1>1, <1>2 DEF DecodedAt

\* PercentDecode is defined.
LEMMA DecodeRuns ==
  ASSUME NEW S, NEW s \in Seq(S), NEW plus
  PROVE  \E g : /\ \A i \in 1 .. Len(s) + 1 : g[i] = DecodedAt(s, plus, g, i)
                /\ PercentDecode(s, plus) = g[1]
<1> DEFINE n == Len(s) + 1
           T == {i \in 1 .. n : \E g : DecodeRun(s, plus, g, i)}
<1>0. n \in Nat /\ 1 \in 1 .. n
  OBVIOUS
<1>1. ASSUME NEW i \in 1 .. n, \A j \in i + 1 .. n : j \in T PROVE i \in T
  <2>1. \E g : \A k \in i + 1 .. n : g[k] = DecodedAt(s, plus, g, k)
    <3>1. CASE i = n
      BY <3>1
    <3>2. CASE i # n
      <4>1. i + 1 \in T
        BY <1>1, <3>2
      <4>2. PICK g : DecodeRun(s, plus, g, i + 1)
        BY <4>1
      <4>3. \A k \in i + 1 .. n : g[k] = DecodedAt(s, plus, g, k)
        BY <4>2 DEF DecodeRun
      <4> QED
        BY <4>3
    <3> QED
      BY <3>1, <3>2
  <2>2. PICK g : \A k \in i + 1 .. n : g[k] = DecodedAt(s, plus, g, k)
    BY <2>1
  <2> DEFINE h == [k \in i .. n |-> IF k = i THEN DecodedAt(s, plus, g, i) ELSE g[k]]
  <2>3. \A k \in i + 1 .. n : g[k] = h[k]
    OBVIOUS
  <2>4. ASSUME NEW k \in i .. n PROVE h[k] = DecodedAt(s, plus, h, k)
    <3>1. h[k] = DecodedAt(s, plus, g, k)
      BY <2>2
    <3>2. k \in 1 .. Len(s) + 1 /\ \A j \in k + 1 .. Len(s) + 1 : j \in i + 1 .. n
      OBVIOUS
    <3> HIDE DEF h
    <3>3. \A j \in k + 1 .. Len(s) + 1 : g[j] = h[j]
      BY <2>3, <3>2
    <3> QED
      BY <3>1, <3>2, <3>3, DecodedLocal
  <2>5. h = [k \in i .. n |-> h[k]]
    OBVIOUS
  <2> HIDE DEF h
  <2>6. DecodeRun(s, plus, h, i)
    BY <2>4, <2>5 DEF DecodeRun
  <2> QED
    BY <2>6
<1>2. T = 1 .. n
  <2>1. T \in SUBSET (1 .. n)
    OBVIOUS
  <2> HIDE DEF T, n
  <2> QED
    BY <1>0, <1>1, <2>1, FromTheEnd
<1>3. \E g : DecodeRun(s, plus, g, 1)
  BY <1>0, <1>2
<1> DEFINE c == CHOOSE g : g = [i \in 1 .. Len(s) + 1 |->
                  IF i > Len(s) THEN <<>>
                  ELSE IF s[i] = Percent /\ i + 2 <= Len(s) /\ HexVal(s[i + 1]) >= 0 /\ HexVal(s[i + 2]) >= 0
                    THEN <<16 * HexVal(s[i + 1]) + HexVal(s[i + 2])>> \o g[i + 3]
                  ELSE <<IF s[i] = Plus /\ plus THEN Space ELSE s[i]>> \o g[i + 1]]
<1>4. PercentDecode(s, plus) = c[1]
  BY Zenon DEF PercentDecode
<1>5. DecodeRun(s, plus, c, 1)
  BY Zenon, <1>3 DEF DecodeRun, DecodedAt
<1> HIDE DEF c
<1>6. \A i \in 1 .. Len(s) + 1 : c[i] = DecodedAt(s, plus, c, i)
  BY <1>5 DEF DecodeRun
<1> QED
  BY <1>4, <1>6

Byte == 0 .. 255

\* One byte, escaped unless it is one of safe: as percent_encode_component and the
\* percent_encode of forms do it.
EscapedIn(safe, b) ==
  IF b \in safe THEN <<b>> ELSE <<Percent, HexDigit(b \div 16, 65), HexDigit(b % 16, 65)>>

EncodeIn(safe, s) == FlattenSeq([k \in DOMAIN s |-> EscapedIn(safe, s[k])])

LEMMA HexBack ==
  ASSUME NEW n \in 0 .. 15, NEW a \in {65, 97}
  PROVE  /\ HexVal(HexDigit(n, a)) = n /\ HexDigit(n, a) \in Unreserved /\ HexDigit(n, a) \in Byte
         /\ HexDigit(n, a) \in FormUnreserved
  BY DEF HexVal, HexDigit, Digits, Unreserved, FormUnreserved, Byte

\* The two halves of a byte.
LEMMA Halves ==
  ASSUME NEW b \in Byte
  PROVE  b \div 16 \in 0 .. 15 /\ b % 16 \in 0 .. 15 /\ 16 * (b \div 16) + (b % 16) = b
<1>1. b \in 0 .. 255
  BY DEF Byte
<1> HIDE DEF Byte
<1>2. b \div 16 \in 0 .. 15
  BY <1>1
<1>3. b % 16 \in 0 .. 15
  BY <1>1
<1>4. 16 * (b \div 16) + (b % 16) = b
  BY <1>1
<1> QED
  BY <1>2, <1>3, <1>4

\* An escape is a percent sign and two signs that are left alone.
LEMMA EscapedIs ==
  ASSUME NEW safe \in SUBSET Unreserved, NEW b \in Byte, NEW e, e = EscapedIn(safe, b)
  PROVE  /\ e \in Seq(Unreserved \cup {Percent})
         /\ \/ b \in safe /\ Len(e) = 1 /\ e[1] = b
            \/ /\ b \notin safe /\ Len(e) = 3 /\ e[1] = Percent /\ HexVal(e[2]) \in 0 .. 15 /\ HexVal(e[3]) \in 0 .. 15
               /\ 16 * HexVal(e[2]) + HexVal(e[3]) = b
<1>1. CASE b \in safe
  BY <1>1 DEF EscapedIn
<1>2. CASE b \notin safe
  <2> DEFINE h == HexDigit(b \div 16, 65)
             l == HexDigit(b % 16, 65)
  <2>1. HexVal(h) = b \div 16 /\ HexVal(l) = b % 16 /\ h \in Unreserved /\ l \in Unreserved
    BY Halves, HexBack
  <2>2. e = <<Percent, h, l>>
    BY <1>2 DEF EscapedIn
  <2> HIDE DEF h, l
  <2>3. e \in Seq(Unreserved \cup {Percent}) /\ Len(e) = 3 /\ e[1] = Percent /\ e[2] = h /\ e[3] = l
    BY <2>1, <2>2
  <2>4. HexVal(e[2]) = b \div 16 /\ HexVal(e[3]) = b % 16
    BY <2>1, <2>3
  <2>5. b \div 16 \in 0 .. 15 /\ b % 16 \in 0 .. 15 /\ 16 * (b \div 16) + (b % 16) = b
    BY Halves
  <2>6. HexVal(e[2]) \in 0 .. 15 /\ HexVal(e[3]) \in 0 .. 15 /\ 16 * HexVal(e[2]) + HexVal(e[3]) = b
    BY <2>4, <2>5
  <2> QED
    BY <1>2, <2>3, <2>6
<1> QED
  BY <1>1, <1>2

LEMMA UnreservedBytes ==
  Unreserved \subseteq Byte /\ Percent \in Byte /\ Percent \notin Unreserved /\ Plus \notin Unreserved
  BY DEF Unreserved, Byte, Percent, Plus

\* The pieces that the bytes of a text are written as.
LEMMA EncodedPieces ==
  ASSUME NEW safe \in SUBSET Unreserved, NEW s \in Seq(Byte)
  PROVE  [k \in DOMAIN s |-> EscapedIn(safe, s[k])] \in Seq(Seq(Unreserved \cup {Percent}))
<1> DEFINE q == [k \in DOMAIN s |-> EscapedIn(safe, s[k])]
<1>1. ASSUME NEW k \in 1 .. Len(s) PROVE EscapedIn(safe, s[k]) \in Seq(Unreserved \cup {Percent})
  BY EscapedIs
<1>2. Len(s) \in Nat /\ q \in [1 .. Len(s) -> Seq(Unreserved \cup {Percent})]
  BY <1>1
<1> QED
  BY <1>2

\* What encoding a text gives, and that decoding it gives the text.
LEMMA EncodedIs ==
  ASSUME NEW safe \in SUBSET Unreserved, NEW s \in Seq(Byte), NEW plus
  PROVE  EncodeIn(safe, s) \in Seq(Unreserved \cup {Percent}) /\ PercentDecode(EncodeIn(safe, s), plus) = s
<1> DEFINE A == Unreserved \cup {Percent}
           n == Len(s)
           q == [k \in DOMAIN s |-> EscapedIn(safe, s[k])]
           t == EncodeIn(safe, s)
<1>0. n \in Nat /\ DOMAIN s = 1 .. n /\ \A k \in 1 .. n : s[k] \in Byte
  OBVIOUS
<1>1. q \in Seq(Seq(A)) /\ Len(q) = n /\ \A k \in 1 .. n : q[k] = EscapedIn(safe, s[k])
  <2>1. q \in Seq(Seq(A))
    BY EncodedPieces
  <2> QED
    BY <1>0, <2>1
<1>2. t = FlattenSeq(q)
  BY DEF EncodeIn
<1> HIDE DEF q, t, A
<1>3. t \in Seq(A) /\ \E ends : Flattened(q, t, ends)
  BY <1>1, <1>2, FlattenIs
<1>4. PICK ends : Flattened(q, t, ends)
  BY <1>3
<1>5. /\ \A k \in 0 .. n : ends[k] \in Nat /\ ends[k] <= Len(t)
      /\ ends[0] = 0 /\ Len(t) = ends[n]
  BY <1>1, <1>4, FlattenedEnds DEF Flattened
<1>6. \A k \in 1 .. n : ends[k] = ends[k - 1] + Len(q[k]) /\ \A j \in 1 .. Len(q[k]) : t[ends[k - 1] + j] = q[k][j]
  BY <1>1, <1>4 DEF Flattened
<1>7. PICK c : (\A i \in 1 .. Len(t) + 1 : c[i] = DecodedAt(t, plus, c, i)) /\ PercentDecode(t, plus) = c[1]
  BY <1>3, DecodeRuns
<1>8. Len(t) \in Nat
  BY <1>3
<1> DEFINE T == {m \in 1 .. n + 1 : c[ends[m - 1] + 1] = SubSeq(s, m, n)}
<1>9. ASSUME NEW m \in 1 .. n + 1, \A j \in m + 1 .. n + 1 : j \in T PROVE m \in T
  <2> DEFINE i == ends[m - 1] + 1
  <2>0. m - 1 \in 0 .. n /\ m \in Nat
    BY <1>0
  <2>1. i \in Nat /\ i \in 1 .. Len(t) + 1
    BY <2>0, <1>5, <1>8
  <2>2. c[i] = DecodedAt(t, plus, c, i)
    BY <2>1, <1>7
  <2>3. CASE m = n + 1
    <3>1. i = Len(t) + 1
      BY <2>3, <1>0, <1>5
    <3> HIDE DEF i
    <3>2. c[i] = <<>>
      BY <3>1, <2>1, <2>2, <1>8 DEF DecodedAt
    <3>3. SubSeq(s, m, n) = <<>>
      BY <2>3, <1>0
    <3> QED
      BY <3>2, <3>3 DEF i
  <2>4. CASE m # n + 1
    <3> DEFINE e == q[m]
               i2 == ends[m] + 1
    <3>1. m \in 1 .. n /\ m + 1 \in m + 1 .. n + 1 /\ m + 1 - 1 = m /\ m \in 0 .. n
      BY <2>4, <1>0, <2>0
    <3>2. m + 1 \in T
      BY <3>1, <1>9
    <3>3. c[i2] = SubSeq(s, m + 1, n)
      BY <3>1, <3>2
    <3>4. s[m] \in Byte /\ e = EscapedIn(safe, s[m])
      BY <3>1, <1>0, <1>1
    <3>a. ends[m] = ends[m - 1] + Len(e) /\ \A j \in 1 .. Len(e) : t[ends[m - 1] + j] = e[j]
      BY <3>1, <1>6
    <3>b. ends[m] <= Len(t) /\ ends[m] \in Nat /\ ends[m - 1] \in Nat
      BY <3>1, <2>0, <1>5
    <3> DEFINE x == ends[m - 1]
               y == ends[m]
    <3>c. x \in Nat /\ y \in Nat /\ y <= Len(t) /\ y = x + Len(e) /\ (\A j \in 1 .. Len(e) : t[x + j] = e[j])
          /\ i = x + 1 /\ i2 = y + 1
      BY <3>a, <3>b
    <3> HIDE DEF i, e, i2, x, y
    <3>5. i \in Nat /\ i2 \in Nat /\ i2 - 1 <= Len(t) /\ i2 - 1 = i - 1 + Len(e) /\ \A j \in 1 .. Len(e) : t[i - 1 + j] = e[j]
      <4>1. i - 1 = x /\ i2 - 1 = y /\ i \in Nat /\ i2 \in Nat
        BY <3>c
      <4> QED
        BY <3>c, <4>1
    <3>6. c[i] = <<s[m]>> \o c[i2]
      <4>1. CASE s[m] \in safe
        <5>1. Len(e) = 1 /\ e[1] = s[m]
          BY <3>4, <4>1, EscapedIs
        <5>2. i2 = i + 1 /\ t[i] = s[m] /\ i <= Len(t)
          BY <5>1, <3>5, <2>1
        <5>3. s[m] # Percent /\ s[m] # Plus
          BY <4>1, UnreservedBytes
        <5> QED
          BY <5>2, <5>3, <2>2, <2>1, <1>8 DEF DecodedAt
      <4>2. CASE s[m] \notin safe
        <5>1. /\ Len(e) = 3 /\ e[1] = Percent /\ HexVal(e[2]) \in 0 .. 15 /\ HexVal(e[3]) \in 0 .. 15
              /\ 16 * HexVal(e[2]) + HexVal(e[3]) = s[m]
          BY <3>4, <4>2, EscapedIs
        <5>2. i2 = i + 3 /\ t[i] = Percent /\ t[i + 1] = e[2] /\ t[i + 2] = e[3] /\ i + 2 <= Len(t) /\ ~ (i > Len(t))
          BY <5>1, <3>5, <2>1, <1>8
        <5>3. HexVal(t[i + 1]) >= 0 /\ HexVal(t[i + 2]) >= 0 /\ 16 * HexVal(t[i + 1]) + HexVal(t[i + 2]) = s[m]
          <6> DEFINE h == HexVal(e[2])
                     l == HexVal(e[3])
          <6>1. HexVal(t[i + 1]) = h /\ HexVal(t[i + 2]) = l /\ h \in 0 .. 15 /\ l \in 0 .. 15 /\ 16 * h + l = s[m]
            BY <5>1, <5>2
          <6> HIDE DEF h, l
          <6>2. h >= 0 /\ l >= 0
            BY <6>1
          <6> QED
            BY <6>1, <6>2
        <5> QED
          BY <5>2, <5>3, <2>2 DEF DecodedAt
      <4> QED
        BY <4>1, <4>2
    <3>7. SubSeq(s, m, n) = <<s[m]>> \o SubSeq(s, m + 1, n)
      BY <3>1, <1>0
    <3> QED
      BY <3>3, <3>6, <3>7 DEF i
  <2> QED
    BY <2>3, <2>4
<1>10. T = 1 .. n + 1
  <2>1. T \in SUBSET (1 .. n + 1) /\ n + 1 \in Nat
    BY <1>0
  <2> HIDE DEF T, n
  <2> QED
    BY <1>9, <2>1, FromTheEnd
<1>11. c[ends[1 - 1] + 1] = SubSeq(s, 1, n)
  <2>1. 1 \in 1 .. n + 1
    BY <1>0
  <2>2. 1 \in T
    BY <2>1, <1>10
  <2> QED
    BY <2>2
<1>12. c[1] = SubSeq(s, 1, n)
  BY <1>11, <1>5
<1>13. SubSeq(s, 1, n) = s
  OBVIOUS
<1> QED
  BY <1>3, <1>7, <1>12, <1>13 DEF A, t

\* What adds up the lengths of the pieces says where they end.
AddsUp(q, f) == f[0] = 0 /\ \A k \in 1 .. Len(q) : f[k] = f[k - 1] + Len(q[k])

LEMMA EndsAre ==
  ASSUME NEW S, NEW q \in Seq(Seq(S)), NEW t, NEW ends, Flattened(q, t, ends), NEW f, AddsUp(q, f), NEW i \in 0 .. Len(q)
  PROVE  ends[i] = f[i]
<1> DEFINE T == {k \in Nat : k <= Len(q) => ends[k] = f[k]}
<1>1. Len(q) \in Nat /\ ends[0] = 0 /\ f[0] = 0
  BY DEF Flattened, AddsUp
<1>2. \A k \in 1 .. Len(q) : ends[k] = ends[k - 1] + Len(q[k]) /\ f[k] = f[k - 1] + Len(q[k])
  BY DEF Flattened, AddsUp
<1>3. 0 \in T
  BY <1>1
<1>4. ASSUME NEW k \in T PROVE k + 1 \in T
  <2> SUFFICES ASSUME k + 1 <= Len(q) PROVE ends[k + 1] = f[k + 1]
    OBVIOUS
  <2> DEFINE l == k + 1
  <2>1. l \in 1 .. Len(q) /\ l - 1 = k /\ ends[k] = f[k]
    BY <1>1
  <2> HIDE DEF l
  <2>2. ends[l] = f[l]
    BY <2>1, <1>2
  <2> QED
    BY <2>2 DEF l
<1>5. T = Nat
  <2>1. T \in SUBSET Nat
    OBVIOUS
  <2> HIDE DEF T
  <2> QED
    BY <1>3, <1>4, <2>1, NatSet
<1> QED
  BY <1>1, <1>5

\* Hexadecimal text is read back as the bytes it was written from.
LEMMA HexReturns ==
  ASSUME NEW b \in Seq(Byte)
  PROVE  HexDecode(HexEncode(b)) = b
<1> DEFINE n == Len(b)
           hi(k) == HexDigit(b[k] \div 16, 97)
           lo(k) == HexDigit(b[k] % 16, 97)
           q == [k \in DOMAIN b |-> <<hi(k), lo(k)>>]
           t == HexEncode(b)
<1>0. n \in Nat /\ DOMAIN b = 1 .. n /\ \A k \in 1 .. n : b[k] \in Byte
  OBVIOUS
<1>1. ASSUME NEW k \in 1 .. n
      PROVE  /\ hi(k) \in Byte /\ lo(k) \in Byte /\ HexVal(hi(k)) = b[k] \div 16 /\ HexVal(lo(k)) = b[k] % 16
             /\ HexVal(hi(k)) \in 0 .. 15 /\ HexVal(lo(k)) \in 0 .. 15 /\ 16 * HexVal(hi(k)) + HexVal(lo(k)) = b[k]
  <2> DEFINE x == b[k]
  <2>1. x \in Byte
    BY <1>0
  <2> HIDE DEF x
  <2>2. x \div 16 \in 0 .. 15 /\ x % 16 \in 0 .. 15 /\ 16 * (x \div 16) + (x % 16) = x
    BY <2>1, Halves
  <2> DEFINE h == HexDigit(x \div 16, 97)
             l == HexDigit(x % 16, 97)
  <2>3. h \in Byte /\ HexVal(h) = x \div 16 /\ l \in Byte /\ HexVal(l) = x % 16
    BY <2>2, HexBack
  <2>4. h = hi(k) /\ l = lo(k)
    BY DEF x
  <2> HIDE DEF h, l
  <2> QED
    BY <2>2, <2>3, <2>4 DEF x
<1> HIDE DEF hi, lo
<1>2. q \in Seq(Seq(Byte)) /\ Len(q) = n /\ \A k \in 1 .. n : q[k] = <<hi(k), lo(k)>>
  <2>1. \A k \in 1 .. n : <<hi(k), lo(k)>> \in Seq(Byte)
    BY <1>1
  <2> QED
    BY <1>0, <2>1
<1>3. t = FlattenSeq(q)
  BY DEF HexEncode, hi, lo
<1> HIDE DEF q, t
<1>4. t \in Seq(Byte) /\ \E ends : Flattened(q, t, ends)
  BY <1>2, <1>3, FlattenIs
<1>5. PICK ends : Flattened(q, t, ends)
  BY <1>4
<1>6. \A k \in 1 .. n : Len(q[k]) = 2 /\ q[k][1] = hi(k) /\ q[k][2] = lo(k)
  <2> TAKE k \in 1 .. n
  <2>1. q[k] = <<hi(k), lo(k)>>
    BY <1>2
  <2> QED
    BY <2>1
<1>7. ASSUME NEW k \in 0 .. n PROVE ends[k] = 2 * k
  <2> DEFINE f == [i \in 0 .. n |-> 2 * i]
  <2>1. \A i \in 1 .. n : f[i] = f[i - 1] + 2
    BY <1>0
  <2>2. f[0] = 0 /\ f[k] = 2 * k
    BY <1>0
  <2> HIDE DEF f
  <2>3. AddsUp(q, f) /\ k \in 0 .. Len(q)
    BY <1>2, <1>6, <2>1, <2>2 DEF AddsUp
  <2>4. ends[k] = f[k]
    BY <1>2, <1>5, <2>3, EndsAre
  <2> QED
    BY <2>2, <2>4
<1>8. Len(t) = 2 * n /\ Len(t) \div 2 = n
  <2>1. Len(t) = 2 * n
    BY <1>0, <1>2, <1>5, <1>7 DEF Flattened
  <2> DEFINE l == Len(t)
  <2>2. l = 2 * n /\ n \in Nat
    BY <2>1, <1>0
  <2> HIDE DEF l, n
  <2>3. l \div 2 = n
    BY <2>2, SMT
  <2> QED
    BY <2>2, <2>3 DEF l
<1>9. ASSUME NEW k \in 1 .. n PROVE 16 * HexVal(t[2 * k - 1]) + HexVal(t[2 * k]) = b[k]
  <2>1. \A j \in 1 .. Len(q[k]) : t[ends[k - 1] + j] = q[k][j]
    BY <1>2, <1>5 DEF Flattened
  <2>2. 1 \in 1 .. Len(q[k]) /\ 2 \in 1 .. Len(q[k])
    BY <1>6
  <2>3. t[ends[k - 1] + 1] = hi(k) /\ t[ends[k - 1] + 2] = lo(k)
    BY <2>1, <2>2, <1>6
  <2>4. k - 1 \in 0 .. n
    BY <1>0
  <2>5. ends[k - 1] = 2 * (k - 1)
    BY <2>4, <1>7
  <2>6. ends[k - 1] + 1 = 2 * k - 1 /\ ends[k - 1] + 2 = 2 * k
    BY <2>5, <1>0
  <2>7. t[2 * k - 1] = hi(k) /\ t[2 * k] = lo(k)
    BY <2>3, <2>6
  <2> QED
    BY <2>7, <1>1
<1>10. HexDecode(t) = [k \in 1 .. n |-> 16 * HexVal(t[2 * k - 1]) + HexVal(t[2 * k])]
  BY <1>8 DEF HexDecode
<1>11. HexDecode(t) = [k \in 1 .. n |-> b[k]]
  BY <1>9, <1>10
<1> QED
  BY <1>0, <1>11 DEF t

-----------------------------------------------------------------------------
(***************************************************************************)
(* Base64: groups of three bytes and of four signs.                        *)
(***************************************************************************)

LEMMA MinOfTwo ==
  ASSUME NEW x \in Nat, NEW y \in Nat
  PROVE  Min({x, y}) \in Nat /\ Min({x, y}) = IF x <= y THEN x ELSE y
<1>1. Min({x, y}) \in {x, y} /\ \A z \in {x, y} : Min({x, y}) <= z
  <2>1. {x, y} \in SUBSET Nat /\ {x, y} # {}
    OBVIOUS
  <2> QED
    BY <2>1, MinIsLeast
<1> DEFINE m == Min({x, y})
<1>2. m \in {x, y} /\ m <= x /\ m <= y
  BY <1>1
<1> HIDE DEF m
<1>3. m \in Nat /\ m = IF x <= y THEN x ELSE y
  BY <1>2
<1> QED
  BY <1>3 DEF m

\* The k-th of the K groups of n of a text: the last one may be shorter.
IsGroup(S, s, n, K, k, g) ==
  /\ g \in Seq(S) /\ Len(g) = (IF k = K THEN Len(s) - n * (K - 1) ELSE n) /\ Len(g) \in 1 .. n
  /\ \A j \in 1 .. Len(g) : n * (k - 1) + j \in 1 .. Len(s) /\ g[j] = s[n * (k - 1) + j]

LEMMA GroupsAre ==
  ASSUME NEW S, NEW s \in Seq(S), NEW n \in {3, 4}, NEW K \in Nat, K = (Len(s) + n - 1) \div n
  PROVE  /\ Groups(s, n) \in Seq(Seq(S)) /\ Len(Groups(s, n)) = K
         /\ \A k \in 1 .. K : IsGroup(S, s, n, K, k, Groups(s, n)[k])
<1> DEFINE l == Len(s)
           from(k) == n * (k - 1) + 1
           to(k) == Min({n * k, l})
<1>1. l \in Nat /\ K = (l + n - 1) \div n
  OBVIOUS
<1> HIDE DEF l
<1>2. l <= n * K /\ (K # 0 => l > n * (K - 1))
  <2>1. CASE n = 3
    <3>1. K = (l + 2) \div 3
      BY <1>1, <2>1
    <3>2. l <= 3 * K /\ 3 * K <= l + 2
      BY <3>1, <1>1, SMT
    <3> QED
      BY <2>1, <3>2, <1>1
  <2>2. CASE n = 4
    <3>1. K = (l + 3) \div 4
      BY <1>1, <2>2
    <3>2. l <= 4 * K /\ 4 * K <= l + 3
      BY <3>1, <1>1, SMT
    <3> QED
      BY <2>2, <3>2, <1>1
  <2> QED
    BY <2>1, <2>2
<1>3. ASSUME NEW k \in 1 .. K
      PROVE  /\ from(k) \in 1 .. l /\ to(k) \in Nat /\ to(k) <= l
             /\ to(k) - from(k) + 1 = IF k = K THEN l - n * (K - 1) ELSE n
             /\ to(k) - from(k) + 1 \in 1 .. n
  <2>1. n * k \in Nat /\ n * (k - 1) \in Nat /\ n * k = n * (k - 1) + n /\ n \in Nat /\ n * K \in Nat
    OBVIOUS
  <2>2. to(k) = IF n * k <= l THEN n * k ELSE l
    BY <2>1, <1>1, MinOfTwo
  <2>3. CASE k = K
    BY <2>1, <2>2, <2>3, <1>1, <1>2
  <2>4. CASE k # K
    <3>1. k <= K - 1
      BY <2>4
    <3>2. n * k <= n * (K - 1) /\ n * (K - 1) \in Nat
      BY <3>1
    <3>3. n * k < l
      BY <3>2, <1>1, <1>2, <2>1
    <3> QED
      BY <2>1, <2>2, <2>4, <3>3, <1>1
  <2> QED
    BY <2>3, <2>4
<1>4. Groups(s, n) = [k \in 1 .. K |-> SubSeq(s, from(k), to(k))]
  BY DEF Groups, l
<1> HIDE DEF to
<1>5. ASSUME NEW k \in 1 .. K, NEW g, g = SubSeq(s, from(k), to(k))
      PROVE  /\ g \in Seq(S) /\ Len(g) = to(k) - from(k) + 1
             /\ \A j \in 1 .. Len(g) : n * (k - 1) + j \in 1 .. Len(s) /\ g[j] = s[n * (k - 1) + j]
  <2> DEFINE a == from(k)
             z == to(k)
  <2>1. a \in 1 .. Len(s) /\ z \in Nat /\ z <= Len(s) /\ z - a + 1 \in 1 .. n /\ g = SubSeq(s, a, z) /\ a - 1 = n * (k - 1)
    BY <1>3, <1>5 DEF l
  <2> HIDE DEF a, z
  <2>2. g \in Seq(S) /\ Len(g) = z - a + 1 /\ \A j \in 1 .. Len(g) : g[j] = s[a + j - 1]
    BY <2>1
  <2>3. \A j \in 1 .. Len(g) : a + j - 1 \in 1 .. Len(s) /\ a + j - 1 = (a - 1) + j
    BY <2>1, <2>2
  <2> QED
    BY <2>1, <2>2, <2>3 DEF a, z
<1> HIDE DEF from
<1>6. ASSUME NEW k \in 1 .. K PROVE IsGroup(S, s, n, K, k, Groups(s, n)[k])
  <2>1. Groups(s, n)[k] = SubSeq(s, from(k), to(k))
    BY <1>4
  <2> QED
    BY <2>1, <1>3, <1>5 DEF l, IsGroup
<1>7. \A k \in 1 .. K : SubSeq(s, from(k), to(k)) \in Seq(S)
  BY <1>5
<1>8. Groups(s, n) \in Seq(Seq(S)) /\ Len(Groups(s, n)) = K
  <2> DEFINE G == [k \in 1 .. K |-> SubSeq(s, from(k), to(k))]
  <2>1. G \in [1 .. K -> Seq(S)]
    BY <1>7
  <2> HIDE DEF G
  <2>2. G \in Seq(Seq(S)) /\ Len(G) = K
    BY <2>1
  <2> QED
    BY <2>2, <1>4 DEF G
<1> QED
  BY <1>6, <1>8

\* What a byte and a sign are, in inequalities.
IsByte(x) == x \in Int /\ 0 <= x /\ x <= 255
IsSign(x) == x \in Int /\ 0 <= x /\ x <= 63

\* Four signs and three bytes of one number.
SameBits(a, b, c, d, x, y, z) == 262144 * a + 4096 * b + 64 * c + d = 65536 * x + 256 * y + z

\* A number of four signs, and the signs that division finds.
LEMMA SignsOf ==
  ASSUME NEW a, NEW b, NEW c, NEW d, IsSign(a), IsSign(b), IsSign(c), IsSign(d),
         NEW n, n = 262144 * a + 4096 * b + 64 * c + d
  PROVE  n \div 262144 = a /\ (n \div 4096) % 64 = b /\ (n \div 64) % 64 = c /\ n % 64 = d
<1> USE DEF IsSign
<1>1. n \div 262144 = a
  BY SMT
<1>2. n \div 4096 = 64 * a + b
  BY SMT
<1>3. n \div 64 = 4096 * a + 64 * b + c
  BY SMT
<1>4. n % 64 = d
  BY SMT
<1>5. (64 * a + b) % 64 = b
  BY SMT
<1>6. (4096 * a + 64 * b + c) % 64 = c
  BY SMT
<1> QED
  BY SMT, <1>1, <1>2, <1>3, <1>4, <1>5, <1>6

\* The same of three bytes.
LEMMA BytesOf ==
  ASSUME NEW x, NEW y, NEW z, IsByte(x), IsByte(y), IsByte(z), NEW n, n = 65536 * x + 256 * y + z
  PROVE  n \div 65536 = x /\ (n \div 256) % 256 = y /\ n % 256 = z
<1> USE DEF IsByte
<1>1. n \div 65536 = x
  BY SMT
<1>2. n \div 256 = 256 * x + y
  BY SMT
<1>3. n % 256 = z
  BY SMT
<1>4. (256 * x + y) % 256 = y
  BY SMT
<1> QED
  BY SMT, <1>1, <1>2, <1>3, <1>4

\* The 24 bits of three bytes are those of four signs; what is not there is 0.
LEMMA Bits ==
  ASSUME NEW x, NEW y, NEW z, IsByte(x), IsByte(y), IsByte(z)
  PROVE  \E a, b, c, d :
           /\ IsSign(a) /\ IsSign(b) /\ IsSign(c) /\ IsSign(d)
           /\ SameBits(a, b, c, d, x, y, z)
           /\ (z = 0 => d = 0) /\ (y = 0 /\ z = 0 => c = 0)
<1> DEFINE a == x \div 4
           b == 16 * (x % 4) + (y \div 16)
           c == 4 * (y % 16) + (z \div 64)
           d == z % 64
<1>1. x = 4 * (x \div 4) + (x % 4) /\ x \div 4 \in Int /\ x % 4 \in Int /\ 0 <= x % 4 /\ x % 4 <= 3
  BY SMT DEF IsByte
<1>2. y = 16 * (y \div 16) + (y % 16) /\ y \div 16 \in Int /\ y % 16 \in Int /\ 0 <= y % 16 /\ y % 16 <= 15
  BY SMT DEF IsByte
<1>3. z = 64 * (z \div 64) + (z % 64) /\ z \div 64 \in Int /\ z % 64 \in Int /\ 0 <= z % 64 /\ z % 64 <= 63
  BY SMT DEF IsByte
<1>4. IsSign(a) /\ IsSign(b) /\ IsSign(c) /\ IsSign(d)
  BY SMT, <1>1, <1>2, <1>3 DEF IsByte, IsSign
<1>5. SameBits(a, b, c, d, x, y, z)
  BY SMT, <1>1, <1>2, <1>3 DEF IsByte, SameBits
<1>6. (z = 0 => d = 0) /\ (y = 0 /\ z = 0 => c = 0)
  BY SMT
<1> HIDE DEF a, b, c, d
<1> QED
  BY SMT, <1>4, <1>5, <1>6

LEMMA EncodeGroupIs ==
  ASSUME NEW g, NEW a, NEW b, NEW c, NEW d, IsSign(a), IsSign(b), IsSign(c), IsSign(d),
         SameBits(a, b, c, d, At(g, 1), At(g, 2), At(g, 3))
  PROVE  EncodeGroup(g) = SubSeq(<<a, b, c, d>>, 1, Len(g) + 1)
<1> DEFINE n == 65536 * At(g, 1) + 256 * At(g, 2) + At(g, 3)
<1>1. n = 262144 * a + 4096 * b + 64 * c + d
  BY SMT DEF SameBits
<1>2. EncodeGroup(g) = SubSeq(<<n \div 262144, (n \div 4096) % 64, (n \div 64) % 64, n % 64>>, 1, Len(g) + 1)
  BY SMT DEF EncodeGroup, Signs
<1> HIDE DEF n
<1>3. n \div 262144 = a /\ (n \div 4096) % 64 = b /\ (n \div 64) % 64 = c /\ n % 64 = d
  BY SMT, <1>1, SignsOf
<1> QED
  BY SMT, <1>2, <1>3

LEMMA DecodeGroupIs ==
  ASSUME NEW g, NEW x, NEW y, NEW z, IsByte(x), IsByte(y), IsByte(z),
         SameBits(At(g, 1), At(g, 2), At(g, 3), At(g, 4), x, y, z)
  PROVE  DecodeGroup(g) = SubSeq(<<x, y, z>>, 1, Len(g) - 1)
<1> DEFINE n == 262144 * At(g, 1) + 4096 * At(g, 2) + 64 * At(g, 3) + At(g, 4)
<1>1. n = 65536 * x + 256 * y + z
  BY SMT DEF SameBits
<1>2. DecodeGroup(g) = SubSeq(<<n \div 65536, (n \div 256) % 256, n % 256>>, 1, Len(g) - 1)
  BY SMT DEF DecodeGroup
<1> HIDE DEF n
<1>3. n \div 65536 = x /\ (n \div 256) % 256 = y /\ n % 256 = z
  BY SMT, <1>1, BytesOf
<1> QED
  BY SMT, <1>2, <1>3

\* A group of bytes is one sign longer when it is written, and is read back.
LEMMA GroupReturns ==
  ASSUME NEW g \in Seq(Byte), Len(g) \in 1 .. 3
  PROVE  /\ EncodeGroup(g) \in Seq(0 .. 63) /\ Len(EncodeGroup(g)) = Len(g) + 1
         /\ DecodeGroup(EncodeGroup(g)) = g
<1> DEFINE x == At(g, 1)
           y == At(g, 2)
           z == At(g, 3)
           e == EncodeGroup(g)
<1>0. Len(g) \in 1 .. 3 /\ DOMAIN g = 1 .. Len(g) /\ \A j \in 1 .. Len(g) : g[j] \in Byte
  OBVIOUS
<1>a. x = g[1] /\ (Len(g) >= 2 => y = g[2]) /\ (Len(g) >= 3 => z = g[3]) /\ (Len(g) < 2 => y = 0) /\ (Len(g) < 3 => z = 0)
  BY <1>0, SMT DEF At
<1>b. 0 \in Byte
  BY DEF Byte
<1>1. x \in Byte /\ y \in Byte /\ z \in Byte
  <2> HIDE DEF x, y, z
  <2> QED
    BY <1>0, <1>a, <1>b
<1>2. IsByte(x) /\ IsByte(y) /\ IsByte(z)
  <2> HIDE DEF x, y, z
  <2> QED
    BY SMT, <1>1 DEF Byte, IsByte
<1>3. PICK a, b, c, d : /\ IsSign(a) /\ IsSign(b) /\ IsSign(c) /\ IsSign(d)
                        /\ SameBits(a, b, c, d, x, y, z)
                        /\ (z = 0 => d = 0) /\ (y = 0 /\ z = 0 => c = 0)
  <2> HIDE DEF x, y, z
  <2> QED
    BY <1>2, Bits
<1>4. e = SubSeq(<<a, b, c, d>>, 1, Len(g) + 1)
  BY <1>3, EncodeGroupIs
<1> HIDE DEF x, y, z, e
<1>5. a \in 0 .. 63 /\ b \in 0 .. 63 /\ c \in 0 .. 63 /\ d \in 0 .. 63
  BY <1>3 DEF IsSign
<1>6. /\ e \in Seq(0 .. 63) /\ Len(e) = Len(g) + 1 /\ e[1] = a /\ e[2] = b
      /\ (Len(g) >= 2 => e[3] = c) /\ (Len(g) >= 3 => e[4] = d)
  <2> DEFINE s == <<a, b, c, d>>
             l == Len(g) + 1
  <2>1. s \in Seq(0 .. 63) /\ Len(s) = 4 /\ s[1] = a /\ s[2] = b /\ s[3] = c /\ s[4] = d
    BY <1>5
  <2>c. l \in 2 .. 4
    <3> DEFINE m == Len(g)
    <3>1. m \in 1 .. 3
      BY <1>0
    <3> HIDE DEF m
    <3>2. m + 1 \in 2 .. 4
      BY <3>1
    <3> QED
      BY <3>2 DEF m
  <2>d. e = SubSeq(s, 1, l)
    BY <1>4
  <2>2. l \in 2 .. 4 /\ e = SubSeq(s, 1, l)
    <3> HIDE DEF s, l
    <3> QED
      BY <2>c, <2>d
  <2> HIDE DEF s, l
  <2> DEFINE C == 0 .. 63
  <2>a. s \in Seq(C)
    BY <2>1
  <2> HIDE DEF C
  <2>b. e \in Seq(C) /\ Len(e) = l /\ \A j \in 1 .. l : e[j] = s[j]
    BY <2>1, <2>2, <2>a
  <2>3. e \in Seq(0 .. 63) /\ Len(e) = l /\ \A j \in 1 .. l : e[j] = s[j]
    BY <2>b DEF C
  <2>4. e[1] = a /\ e[2] = b /\ (l >= 3 => e[3] = c) /\ (l >= 4 => e[4] = d)
    BY <2>1, <2>2, <2>3
  <2> QED
    BY <2>3, <2>4 DEF l
<1>7. At(e, 1) = a /\ At(e, 2) = b /\ At(e, 3) = c /\ At(e, 4) = d
  <2>1. CASE Len(g) = 1
    BY <2>1, <1>a, <1>3, <1>6 DEF At
  <2>2. CASE Len(g) = 2
    BY <2>2, <1>a, <1>3, <1>6 DEF At
  <2>3. CASE Len(g) = 3
    BY <2>3, <1>6 DEF At
  <2> QED
    BY <2>1, <2>2, <2>3
<1>8. SameBits(At(e, 1), At(e, 2), At(e, 3), At(e, 4), x, y, z)
  BY <1>3, <1>7
<1>9. DecodeGroup(e) = SubSeq(<<x, y, z>>, 1, Len(g))
  <2>1. Len(e) - 1 = Len(g)
    BY <1>6
  <2>2. DecodeGroup(e) = SubSeq(<<x, y, z>>, 1, Len(e) - 1)
    BY <1>2, <1>8, DecodeGroupIs
  <2> QED
    BY <2>1, <2>2
<1>10. SubSeq(<<x, y, z>>, 1, Len(g)) = g
  <2> DEFINE s == <<x, y, z>>
             r == SubSeq(s, 1, Len(g))
  <2>1. s \in Seq(Byte) /\ Len(s) = 3 /\ s[1] = x /\ s[2] = y /\ s[3] = z
    BY <1>1
  <2> HIDE DEF s
  <2>2. r \in Seq(Byte) /\ Len(r) = Len(g) /\ \A j \in 1 .. Len(g) : r[j] = s[j]
    BY <2>1
  <2>3. ASSUME NEW j \in 1 .. Len(g) PROVE s[j] = g[j]
    <3>1. CASE j = 1
      BY <3>1, <1>a, <2>1
    <3>2. CASE j = 2
      BY <3>2, <1>a, <2>1
    <3>3. CASE j = 3
      BY <3>3, <1>a, <2>1
    <3> QED
      BY <3>1, <3>2, <3>3
  <2> HIDE DEF r
  <2>4. r = g
    BY <2>2, <2>3, SeqEqual
  <2> QED
    BY <2>4 DEF r, s
<1> QED
  BY <1>6, <1>9, <1>10 DEF e

\* The groups of a text, one after the other, are the text.
LEMMA GroupsJoin ==
  ASSUME NEW S, NEW b \in Seq(S)
  PROVE  FlattenSeq(Groups(b, 3)) = b
<1> DEFINE K == (Len(b) + 2) \div 3
           q == Groups(b, 3)
           t == FlattenSeq(q)
           l == Len(b)
<1>1. K \in Nat /\ l \in Nat /\ (K = 0 => l = 0)
  <2>1. l \in Nat /\ K = (l + 2) \div 3
    OBVIOUS
  <2> HIDE DEF l
  <2> QED
    BY SMT, <2>1
<1> HIDE DEF l
<1>2. K = (Len(b) + 3 - 1) \div 3
  OBVIOUS
<1> HIDE DEF K
<1>3. q \in Seq(Seq(S)) /\ Len(q) = K /\ \A k \in 1 .. K : IsGroup(S, b, 3, K, k, q[k])
  BY <1>1, <1>2, GroupsAre
<1> HIDE DEF q
<1>4. t \in Seq(S) /\ \E ends : Flattened(q, t, ends)
  BY <1>3, FlattenIs
<1>5. PICK ends : Flattened(q, t, ends)
  BY <1>4
<1> HIDE DEF t
<1>6. ASSUME NEW k \in 0 .. K PROVE ends[k] = IF k = K THEN l ELSE 3 * k
  <2> DEFINE f == [i \in 0 .. K |-> IF i = K THEN l ELSE 3 * i]
  <2>1. ASSUME NEW i \in 1 .. K PROVE f[i] = f[i - 1] + Len(q[i])
    <3>1. Len(q[i]) = IF i = K THEN l - 3 * (K - 1) ELSE 3
      BY <1>3 DEF IsGroup, l
    <3>2. i - 1 \in 0 .. K /\ i - 1 # K /\ i \in 0 .. K
      BY <1>1
    <3>3. f[i - 1] = 3 * (i - 1) /\ f[i] = IF i = K THEN l ELSE 3 * i
      BY <3>2
    <3> DEFINE m == Len(q[i])
    <3> HIDE DEF f, m
    <3>4. m = IF i = K THEN l - 3 * (K - 1) ELSE 3
      BY <3>1 DEF m
    <3>5. f[i] = f[i - 1] + m
      BY <3>3, <3>4, <1>1
    <3> QED
      BY <3>5 DEF m
  <2>2. f[0] = 0
    BY <1>1
  <2> HIDE DEF f
  <2>3. AddsUp(q, f)
    BY <1>3, <2>1, <2>2 DEF AddsUp
  <2>4. ends[k] = f[k]
    BY <1>3, <1>5, <2>3, EndsAre
  <2> QED
    BY <2>4 DEF f
<1>7. Len(t) = l
  <2>1. K \in 0 .. K
    BY <1>1
  <2>2. ends[K] = l
    BY <1>6, <2>1
  <2> QED
    BY <1>3, <1>5, <2>2 DEF Flattened
<1>8. ASSUME NEW i \in 1 .. l PROVE t[i] = b[i]
  <2>1. i \in 1 .. Len(t)
    BY Zenon, <1>7
  <2>2. q \in Seq(Seq(S))
    BY <1>3
  <2>3. PICK k, j : InPiece(q, t, ends, i, k, j)
    BY <2>1, <2>2, <1>5, FlattenedCovers
  <2>4. k \in 1 .. K /\ k - 1 \in 0 .. K /\ k - 1 # K
    BY <1>1, <1>3, <2>3 DEF InPiece
  <2>5. ends[k - 1] = 3 * (k - 1)
    BY <2>4, <1>6
  <2>6. q[k][j] = b[3 * (k - 1) + j]
    BY <2>3, <2>4, <1>3 DEF IsGroup, InPiece
  <2> QED
    BY <2>3, <2>5, <2>6 DEF InPiece
<1>9. t = b
  <2>a. \A i \in 1 .. l : t[i] = b[i]
    BY <1>8
  <2>1. Len(t) = Len(b) /\ \A i \in 1 .. Len(t) : t[i] = b[i]
    BY Zenon, <1>7, <2>a DEF l
  <2> QED
    BY <1>4, <2>1, SeqEqual
<1> QED
  BY <1>9 DEF t, q

\* What is written in groups of four signs, the last one shorter, falls into these groups.
LEMMA GroupsBack ==
  ASSUME NEW S, NEW q \in Seq(Seq(S)), NEW K, K = Len(q),
         \A k \in 1 .. K : Len(q[k]) \in 1 .. 4 /\ (k # K => Len(q[k]) = 4)
  PROVE  FlattenSeq(q) \in Seq(S) /\ Groups(FlattenSeq(q), 4) = q
<1> DEFINE t == FlattenSeq(q)
           r == IF K = 0 THEN 0 ELSE Len(q[K])
           l == Len(t)
<1>0. K \in Nat
  OBVIOUS
<1>1. K \in Nat /\ r \in Nat /\ r <= 4 /\ (K = 0 <=> r = 0)
  <2>1. CASE K = 0
    BY <2>1
  <2>2. CASE K # 0
    <3>1. K \in 1 .. K
      BY <1>0, <2>2
    <3>2. Len(q[K]) \in 1 .. 4
      BY <3>1
    <3> DEFINE m == Len(q[K])
    <3>3. m \in 1 .. 4 /\ r = m
      BY <3>2, <2>2
    <3> HIDE DEF m, r
    <3> QED
      BY <3>3, <1>0, <2>2
  <2> QED
    BY <2>1, <2>2
<1>2. ASSUME NEW k \in 1 .. K PROVE Len(q[k]) = IF k = K THEN r ELSE 4
  <2>1. CASE k = K
    BY <2>1, <1>0
  <2>2. CASE k # K
    BY <2>2
  <2> QED
    BY <2>1, <2>2
<1> HIDE DEF r
<1>3. t \in Seq(S) /\ \E ends : Flattened(q, t, ends)
  BY FlattenIs
<1>4. PICK ends : Flattened(q, t, ends)
  BY <1>3
<1> HIDE DEF t
<1>5. ASSUME NEW k \in 0 .. K PROVE ends[k] = IF k = K THEN 4 * K - 4 + r + (IF K = 0 THEN 4 ELSE 0) ELSE 4 * k
  <2> DEFINE f == [i \in 0 .. K |-> IF i = K THEN 4 * K - 4 + r + (IF K = 0 THEN 4 ELSE 0) ELSE 4 * i]
  <2>1. ASSUME NEW i \in 1 .. K PROVE f[i] = f[i - 1] + Len(q[i])
    <3>1. Len(q[i]) = IF i = K THEN r ELSE 4
      BY <1>2
    <3>2. i - 1 \in 0 .. K /\ i - 1 # K /\ i \in 0 .. K /\ K # 0
      BY <1>1
    <3>a. 4 * K - 4 + r + (IF K = 0 THEN 4 ELSE 0) = 4 * K - 4 + r
      BY <3>2, <1>1
    <3>3. f[i - 1] = 4 * (i - 1) /\ f[i] = IF i = K THEN 4 * K - 4 + r ELSE 4 * i
      BY <3>2, <3>a
    <3> DEFINE m == Len(q[i])
    <3> HIDE DEF f, m
    <3>4. m = IF i = K THEN r ELSE 4
      BY <3>1 DEF m
    <3>5. f[i] = f[i - 1] + m
      <4>1. CASE i = K
        BY <3>3, <3>4, <1>1, <4>1
      <4>2. CASE i # K
        BY <3>3, <3>4, <4>2
      <4> QED
        BY <4>1, <4>2
    <3> QED
      BY <3>5 DEF m
  <2>2. f[0] = 0
    BY <1>1
  <2> HIDE DEF f
  <2>3. AddsUp(q, f)
    BY <2>1, <2>2 DEF AddsUp
  <2>4. ends[k] = f[k]
    BY <1>4, <2>3, EndsAre
  <2> QED
    BY <2>4 DEF f
<1>6. l = 4 * K - 4 + r + (IF K = 0 THEN 4 ELSE 0)
  <2>1. K \in 0 .. K
    BY <1>1
  <2>2. ends[K] = 4 * K - 4 + r + (IF K = 0 THEN 4 ELSE 0)
    BY <1>5, <2>1
  <2> QED
    BY <1>4, <2>2 DEF Flattened
<1>7. K = (Len(t) + 4 - 1) \div 4
  <2> HIDE DEF l
  <2>1. K = (l + 4 - 1) \div 4
    BY SMT, <1>1, <1>6
  <2> QED
    BY <2>1 DEF l
<1>8. Groups(t, 4) \in Seq(Seq(S)) /\ Len(Groups(t, 4)) = K /\ \A k \in 1 .. K : IsGroup(S, t, 4, K, k, Groups(t, 4)[k])
  BY <1>1, <1>3, <1>7, GroupsAre DEF t
<1> DEFINE gs == Groups(t, 4)
<1>9. ASSUME NEW k \in 1 .. K PROVE gs[k] = q[k]
  <2> DEFINE g == gs[k]
             p == q[k]
  <2>1. IsGroup(S, t, 4, K, k, g)
    BY <1>8
  <2>2. k - 1 \in 0 .. K /\ k - 1 # K /\ K # 0
    BY <1>1
  <2>3. ends[k - 1] = 4 * (k - 1)
    BY <2>2, <1>5
  <2>4. \A j \in 1 .. Len(p) : t[ends[k - 1] + j] = p[j]
    BY <1>4 DEF Flattened
  <2>5. g \in Seq(S) /\ p \in Seq(S) /\ Len(p) = IF k = K THEN r ELSE 4
    BY <2>1, <1>2 DEF IsGroup
  <2>6. Len(g) = IF k = K THEN l - 4 * (K - 1) ELSE 4
    BY <2>1 DEF IsGroup
  <2>7. \A j \in 1 .. Len(g) : g[j] = t[4 * (k - 1) + j]
    BY <2>1 DEF IsGroup
  <2> HIDE DEF l, g, p
  <2>8. l - 4 * (K - 1) = r
    BY <1>1, <1>6, <2>2
  <2>9. Len(g) = Len(p)
    BY <2>5, <2>6, <2>8
  <2>10. \A j \in 1 .. Len(g) : g[j] = p[j]
    BY <2>3, <2>4, <2>7, <2>9
  <2>11. g = p
    BY <2>5, <2>9, <2>10, SeqEqual
  <2> QED
    BY <2>11 DEF g, p
<1> HIDE DEF gs
<1>10. gs = q
  BY <1>8, <1>9, SeqEqual DEF gs
<1> QED
  BY <1>3, <1>10 DEF gs, t

LEMMA Base64Returns ==
  ASSUME NEW b \in Seq(Byte)
  PROVE  Base64Decode(Base64Encode(b)) = b
<1> DEFINE K == (Len(b) + 2) \div 3
           gs == Groups(b, 3)
           q == [k \in DOMAIN gs |-> EncodeGroup(gs[k])]
           t == FlattenSeq(q)
           C == 0 .. 63
<1>1. K \in Nat
  <2> DEFINE l == Len(b)
  <2>1. l \in Nat
    OBVIOUS
  <2> HIDE DEF l
  <2>2. (l + 2) \div 3 \in Nat
    BY SMT, <2>1
  <2> QED
    BY <2>2 DEF l
<1>2. K = (Len(b) + 3 - 1) \div 3
  OBVIOUS
<1> HIDE DEF K
<1>3. gs \in Seq(Seq(Byte)) /\ Len(gs) = K /\ \A k \in 1 .. K : IsGroup(Byte, b, 3, K, k, gs[k])
  BY <1>1, <1>2, GroupsAre
<1>4. FlattenSeq(gs) = b
  BY GroupsJoin
<1>5. Base64Encode(b) = t
  BY DEF Base64Encode
<1> HIDE DEF gs
<1>6. ASSUME NEW k \in 1 .. K
      PROVE  /\ EncodeGroup(gs[k]) \in Seq(C) /\ DecodeGroup(EncodeGroup(gs[k])) = gs[k]
             /\ Len(EncodeGroup(gs[k])) \in 1 .. 4 /\ (k # K => Len(EncodeGroup(gs[k])) = 4)
  <2> DEFINE g == gs[k]
             e == EncodeGroup(g)
             m == Len(g)
  <2>1. g \in Seq(Byte) /\ Len(g) \in 1 .. 3 /\ (k # K => Len(g) = 3)
    BY <1>3 DEF IsGroup
  <2> HIDE DEF g
  <2>2. e \in Seq(0 .. 63) /\ Len(e) = m + 1 /\ DecodeGroup(e) = g
    BY <2>1, GroupReturns
  <2> HIDE DEF e
  <2>3. m \in 1 .. 3 /\ (k # K => m = 3)
    BY <2>1
  <2> HIDE DEF m
  <2>4. m + 1 \in 1 .. 4 /\ (k # K => m + 1 = 4)
    BY <2>3
  <2> QED
    BY <2>2, <2>4 DEF e, g
<1> HIDE DEF C
<1>7. q \in Seq(Seq(C)) /\ Len(q) = K /\ \A k \in 1 .. K : q[k] = EncodeGroup(gs[k])
  <2>1. DOMAIN gs = 1 .. K
    BY <1>3
  <2> QED
    BY <1>1, <1>6, <2>1
<1> HIDE DEF q
<1>8. Groups(t, 4) = q
  BY <1>6, <1>7, GroupsBack
<1>9. Base64Decode(t) = FlattenSeq([k \in DOMAIN q |-> DecodeGroup(q[k])])
  BY <1>8 DEF Base64Decode
<1>10. [k \in DOMAIN q |-> DecodeGroup(q[k])] = gs
  <2>1. DOMAIN q = 1 .. K /\ \A k \in 1 .. K : DecodeGroup(q[k]) = gs[k]
    BY <1>6, <1>7
  <2>2. [k \in DOMAIN q |-> DecodeGroup(q[k])] = [k \in 1 .. K |-> gs[k]]
    BY <2>1
  <2>3. DOMAIN gs = 1 .. K /\ gs = [k \in DOMAIN gs |-> gs[k]]
    BY <1>3
  <2> QED
    BY <2>2, <2>3
<1> QED
  BY <1>4, <1>5, <1>9, <1>10

-----------------------------------------------------------------------------
(***************************************************************************)
(* Ranges of an audio file.                                                *)
(***************************************************************************)

LEMMA MinIs ==
  ASSUME NEW T \in SUBSET Int, NEW m \in T, \A y \in T : m <= y
  PROVE  Min(T) = m
<1> DEFINE least(x) == \A y \in T : x <= y
<1>1. \E x \in T : least(x)
  OBVIOUS
<1>2. Min(T) = CHOOSE x \in T : least(x)
  BY DEF Min
<1>3. Min(T) \in T /\ least(Min(T))
  <2> HIDE DEF least
  <2> QED
    BY <1>1, <1>2
<1> DEFINE v == Min(T)
<1>4. v \in T /\ v <= m
  BY <1>3
<1> HIDE DEF v
<1>5. m <= v
  BY <1>4
<1>6. v = m
  BY <1>4, <1>5
<1> QED
  BY <1>6 DEF v

LEMMA MaxIs ==
  ASSUME NEW T \in SUBSET Int, NEW m \in T, \A y \in T : m >= y
  PROVE  Max(T) = m
<1> DEFINE most(x) == \A y \in T : x >= y
<1>1. \E x \in T : most(x)
  OBVIOUS
<1>2. Max(T) = CHOOSE x \in T : most(x)
  BY DEF Max
<1>3. Max(T) \in T /\ most(Max(T))
  <2> HIDE DEF most
  <2> QED
    BY <1>1, <1>2
<1> DEFINE v == Max(T)
<1>4. v \in T /\ v >= m
  BY <1>3
<1> HIDE DEF v
<1>5. m >= v
  BY <1>4
<1>6. v = m
  BY <1>4, <1>5
<1> QED
  BY <1>6 DEF v

\* The positions that a range asks for, of which it is known where they begin and end.
AskedFor(total, spec) ==
  {i \in 0 .. total - 1 :
     IF spec[1] >= 0 THEN i >= spec[1] /\ (spec[2] >= 0 => i <= spec[2]) ELSE i >= total - spec[2]}

\* parse_byte_range finds the positions asked for.
LEMMA RangeIs ==
  ASSUME NEW total \in Nat, NEW from \in Nat \cup {-1}, NEW to \in Nat \cup {-1},
         <<from, to>> # <<-1, 0>>, NEW range, range = ParseByteRange(<<from, to>>, total)
  PROVE  \/ range = Nowhere /\ AskedFor(total, <<from, to>>) = {}
         \/ \E a, z \in 0 .. total : a < z /\ range = <<a, z>> /\ AskedFor(total, <<from, to>>) = a .. z - 1
<1> DEFINE spec == <<from, to>>
           end == IF to = -1 THEN total ELSE EndAfter(to, total)
           asked == AskedFor(total, spec)
<1>1. spec[1] = from /\ spec[2] = to
  OBVIOUS
<1>2. range = IF total = 0 \/ spec = <<-1, -1>> THEN Nowhere
              ELSE IF from = -1 THEN <<total - Min({to, total}), total>>
              ELSE IF from >= total \/ end <= from THEN Nowhere ELSE <<from, end>>
  BY <1>1 DEF ParseByteRange
<1>3. asked = {i \in 0 .. total - 1 : IF from >= 0 THEN i >= from /\ (to >= 0 => i <= to) ELSE i >= total - to}
  BY <1>1 DEF AskedFor
<1>4. end \in Nat /\ end = IF to = -1 THEN total ELSE IF to + 1 <= total THEN to + 1 ELSE total
  <2>1. CASE to = -1
    BY <2>1
  <2>2. CASE to # -1
    <3>1. to + 1 \in Nat
      BY <2>2
    <3> DEFINE m == to + 1
    <3> HIDE DEF m
    <3>2. Min({m, total}) \in Nat /\ Min({m, total}) = IF m <= total THEN m ELSE total
      BY <3>1, MinOfTwo DEF m
    <3> QED
      BY <3>1, <3>2, <2>2 DEF m, EndAfter
  <2> QED
    BY <2>1, <2>2
<1>5. spec = <<-1, -1>> <=> from = -1 /\ to = -1
  OBVIOUS
<1>6. ~ (from = -1 /\ to = 0)
  OBVIOUS
<1> HIDE DEF spec, end, asked
<1>7. CASE total = 0
  <2>1. asked = {} /\ range = Nowhere
    BY <1>2, <1>3, <1>7
  <2> QED
    BY <2>1 DEF asked, spec
<1>8. CASE total # 0 /\ from = -1 /\ to = -1
  <2>1. asked = {} /\ range = Nowhere
    BY <1>2, <1>3, <1>5, <1>8
  <2> QED
    BY <2>1 DEF asked, spec
<1>9. CASE total # 0 /\ from = -1 /\ to # -1
  <2> DEFINE m == Min({to, total})
             a == total - m
  <2>1. to \in Nat /\ to # 0
    BY <1>6, <1>9
  <2>2. m \in Nat /\ m = IF to <= total THEN to ELSE total
    BY <2>1, MinOfTwo
  <2>3. range = <<a, total>>
    BY <1>2, <1>5, <1>9
  <2> HIDE DEF m
  <2>4. a \in 0 .. total /\ a < total
    BY <1>9, <2>1, <2>2
  <2>5. asked = {i \in 0 .. total - 1 : i >= total - to}
    BY <1>3, <1>9
  <2>6. \A i \in 0 .. total - 1 : i >= total - to <=> i >= a
    BY <1>9, <2>1, <2>2
  <2> HIDE DEF a
  <2>7. asked = a .. total - 1
    BY <2>4, <2>5, <2>6
  <2> QED
    BY <2>3, <2>4, <2>7 DEF asked, spec
<1>10. CASE total # 0 /\ from # -1
  <2>1. from \in Nat
    BY <1>10
  <2>2. asked = {i \in 0 .. total - 1 : i >= from /\ (to >= 0 => i <= to)}
    BY <1>3, <2>1
  <2>3. \A i \in 0 .. total - 1 : (to >= 0 => i <= to) <=> i < end
    BY <1>4
  <2>4. end <= total
    BY <1>4
  <2>5. asked = {i \in 0 .. total - 1 : i >= from /\ i < end}
    BY <2>2, <2>3
  <2>6. CASE from >= total \/ end <= from
    <3>1. asked = {}
      BY <1>4, <2>1, <2>5, <2>6
    <3>2. range = Nowhere
      BY <1>2, <1>5, <1>10, <2>6
    <3> QED
      BY <3>1, <3>2 DEF asked, spec
  <2>7. CASE ~ (from >= total \/ end <= from)
    <3>1. from \in 0 .. total /\ end \in 0 .. total /\ from < end
      BY <1>4, <2>1, <2>4, <2>7
    <3>2. range = <<from, end>>
      BY <1>2, <1>5, <1>10, <2>7
    <3>3. asked = from .. end - 1
      BY <1>4, <2>1, <2>4, <2>5
    <3> QED
      BY <3>1, <3>2, <3>3 DEF asked, spec
  <2> QED
    BY <2>6, <2>7
<1> QED
  BY <1>7, <1>8, <1>9, <1>10

\* The last 0 bytes of a file.
LEMMA LastNone ==
  ASSUME NEW total \in Nat
  PROVE  RangeReturns(total, <<-1, 0>>)
<1> DEFINE body == [i \in 1 .. total |-> i - 1]
           spec == <<-1, 0>>
           range == ParseByteRange(spec, total)
           named == {i \in 0 .. total - 1 :
                       IF spec[1] >= 0 THEN i >= spec[1] /\ (spec[2] >= 0 => i <= spec[2]) ELSE i >= total - spec[2]}
           answer == ApplyRange(body, spec)
<1>1. spec[1] = -1 /\ spec[2] = 0 /\ spec # <<-1, -1>>
  OBVIOUS
<1>2. named = {}
  BY <1>1
<1>3. body \in Seq(Nat) /\ Len(body) = total
  OBVIOUS
<1>4. answer = IF range = Nowhere THEN [status |-> 416, at |-> -1, last |-> -1, bytes |-> <<>>]
               ELSE [status |-> 206, at |-> range[1], last |-> range[2] - 1,
                     bytes |-> SubSeq(body, range[1] + 1, range[2])]
  <2> HIDE DEF body
  <2> QED
    BY <1>3 DEF ApplyRange
<1>5. range = IF total = 0 THEN Nowhere ELSE <<total - Min({0, total}), total>>
  <2>1. range = IF total = 0 \/ spec = <<-1, -1>> THEN Nowhere
                ELSE IF spec[1] = -1 THEN <<total - Min({spec[2], total}), total>>
                ELSE IF spec[1] >= total
                        \/ (IF spec[2] = -1 THEN total ELSE EndAfter(spec[2], total)) <= spec[1] THEN Nowhere
                ELSE <<spec[1], IF spec[2] = -1 THEN total ELSE EndAfter(spec[2], total)>>
    BY DEF ParseByteRange
  <2> HIDE DEF range, spec
  <2> QED
    BY <1>1, <2>1
<1>6. CASE total = 0
  <2>1. answer.status = 416
    BY <1>4, <1>5, <1>6
  <2>2. ~ (total > 0)
    BY <1>6
  <2> QED
    BY <1>2, <2>1, <2>2 DEF RangeReturns
<1>7. CASE total # 0
  <2>1. Min({0, total}) = 0
    BY MinOfTwo
  <2>2. range = <<total, total>> /\ range # Nowhere
    BY <1>5, <1>7, <2>1 DEF Nowhere
  <2>3. SubSeq(body, total + 1, total) = <<>>
    BY <1>3
  <2> HIDE DEF range, body
  <2>4. answer = [status |-> 206, at |-> total, last |-> total - 1, bytes |-> <<>>]
    BY <1>4, <2>2, <2>3
  <2> QED
    BY <1>2, <1>7, <2>4 DEF RangeReturns, body
<1> QED
  BY <1>6, <1>7

\* A range that is not of the last 0 bytes.
LEMMA RangeWithBytes ==
  ASSUME NEW total \in Nat, NEW spec \in (Nat \cup {-1}) \X (Nat \cup {-1}), spec # <<-1, 0>>
  PROVE  RangeReturns(total, spec)
<1> DEFINE body == [i \in 1 .. total |-> i - 1]
           answer == ApplyRange(body, spec)
           named == AskedFor(total, spec)
           range == ParseByteRange(spec, total)
<1>1. SUFFICES IF named = {} THEN answer.status = 416
               ELSE /\ answer.status = 206 /\ answer.at = Min(named) /\ answer.last = Max(named)
                    /\ ToSet(answer.bytes) = named
                    /\ \A j, k \in DOMAIN answer.bytes : j < k => answer.bytes[j] < answer.bytes[k]
  <2> DEFINE all == \A j, k \in DOMAIN answer.bytes : j < k => answer.bytes[j] < answer.bytes[k]
  <2>1. RangeReturns(total, spec) <=>
          IF named # {}
            THEN answer.status = 206 /\ answer.at = Min(named) /\ answer.last = Max(named)
                 /\ ToSet(answer.bytes) = named /\ all
          ELSE IF spec = <<-1, 0>> /\ total > 0
            THEN answer = [status |-> 206, at |-> total, last |-> total - 1, bytes |-> <<>>]
          ELSE answer.status = 416
    BY Zenon DEF RangeReturns, AskedFor
  <2> HIDE DEF answer, named
  <2> QED
    BY Zenon, <2>1
<1>2. body \in Seq(Nat) /\ Len(body) = total /\ \A i \in 1 .. total : body[i] = i - 1
  OBVIOUS
<1>3. answer = IF range = Nowhere THEN [status |-> 416, at |-> -1, last |-> -1, bytes |-> <<>>]
               ELSE [status |-> 206, at |-> range[1], last |-> range[2] - 1,
                     bytes |-> SubSeq(body, range[1] + 1, range[2])]
  <2> HIDE DEF body
  <2> QED
    BY <1>2 DEF ApplyRange
<1> HIDE DEF body, answer
<1>4. \/ range = Nowhere /\ named = {}
      \/ \E a, z \in 0 .. total : a < z /\ range = <<a, z>> /\ named = a .. z - 1
  <2> DEFINE from == spec[1]
             to == spec[2]
  <2>1. from \in Nat \cup {-1} /\ to \in Nat \cup {-1} /\ spec = <<from, to>>
    OBVIOUS
  <2> HIDE DEF from, to
  <2> QED
    BY <1>1, <2>1, RangeIs
<1> HIDE DEF named, range
<1>5. CASE range = Nowhere /\ named = {}
  BY <1>3, <1>5
<1>6. CASE \E a, z \in 0 .. total : a < z /\ range = <<a, z>> /\ named = a .. z - 1
  <2>1. PICK a \in 0 .. total, z \in 0 .. total : a < z /\ range = <<a, z>> /\ named = a .. z - 1
    BY <1>6
  <2>2. range[1] = a /\ range[2] = z /\ range # Nowhere
    BY <2>1 DEF Nowhere
  <2> DEFINE bytes == SubSeq(body, a + 1, z)
  <2>3. answer = [status |-> 206, at |-> a, last |-> z - 1, bytes |-> bytes]
    BY <1>3, <2>2
  <2>4. Len(bytes) = z - a /\ bytes \in Seq(Nat) /\ \A j \in 1 .. z - a : bytes[j] = body[a + j]
    BY <1>2, <2>1
  <2>5. \A j \in 1 .. z - a : bytes[j] = a + j - 1
    BY <1>2, <2>1, <2>4
  <2> HIDE DEF bytes
  <2>6. DOMAIN bytes = 1 .. z - a
    BY <2>1, <2>4
  <2>7. ToSet(bytes) = a .. z - 1
    <3>1. ToSet(bytes) = {bytes[j] : j \in 1 .. z - a}
      BY <2>6 DEF ToSet
    <3>2. ASSUME NEW i \in a .. z - 1 PROVE i \in {bytes[j] : j \in 1 .. z - a}
      <4>1. i - a + 1 \in 1 .. z - a /\ bytes[i - a + 1] = i
        BY <2>1, <2>5
      <4> QED
        BY <4>1
    <3>3. ASSUME NEW j \in 1 .. z - a PROVE bytes[j] \in a .. z - 1
      BY <2>1, <2>5
    <3> QED
      BY <3>1, <3>2, <3>3
  <2>8. \A j, k \in DOMAIN bytes : j < k => bytes[j] < bytes[k]
    BY <2>1, <2>5, <2>6
  <2>9. named # {} /\ Min(named) = a /\ Max(named) = z - 1
    <3>1. named \in SUBSET Int /\ a \in named /\ z - 1 \in named /\ \A y \in named : a <= y /\ z - 1 >= y
      BY <2>1
    <3> DEFINE l == z - 1
    <3>2. named \in SUBSET Int /\ a \in named /\ l \in named /\ (\A y \in named : a <= y) /\ (\A y \in named : l >= y)
      BY <3>1
    <3> HIDE DEF l
    <3>3. Min(named) = a /\ Max(named) = l
      BY <3>2, MinIs, MaxIs
    <3> QED
      BY <3>2, <3>3 DEF l
  <2> QED
    BY <2>3, <2>7, <2>8, <2>9, <2>1
<1> QED
  BY <1>4, <1>5, <1>6

\* Every range of every file.
LEMMA RangeReturnsAlways ==
  ASSUME NEW total \in Nat, NEW spec \in (Nat \cup {-1}) \X (Nat \cup {-1})
  PROVE  RangeReturns(total, spec)
<1>0. CASE spec = <<-1, 0>>
  BY <1>0, LastNone
<1>a. CASE spec # <<-1, 0>>
  BY <1>a, RangeWithBytes
<1> QED
  BY <1>0, <1>a

-----------------------------------------------------------------------------
(***************************************************************************)
(* Uploads: where the boundaries and the lines between them stand in a     *)
(* body.                                                                   *)
(***************************************************************************)

LEMMA FunctionIsSeq ==
  ASSUME NEW C, NEW n \in Nat, NEW q \in [1 .. n -> C]
  PROVE  q \in Seq(C) /\ Len(q) = n /\ DOMAIN q = 1 .. n
  OBVIOUS

\* Text c is the n characters of s from position u on.
IsSlice(S, c, s, u, n) ==
  c \in Seq(S) /\ Len(c) = n /\ n \in Nat /\ \A k \in 1 .. n : c[k] = s[u + k - 1]

LEMMA SliceIs ==
  ASSUME NEW S, NEW s \in Seq(S), NEW u \in Nat \ {0}, NEW v \in Nat, v <= Len(s), u <= v + 1,
         NEW n, n = v - u + 1
  PROVE  IsSlice(S, SubSeq(s, u, v), s, u, n)
<1> DEFINE w == SubSeq(s, u, v)
<1>1. n \in Nat /\ w = [k \in 1 .. n |-> s[u + k - 1]]
  OBVIOUS
<1>2. \A k \in 1 .. n : u + k - 1 \in 1 .. Len(s)
  BY <1>1
<1>3. \A k \in 1 .. n : s[u + k - 1] \in S
  BY <1>2
<1> HIDE DEF w
<1>4. w \in [1 .. n -> S] /\ \A k \in 1 .. n : w[k] = s[u + k - 1]
  BY <1>1, <1>3
<1>5. w \in Seq(S) /\ Len(w) = n
  BY <1>1, <1>4, FunctionIsSeq
<1>6. IsSlice(S, w, s, u, n)
  BY <1>1, <1>4, <1>5 DEF IsSlice
<1> QED
  BY <1>6 DEF w

\* Text c is a of length m, followed by b of length n.
IsJoin(S, c, a, m, b, n) ==
  /\ c \in Seq(S) /\ Len(c) = m + n /\ m \in Nat /\ n \in Nat
  /\ (\A i \in 1 .. m : c[i] = a[i]) /\ (\A j \in 1 .. n : c[m + j] = b[j])

LEMMA JoinIs ==
  ASSUME NEW S, NEW a \in Seq(S), NEW b \in Seq(S), NEW m, NEW n, m = Len(a), n = Len(b), NEW c, c = a \o b
  PROVE  IsJoin(S, c, a, m, b, n)
<1>1. /\ a \o b \in Seq(S) /\ Len(a \o b) = Len(a) + Len(b)
      /\ \A i \in 1 .. Len(a) : (a \o b)[i] = a[i]
      /\ \A j \in 1 .. Len(b) : (a \o b)[Len(a) + j] = b[j]
  BY Joined
<1>2. Len(a) \in Nat /\ Len(b) \in Nat
  OBVIOUS
<1> QED
  BY Zenon, <1>1, <1>2 DEF IsJoin

LEMMA TokensDiffer ==
  Marker # Crlf /\ Marker # Dashes /\ Crlf # Dashes
  BY Zenon DEF Marker, Crlf, Dashes

\* The first x from position i on.
LEMMA FindOne ==
  ASSUME NEW S, NEW body \in Seq(S), NEW x, NEW i \in Nat \ {0}, NEW m \in i .. Len(body), body[m] = x,
         \A j \in i .. m - 1 : body[j] # x
  PROVE  FindBytes(body, i, <<x>>) = m
<1> DEFINE hits == {j \in i .. Len(body) - Len(<<x>>) + 1 : SubSeq(body, j, j + Len(<<x>>) - 1) = <<x>>}
<1>1. hits = {j \in i .. Len(body) : body[j] = x}
  <2>1. Len(<<x>>) = 1 /\ Len(body) \in Nat
    OBVIOUS
  <2>2. ASSUME NEW j \in i .. Len(body) PROVE SubSeq(body, j, j) = <<x>> <=> body[j] = x
    <3> DEFINE r == SubSeq(body, j, j)
    <3>1. r \in Seq(S) /\ Len(r) = 1 /\ r[1] = body[j]
      BY <2>1
    <3> HIDE DEF r
    <3>2. r = <<x>> <=> r[1] = x
      BY <3>1
    <3> QED
      BY <3>1, <3>2 DEF r
  <2>3. i .. Len(body) - Len(<<x>>) + 1 = i .. Len(body)
    BY <2>1
  <2>4. \A j \in i .. Len(body) : j + Len(<<x>>) - 1 = j
    BY <2>1
  <2> QED
    BY <2>2, <2>3, <2>4
<1>2. FindBytes(body, i, <<x>>) = IF hits = {} THEN 0 ELSE Min(hits)
  BY DEF FindBytes
<1> HIDE DEF hits
<1>3. hits \in SUBSET Int /\ m \in hits /\ \A y \in hits : m <= y
  BY <1>1
<1> QED
  BY <1>2, <1>3, MinIs

\* No x is followed by another x from position i on, before position m.
Apart(body, x, i, m) == \A j \in i .. m - 1 : body[j] # x \/ body[j + 1] # x

\* The first x from position i on that another x follows.
LEMMA FindTwo ==
  ASSUME NEW S, NEW body \in Seq(S), NEW x, NEW i \in Nat \ {0}, NEW m \in i .. Len(body) - 1,
         body[m] = x, body[m + 1] = x, Apart(body, x, i, m)
  PROVE  FindBytes(body, i, <<x, x>>) = m
<1> DEFINE hits == {j \in i .. Len(body) - Len(<<x, x>>) + 1 : SubSeq(body, j, j + Len(<<x, x>>) - 1) = <<x, x>>}
<1>1. hits = {j \in i .. Len(body) - 1 : body[j] = x /\ body[j + 1] = x}
  <2>1. Len(<<x, x>>) = 2 /\ Len(body) \in Nat
    OBVIOUS
  <2>2. ASSUME NEW j \in i .. Len(body) - 1 PROVE SubSeq(body, j, j + 1) = <<x, x>> <=> body[j] = x /\ body[j + 1] = x
    <3> DEFINE r == SubSeq(body, j, j + 1)
    <3>1. r \in Seq(S) /\ Len(r) = 2 /\ r[1] = body[j] /\ r[2] = body[j + 1]
      BY <2>1
    <3> HIDE DEF r
    <3>2. r = <<x, x>> <=> r[1] = x /\ r[2] = x
      BY <3>1
    <3> QED
      BY <3>1, <3>2 DEF r
  <2>3. i .. Len(body) - Len(<<x, x>>) + 1 = i .. Len(body) - 1
    BY <2>1
  <2>4. \A j \in i .. Len(body) - 1 : j + Len(<<x, x>>) - 1 = j + 1
    BY <2>1
  <2> QED
    BY <2>2, <2>3, <2>4
<1>2. FindBytes(body, i, <<x, x>>) = IF hits = {} THEN 0 ELSE Min(hits)
  BY DEF FindBytes
<1> HIDE DEF hits
<1>3. hits \in SUBSET Int /\ m \in hits /\ \A y \in hits : m <= y
  BY <1>1 DEF Apart
<1> QED
  BY <1>2, <1>3, MinIs

\* A part as it is written.
PartText(part) == <<Marker, Crlf>> \o part.headers \o <<Crlf, Crlf>> \o part.bytes \o <<Crlf>>

\* A part whose headers are h and whose bytes are b stands in a text from position p on.
PartStands(text, p, h, b) ==
  /\ text[p] = Marker /\ text[p + 1] = Crlf
  /\ \A j \in 1 .. Len(h) : text[p + 1 + j] = h[j]
  /\ text[p + 2 + Len(h)] = Crlf /\ text[p + 3 + Len(h)] = Crlf
  /\ \A j \in 1 .. Len(b) : text[p + 3 + Len(h) + j] = b[j]
  /\ text[p + 4 + Len(h) + Len(b)] = Crlf

LEMMA PartTextIs ==
  ASSUME NEW S, Marker \in S, Crlf \in S, NEW part, part.headers \in Seq(S), part.bytes \in Seq(S)
  PROVE  /\ PartText(part) \in Seq(S) /\ Len(PartText(part)) = Len(part.headers) + Len(part.bytes) + 5
         /\ PartStands(PartText(part), 1, part.headers, part.bytes)
<1> DEFINE h == part.headers
           b == part.bytes
           one == <<Marker, Crlf>>
           three == <<Crlf, Crlf>>
           five == <<Crlf>>
           a2 == one \o h
           a3 == a2 \o three
           a4 == a3 \o b
           a5 == a4 \o five
           m == Len(h)
           n == Len(b)
<1>1. PartText(part) = a5
  BY DEF PartText
<1>2. one \in Seq(S) /\ Len(one) = 2 /\ one[1] = Marker /\ one[2] = Crlf
  OBVIOUS
<1>3. three \in Seq(S) /\ Len(three) = 2 /\ three[1] = Crlf /\ three[2] = Crlf
  OBVIOUS
<1>4. five \in Seq(S) /\ Len(five) = 1 /\ five[1] = Crlf
  OBVIOUS
<1>5. m \in Nat /\ n \in Nat /\ h \in Seq(S) /\ b \in Seq(S)
  OBVIOUS
<1> HIDE DEF one, three, five, h, b
<1>a. m = Len(h) /\ n = Len(b) /\ a2 = one \o h
  OBVIOUS
<1> HIDE DEF a2, m, n
<1>6. IsJoin(S, a2, one, 2, h, m)
  BY <1>2, <1>5, <1>a, JoinIs
<1>7. IsJoin(S, a3, a2, 2 + m, three, 2)
  <2>1. Len(a2) = 2 + m /\ a2 \in Seq(S)
    BY <1>6 DEF IsJoin
  <2> QED
    BY <1>3, <2>1, JoinIs
<1> HIDE DEF a3
<1>8. IsJoin(S, a4, a3, 4 + m, b, n)
  <2>1. Len(a3) = 4 + m /\ a3 \in Seq(S)
    BY <1>7, <1>5 DEF IsJoin
  <2> QED
    BY <1>5, <1>a, <2>1, JoinIs
<1> HIDE DEF a4
<1>9. IsJoin(S, a5, a4, 4 + m + n, five, 1)
  <2>1. Len(a4) = 4 + m + n /\ a4 \in Seq(S)
    BY <1>8 DEF IsJoin
  <2> QED
    BY <1>4, <2>1, JoinIs
<1> HIDE DEF a5
<1> USE DEF IsJoin
<1>10. a5[1] = Marker /\ a5[2] = Crlf
  <2>1. a2[1] = Marker /\ a2[2] = Crlf
    BY <1>2, <1>6
  <2>2. a3[1] = Marker /\ a3[2] = Crlf
    BY <2>1, <1>5, <1>7
  <2>3. a4[1] = Marker /\ a4[2] = Crlf
    BY <2>2, <1>5, <1>8
  <2> QED
    BY <2>3, <1>5, <1>9
<1>11. ASSUME NEW j \in 1 .. m PROVE a5[2 + j] = h[j]
  <2> DEFINE i == 2 + j
  <2>1. i \in 1 .. 2 + m /\ i \in 1 .. 4 + m /\ i \in 1 .. 4 + m + n
    BY <1>5
  <2>2. a2[i] = h[j]
    BY <1>6
  <2> HIDE DEF i
  <2>3. a3[i] = a2[i]
    BY <1>7, <2>1
  <2>4. a4[i] = a3[i]
    BY <1>8, <2>1
  <2>5. a5[i] = a4[i]
    BY <1>9, <2>1
  <2> QED
    BY <2>2, <2>3, <2>4, <2>5 DEF i
<1>12. a5[3 + m] = Crlf /\ a5[4 + m] = Crlf
  <2>1. a3[2 + m + 1] = Crlf /\ a3[2 + m + 2] = Crlf
    BY <1>3, <1>7
  <2>2. 2 + m + 1 = 3 + m /\ 2 + m + 2 = 4 + m /\ 3 + m \in 1 .. 4 + m /\ 4 + m \in 1 .. 4 + m
    BY <1>5
  <2>3. a4[3 + m] = Crlf /\ a4[4 + m] = Crlf
    BY <1>8, <2>1, <2>2
  <2>4. 3 + m \in 1 .. 4 + m + n /\ 4 + m \in 1 .. 4 + m + n
    BY <1>5
  <2> QED
    BY <1>9, <2>3, <2>4
<1>13. ASSUME NEW j \in 1 .. n PROVE a5[4 + m + j] = b[j]
  <2>1. a4[4 + m + j] = b[j] /\ 4 + m + j \in 1 .. 4 + m + n
    BY <1>5, <1>8
  <2> QED
    BY <1>9, <2>1
<1>14. PartStands(a5, 1, h, b)
  <2>1. 1 + 1 = 2 /\ (\A j \in 1 .. m : 1 + 1 + j = 2 + j) /\ 1 + 2 + m = 3 + m /\ 1 + 3 + m = 4 + m
    BY <1>5
  <2>2. (\A j \in 1 .. n : 1 + 3 + m + j = 4 + m + j) /\ 1 + 4 + m + n = 5 + m + n
    BY <1>5
  <2>3. \A j \in 1 .. m : a5[1 + 1 + j] = h[j]
    BY <1>11, <2>1
  <2>4. \A j \in 1 .. n : a5[1 + 3 + m + j] = b[j]
    BY <1>13, <2>2
  <2>5. a5[1] = Marker /\ a5[1 + 1] = Crlf /\ a5[1 + 2 + m] = Crlf /\ a5[1 + 3 + m] = Crlf /\ a5[1 + 4 + m + n] = Crlf
    <3>1. 4 + m + n + 1 = 1 + 4 + m + n
      BY <1>5
    <3>2. a5[4 + m + n + 1] = Crlf
      BY <1>4, <1>9
    <3> QED
      BY <1>10, <1>12, <2>1, <3>1, <3>2
  <2> QED
    BY <2>3, <2>4, <2>5 DEF PartStands, m, n
<1> QED
  <2>1. Len(a5) = m + n + 5
    BY <1>5, <1>9
  <2> QED
    BY <1>1, <1>9, <1>14, <2>1 DEF h, b, m, n

\* What is known of a part that is written by itself is known of it in a text that holds it.
LEMMA PartMoves ==
  ASSUME NEW S, NEW h \in Seq(S), NEW b \in Seq(S), NEW x, PartStands(x, 1, h, b),
         NEW text, NEW e \in Nat, NEW l, l = Len(h) + Len(b) + 5, \A j \in 1 .. l : text[e + j] = x[j]
  PROVE  PartStands(text, e + 1, h, b)
<1> DEFINE m == Len(h)
           n == Len(b)
<1>1. m \in Nat /\ n \in Nat /\ l = m + n + 5
  OBVIOUS
<1>2. /\ x[1] = Marker /\ x[1 + 1] = Crlf /\ x[1 + 2 + m] = Crlf /\ x[1 + 3 + m] = Crlf
      /\ x[1 + 4 + m + n] = Crlf
  BY DEF PartStands
<1>3. /\ \A j \in 1 .. m : x[1 + 1 + j] = h[j]
      /\ \A j \in 1 .. n : x[1 + 3 + m + j] = b[j]
  BY DEF PartStands
<1> HIDE DEF m, n
<1>4. text[e + 1] = Marker /\ text[e + 1 + 1] = Crlf
  <2>1. 1 \in 1 .. l /\ 2 \in 1 .. l /\ e + 1 + 1 = e + 2 /\ 1 + 1 = 2
    BY <1>1
  <2> QED
    BY <1>2, <2>1
<1>5. ASSUME NEW j \in 1 .. m PROVE text[e + 1 + 1 + j] = h[j]
  <2>1. 1 + 1 + j \in 1 .. l /\ e + 1 + 1 + j = e + (1 + 1 + j)
    BY <1>1
  <2> QED
    BY <1>3, <2>1
<1>6. text[e + 1 + 2 + m] = Crlf /\ text[e + 1 + 3 + m] = Crlf
  <2>1. /\ 1 + 2 + m \in 1 .. l /\ e + 1 + 2 + m = e + (1 + 2 + m)
        /\ 1 + 3 + m \in 1 .. l /\ e + 1 + 3 + m = e + (1 + 3 + m)
    BY <1>1
  <2> QED
    BY <1>2, <2>1
<1>7. ASSUME NEW j \in 1 .. n PROVE text[e + 1 + 3 + m + j] = b[j]
  <2>1. 1 + 3 + m + j \in 1 .. l /\ e + 1 + 3 + m + j = e + (1 + 3 + m + j)
    BY <1>1
  <2> QED
    BY <1>3, <2>1
<1>8. text[e + 1 + 4 + m + n] = Crlf
  <2>1. 1 + 4 + m + n \in 1 .. l /\ e + 1 + 4 + m + n = e + (1 + 4 + m + n)
    BY <1>1
  <2> QED
    BY <1>2, <2>1
<1> QED
  BY <1>4, <1>5, <1>6, <1>7, <1>8 DEF PartStands, m, n

\* A form of K parts: where each of its parts starts, and its last boundary.
Laid(S, parts, body, at, K) ==
  /\ body \in Seq(S) /\ at \in [1 .. K + 1 -> Nat \ {0}] /\ at[1] = 1
  /\ \A k \in 1 .. K : /\ PartStands(body, at[k], parts[k].headers, parts[k].bytes)
                       /\ at[k + 1] = at[k] + Len(parts[k].headers) + Len(parts[k].bytes) + 5
                       /\ at[k + 1] < Len(body)
  /\ Len(body) = at[K + 1] + 1 /\ body[at[K + 1]] = Marker /\ body[at[K + 1] + 1] = Dashes

LEMMA MultipartIs ==
  ASSUME NEW S, Marker \in S, Crlf \in S, Dashes \in S, NEW parts \in Seq([headers : Seq(S), bytes : Seq(S)]),
         NEW K, K = Len(parts)
  PROVE  \E at : Laid(S, parts, Multipart(parts), at, K)
<1> DEFINE q == [k \in DOMAIN parts |-> PartText(parts[k])]
           t == FlattenSeq(q)
           final == <<Marker, Dashes>>
           body == Multipart(parts)
           l(k) == Len(parts[k].headers) + Len(parts[k].bytes) + 5
<1>1. body = t \o final
  BY DEF Multipart, PartText
<1>2. K \in Nat /\ DOMAIN parts = 1 .. K
  OBVIOUS
<1>3. ASSUME NEW k \in 1 .. K
      PROVE  /\ PartText(parts[k]) \in Seq(S) /\ Len(PartText(parts[k])) = l(k) /\ l(k) \in Nat
             /\ PartStands(PartText(parts[k]), 1, parts[k].headers, parts[k].bytes)
             /\ parts[k].headers \in Seq(S) /\ parts[k].bytes \in Seq(S)
  <2> DEFINE p == parts[k]
  <2> DEFINE R == [headers : Seq(S), bytes : Seq(S)]
  <2>a. parts \in Seq(R)
    OBVIOUS
  <2> HIDE DEF R
  <2>b. p \in R
    BY <1>2, <2>a
  <2> HIDE DEF p
  <2>1. p.headers \in Seq(S) /\ p.bytes \in Seq(S)
    BY <2>b DEF R
  <2>2. /\ PartText(p) \in Seq(S) /\ Len(PartText(p)) = Len(p.headers) + Len(p.bytes) + 5
        /\ PartStands(PartText(p), 1, p.headers, p.bytes)
    BY <2>1, PartTextIs
  <2> DEFINE m == Len(p.headers) + Len(p.bytes) + 5
  <2>c. m \in Nat
    <3> DEFINE u == Len(p.headers)
               v == Len(p.bytes)
    <3>1. u \in Nat /\ v \in Nat
      BY <2>1
    <3> HIDE DEF u, v
    <3>2. u + v + 5 \in Nat
      BY <3>1
    <3> QED
      BY <3>2 DEF u, v
  <2>d. m = l(k)
    BY Zenon DEF p
  <2>3. m \in Nat /\ m = l(k)
    BY Zenon, <2>c, <2>d
  <2>4. Len(PartText(p)) = m
    BY <2>2
  <2> HIDE DEF m, l
  <2>5. Len(PartText(p)) = l(k) /\ l(k) \in Nat
    BY Zenon, <2>3, <2>4
  <2> QED
    BY Zenon, <2>1, <2>2, <2>5 DEF p
<1>4. q \in Seq(Seq(S)) /\ Len(q) = K /\ \A k \in 1 .. K : q[k] = PartText(parts[k])
  <2>1. \A k \in 1 .. K : PartText(parts[k]) \in Seq(S)
    BY <1>3
  <2>2. q \in [1 .. K -> Seq(S)] /\ \A k \in 1 .. K : q[k] = PartText(parts[k])
    BY <1>2, <2>1
  <2> HIDE DEF q
  <2> DEFINE C == Seq(S)
  <2>4. q \in [1 .. K -> C]
    BY <2>2
  <2> HIDE DEF C
  <2>5. q \in Seq(C) /\ Len(q) = K
    BY <1>2, <2>4, FunctionIsSeq
  <2>3. q \in Seq(Seq(S)) /\ Len(q) = K
    BY <2>5 DEF C
  <2> QED
    BY <2>2, <2>3
<1> HIDE DEF q, l, body
<1>5. t \in Seq(S) /\ \E ends : Flattened(q, t, ends)
  BY <1>4, FlattenIs
<1>6. PICK ends : Flattened(q, t, ends)
  BY <1>5
<1>7. final \in Seq(S) /\ Len(final) = 2 /\ final[1] = Marker /\ final[2] = Dashes
  OBVIOUS
<1> HIDE DEF t, final
<1> DEFINE n == Len(t)
<1>8. IsJoin(S, body, t, n, final, 2)
  <2>1. n = Len(t)
    OBVIOUS
  <2> HIDE DEF n
  <2> QED
    BY <1>1, <1>5, <1>7, <2>1, JoinIs
<1>9. ends \in [0 .. K -> Nat] /\ ends[0] = 0 /\ n = ends[K]
  BY <1>4, <1>6 DEF Flattened
<1> HIDE DEF n
<1> DEFINE at == [k \in 1 .. K + 1 |-> ends[k - 1] + 1]
<1>10. at \in [1 .. K + 1 -> Nat \ {0}] /\ at[1] = 1 /\ at[K + 1] = n + 1
  <2>1. ASSUME NEW k \in 1 .. K + 1 PROVE ends[k - 1] + 1 \in Nat \ {0}
    <3>1. k - 1 \in 0 .. K
      BY <1>2
    <3>2. ends[k - 1] \in Nat
      BY <1>9, <3>1
    <3> QED
      BY <3>2
  <2>2. at[1] = ends[0] + 1 /\ at[K + 1] = ends[K] + 1
    BY <1>2
  <2> QED
    BY <1>9, <2>1, <2>2
<1>11. ASSUME NEW k \in 1 .. K
       PROVE  /\ PartStands(body, at[k], parts[k].headers, parts[k].bytes)
              /\ at[k + 1] = at[k] + l(k) /\ at[k + 1] < Len(body)
  <2> DEFINE e == ends[k - 1]
             x == q[k]
             m == l(k)
             h == parts[k].headers
             b == parts[k].bytes
  <2>1. k - 1 \in 0 .. K /\ k \in 0 .. K /\ k + 1 \in 1 .. K + 1
    BY <1>2
  <2>2. e \in Nat /\ ends[k] \in Nat
    BY <1>9, <2>1
  <2>3. x = PartText(parts[k])
    BY <1>4
  <2>4. Len(x) = m /\ m \in Nat /\ PartStands(x, 1, h, b) /\ h \in Seq(S) /\ b \in Seq(S) /\ m = Len(h) + Len(b) + 5
    BY <1>3, <2>3 DEF l
  <2>5. ends[k] = e + m /\ \A j \in 1 .. m : t[e + j] = x[j]
    BY <1>4, <1>6, <2>4 DEF Flattened
  <2>6. ends[k] <= n
    <3>1. \A i \in 0 .. Len(q) : ends[i] \in Nat /\ ends[i] <= Len(t)
      BY <1>4, <1>6, FlattenedEnds
    <3> QED
      BY <1>4, <2>1, <3>1 DEF n
  <2>7. at[k] = e + 1 /\ at[k + 1] = ends[k] + 1
    BY <2>1
  <2> HIDE DEF e, x, m, h, b, at
  <2>8. ASSUME NEW j \in 1 .. m PROVE body[e + j] = x[j]
    <3>1. e + j \in 1 .. n
      BY <2>2, <2>4, <2>5, <2>6, <1>8 DEF IsJoin
    <3>2. body[e + j] = t[e + j]
      BY <3>1, <1>8 DEF IsJoin
    <3> QED
      BY <2>5, <3>2
  <2>9. PartStands(body, e + 1, h, b)
    BY <2>2, <2>4, <2>8, PartMoves
  <2>10. at[k + 1] = at[k] + m
    BY <2>2, <2>4, <2>5, <2>7
  <2>11. at[k + 1] < Len(body)
    BY <1>8, <2>2, <2>6, <2>7 DEF IsJoin
  <2> QED
    BY <2>7, <2>9, <2>10, <2>11 DEF h, b, m
<1> HIDE DEF at
<1>12. body \in Seq(S) /\ Len(body) = n + 2 /\ n \in Nat /\ body[n + 1] = Marker /\ body[n + 2] = Dashes
  BY <1>7, <1>8 DEF IsJoin
<1>13. Len(body) = at[K + 1] + 1 /\ body[at[K + 1]] = Marker /\ body[at[K + 1] + 1] = Dashes
  BY <1>10, <1>12
<1>14. ASSUME NEW k \in 1 .. K PROVE at[k + 1] = at[k] + Len(parts[k].headers) + Len(parts[k].bytes) + 5
  <2> DEFINE u == Len(parts[k].headers)
             v == Len(parts[k].bytes)
             w == at[k]
  <2>1. u \in Nat /\ v \in Nat /\ w \in Nat
    <3>1. k \in 1 .. K + 1
      BY <1>2
    <3>2. w \in Nat
      BY <1>10, <3>1
    <3> QED
      BY <1>3, <3>2
  <2>2. at[k + 1] = w + (u + v + 5)
    BY Zenon, <1>11 DEF l
  <2> HIDE DEF u, v, w
  <2>3. at[k + 1] = w + u + v + 5
    BY <2>1, <2>2
  <2> QED
    BY <2>3 DEF u, v, w
<1>15. Laid(S, parts, body, at, K)
  BY <1>10, <1>11, <1>12, <1>13, <1>14 DEF Laid
<1> QED
  BY Zenon, <1>15 DEF body

\* What audio_field makes of body from position i on, when later is what it makes of it
\* from later positions on.
AudioAt(body, later, i) ==
  LET mark == FindBytes(body, i, <<Marker>>)
      after(t) == mark < Len(body) /\ body[mark + 1] = t
      header == IF after(Crlf) THEN mark + 2 ELSE mark + 1
      ends == FindBytes(body, header, <<Crlf, Crlf>>)
      headers == {body[k] : k \in header .. ends - 1}
      next == FindBytes(body, ends + 2, <<Marker>>)
      stop == IF next = 0 THEN Len(body) + 1 ELSE next
  IN  IF mark = 0 \/ after(Dashes) \/ ends = 0 THEN Refused("missing")
      ELSE IF NameAudio \notin headers THEN later[header]
      ELSE IF TypeOther \in headers THEN Refused("type")
      ELSE Accepted(SubSeq(body, ends + 2, EndOfPart(body, ends + 2, stop) - 1))

AudioRun(body, g, from) == g = [i \in from .. Len(body) + 1 |-> AudioAt(body, g, i)]

LEMMA FindAhead ==
  ASSUME NEW S, NEW body \in Seq(S), NEW x, NEW i \in Nat \ {0}
  PROVE  FindBytes(body, i, <<x>>) = 0 \/ FindBytes(body, i, <<x>>) \in i .. Len(body)
<1> DEFINE hits == {j \in i .. Len(body) - Len(<<x>>) + 1 : SubSeq(body, j, j + Len(<<x>>) - 1) = <<x>>}
<1>1. Len(<<x>>) = 1 /\ Len(body) \in Nat
  OBVIOUS
<1>2. hits \in SUBSET Nat /\ hits \in SUBSET (i .. Len(body))
  BY <1>1
<1>3. FindBytes(body, i, <<x>>) = IF hits = {} THEN 0 ELSE Min(hits)
  BY DEF FindBytes
<1> HIDE DEF hits
<1>4. CASE hits = {}
  BY <1>3, <1>4
<1>5. CASE hits # {}
  <2>1. Min(hits) \in hits
    BY <1>2, <1>5, MinIsLeast
  <2> QED
    BY <1>2, <1>3, <1>5, <2>1
<1> QED
  BY <1>4, <1>5

LEMMA AudioLocal ==
  ASSUME NEW S, NEW body \in Seq(S), NEW i \in 1 .. Len(body) + 1, NEW g, NEW h,
         \A j \in i + 1 .. Len(body) + 1 : g[j] = h[j]
  PROVE  AudioAt(body, g, i) = AudioAt(body, h, i)
<1> DEFINE mark == FindBytes(body, i, <<Marker>>)
           after(t) == mark < Len(body) /\ body[mark + 1] = t
           header == IF after(Crlf) THEN mark + 2 ELSE mark + 1
<1>1. mark = 0 \/ mark \in i .. Len(body)
  BY FindAhead
<1>2. mark = 0 \/ header \in i + 1 .. Len(body) + 1
  <2> HIDE DEF mark
  <2> QED
    BY <1>1
<1>3. mark = 0 \/ g[header] = h[header]
  <2> HIDE DEF header, mark
  <2> QED
    BY <1>2
<1> QED
  BY Zenon, <1>3 DEF AudioAt

\* AudioField is defined.
LEMMA AudioRuns ==
  ASSUME NEW S, NEW body \in Seq(S)
  PROVE  \E g : /\ \A i \in 1 .. Len(body) + 1 : g[i] = AudioAt(body, g, i)
                /\ AudioField(body) = g[1]
<1> DEFINE n == Len(body) + 1
           T == {i \in 1 .. n : \E g : AudioRun(body, g, i)}
<1>0. n \in Nat /\ 1 \in 1 .. n
  OBVIOUS
<1>1. ASSUME NEW i \in 1 .. n, \A j \in i + 1 .. n : j \in T PROVE i \in T
  <2>1. \E g : \A k \in i + 1 .. n : g[k] = AudioAt(body, g, k)
    <3>1. CASE i = n
      BY <3>1
    <3>2. CASE i # n
      <4>1. i + 1 \in T
        BY <1>1, <3>2
      <4>2. PICK g : AudioRun(body, g, i + 1)
        BY <4>1
      <4>3. \A k \in i + 1 .. n : g[k] = AudioAt(body, g, k)
        BY <4>2 DEF AudioRun
      <4> QED
        BY <4>3
    <3> QED
      BY <3>1, <3>2
  <2>2. PICK g : \A k \in i + 1 .. n : g[k] = AudioAt(body, g, k)
    BY <2>1
  <2> DEFINE h == [k \in i .. n |-> IF k = i THEN AudioAt(body, g, i) ELSE g[k]]
  <2>3. \A k \in i + 1 .. n : g[k] = h[k]
    OBVIOUS
  <2>4. ASSUME NEW k \in i .. n PROVE h[k] = AudioAt(body, h, k)
    <3>1. h[k] = AudioAt(body, g, k)
      BY <2>2
    <3>2. k \in 1 .. Len(body) + 1 /\ \A j \in k + 1 .. Len(body) + 1 : j \in i + 1 .. n
      OBVIOUS
    <3> HIDE DEF h
    <3>3. \A j \in k + 1 .. Len(body) + 1 : g[j] = h[j]
      BY <2>3, <3>2
    <3> QED
      BY <3>1, <3>2, <3>3, AudioLocal
  <2>5. h = [k \in i .. n |-> h[k]]
    OBVIOUS
  <2> HIDE DEF h
  <2>6. AudioRun(body, h, i)
    BY <2>4, <2>5 DEF AudioRun
  <2> QED
    BY <2>6
<1>2. T = 1 .. n
  <2>1. T \in SUBSET (1 .. n)
    OBVIOUS
  <2> HIDE DEF T, n
  <2> QED
    BY <1>0, <1>1, <2>1, FromTheEnd
<1>3. \E g : AudioRun(body, g, 1)
  BY <1>0, <1>2
<1> DEFINE c == CHOOSE g : AudioRun(body, g, 1)
<1>4. AudioField(body) = c[1]
  BY Zenon DEF AudioField, AudioRun, AudioAt
<1>5. AudioRun(body, c, 1)
  BY <1>3
<1> HIDE DEF c
<1>6. \A i \in 1 .. Len(body) + 1 : c[i] = AudioAt(body, c, i)
  BY <1>5 DEF AudioRun
<1> QED
  BY <1>4, <1>6

\* Behind the boundary of a part, the next boundary is the one of the part after it.
LEMMA NoMarkerIn ==
  ASSUME NEW S, NEW h \in Seq(S), NEW b \in Seq(S), NEW body, NEW p \in Nat, PartStands(body, p, h, b),
         HeaderLines(h), Marker \notin ToSet(b), NEW j \in p + 1 .. p + 4 + Len(h) + Len(b)
  PROVE  body[j] # Marker
<1> DEFINE m == Len(h)
           n == Len(b)
<1>1. m \in Nat /\ n \in Nat /\ DOMAIN h = 1 .. m /\ DOMAIN b = 1 .. n
  OBVIOUS
<1>2. \A i \in 1 .. m : h[i] # Marker
  BY <1>1 DEF HeaderLines
<1>3. \A i \in 1 .. n : b[i] # Marker
  BY <1>1 DEF ToSet
<1>4. Crlf # Marker
  BY TokensDiffer
<1>5. /\ body[p + 1] = Crlf /\ body[p + 2 + m] = Crlf /\ body[p + 3 + m] = Crlf /\ body[p + 4 + m + n] = Crlf
      /\ \A i \in 1 .. m : body[p + 1 + i] = h[i]
  BY DEF PartStands
<1>6. \A i \in 1 .. n : body[p + 3 + m + i] = b[i]
  BY DEF PartStands
<1> HIDE DEF m, n
<1>7. CASE j \in p + 2 .. p + 1 + m
  <2> DEFINE i == j - p - 1
  <2>1. i \in 1 .. m /\ p + 1 + i = j
    BY <1>1, <1>7
  <2> HIDE DEF i
  <2>2. body[p + 1 + i] = h[i] /\ h[i] # Marker
    BY <1>2, <1>5, <2>1
  <2> QED
    BY <2>1, <2>2
<1>8. CASE j \in p + 4 + m .. p + 3 + m + n
  <2> DEFINE i == j - p - m - 3
  <2>1. i \in 1 .. n /\ p + 3 + m + i = j
    BY <1>1, <1>8
  <2> HIDE DEF i
  <2>2. body[p + 3 + m + i] = b[i] /\ b[i] # Marker
    BY <1>3, <1>6, <2>1
  <2> QED
    BY <2>1, <2>2
<1>9. CASE j = p + 1 \/ j = p + 2 + m \/ j = p + 3 + m \/ j = p + 4 + m + n
  BY <1>4, <1>5, <1>9
<1>10. j \in p + 1 .. p + 4 + m + n
  BY DEF m, n
<1>11. \/ j \in p + 2 .. p + 1 + m \/ j \in p + 4 + m .. p + 3 + m + n
       \/ j = p + 1 \/ j = p + 2 + m \/ j = p + 3 + m \/ j = p + 4 + m + n
  BY <1>1, <1>10
<1> QED
  BY <1>7, <1>8, <1>9, <1>11

\* No boundary stands from position i on, before position p.
Clear(body, i, p) == i \in 1 .. p /\ \A j \in i .. p - 1 : body[j] # Marker

\* What audio_field makes of a part whose boundary is the next one from position i on.
LEMMA AudioStep ==
  ASSUME NEW S, NEW body \in Seq(S), NEW h \in Seq(S), NEW b \in Seq(S), HeaderLines(h), Marker \notin ToSet(b),
         NEW p \in Nat \ {0}, PartStands(body, p, h, b), NEW after, after = p + Len(h) + Len(b) + 5,
         after < Len(body), body[after] = Marker,
         NEW i, Clear(body, i, p), NEW later
  PROVE  AudioAt(body, later, i) =
           IF NameAudio \notin ToSet(h) THEN later[p + 2]
           ELSE IF TypeOther \in ToSet(h) THEN Refused("type") ELSE Accepted(b)
<1> DEFINE m == Len(h)
           n == Len(b)
<1>1. m \in Nat /\ n \in Nat /\ DOMAIN h = 1 .. m /\ DOMAIN b = 1 .. n /\ Len(body) \in Nat
  OBVIOUS
<1>2. body[p] = Marker /\ body[p + 1] = Crlf /\ body[p + 2 + m] = Crlf /\ body[p + 3 + m] = Crlf /\ body[p + 4 + m + n] = Crlf
  BY DEF PartStands
<1>3. \A k \in 1 .. m : body[p + 1 + k] = h[k]
  BY DEF PartStands
<1>4. \A k \in 1 .. n : body[p + 3 + m + k] = b[k]
  BY DEF PartStands
<1>5. after = p + m + n + 5
  OBVIOUS
<1>6. \A j \in p + 1 .. p + 4 + m + n : body[j] # Marker
  BY NoMarkerIn
<1>7. \A k \in 1 .. m : h[k] = Crlf => k < m /\ h[k + 1] # Crlf
  BY <1>1 DEF HeaderLines
<1> HIDE DEF m, n
<1>8. FindBytes(body, i, <<Marker>>) = p
  <2>1. i \in 1 .. p /\ \A j \in i .. p - 1 : body[j] # Marker
    BY DEF Clear
  <2>2. i \in Nat \ {0} /\ p \in i .. Len(body)
    BY <1>1, <1>5, <2>1
  <2> QED
    BY <1>2, <2>1, <2>2, FindOne
<1>9. p < Len(body) /\ body[p + 1] # Dashes
  BY <1>1, <1>2, <1>5, TokensDiffer
<1>10. FindBytes(body, p + 2, <<Crlf, Crlf>>) = p + 2 + m
  <2> DEFINE e == p + 2 + m
             s == p + 2
  <2>1. e \in s .. Len(body) - 1 /\ s \in Nat \ {0}
    BY <1>1, <1>5
  <2>2. body[e] = Crlf /\ body[e + 1] = Crlf
    <3>1. e + 1 = p + 3 + m
      BY <1>1
    <3> QED
      BY <1>2, <3>1
  <2>3. ASSUME NEW j \in s .. e - 1 PROVE body[j] # Crlf \/ body[j + 1] # Crlf
    <3> DEFINE k == j - p - 1
    <3>1. k \in 1 .. m /\ j = p + 1 + k /\ j + 1 = p + 1 + (k + 1)
      BY <1>1
    <3> HIDE DEF k
    <3>2. body[j] = h[k]
      BY <1>3, <3>1
    <3>3. h[k] = Crlf => k < m /\ h[k + 1] # Crlf
      BY <1>7, <3>1
    <3>4. k < m => body[j + 1] = h[k + 1]
      <4>1. k < m => k + 1 \in 1 .. m
        BY <1>1, <3>1
      <4> QED
        BY <1>3, <3>1, <4>1
    <3> QED
      BY <3>2, <3>3, <3>4
  <2>a. Apart(body, Crlf, s, e)
    BY <2>3 DEF Apart
  <2> HIDE DEF e, s
  <2>4. FindBytes(body, s, <<Crlf, Crlf>>) = e
    BY <2>1, <2>2, <2>a, FindTwo
  <2> QED
    BY <2>4 DEF e, s
<1>11. {body[k] : k \in p + 2 .. p + 2 + m - 1} = ToSet(h)
  <2>1. ASSUME NEW k \in 1 .. m PROVE h[k] \in {body[j] : j \in p + 2 .. p + 2 + m - 1}
    <3>1. p + 1 + k \in p + 2 .. p + 2 + m - 1 /\ body[p + 1 + k] = h[k]
      BY <1>1, <1>3
    <3> QED
      BY <3>1
  <2>2. ASSUME NEW j \in p + 2 .. p + 2 + m - 1 PROVE body[j] \in {h[k] : k \in 1 .. m}
    <3> DEFINE k == j - p - 1
    <3>1. k \in 1 .. m /\ p + 1 + k = j
      BY <1>1
    <3> HIDE DEF k
    <3>2. body[j] = h[k]
      BY <1>3, <3>1
    <3> QED
      BY <3>1, <3>2
  <2>3. ToSet(h) = {h[k] : k \in 1 .. m}
    BY <1>1 DEF ToSet
  <2> QED
    BY <2>1, <2>2, <2>3
<1>12. FindBytes(body, p + 2 + m + 2, <<Marker>>) = after
  <2> DEFINE s == p + 2 + m + 2
  <2>1. s \in Nat \ {0} /\ after \in s .. Len(body)
    BY <1>1, <1>5
  <2>2. \A j \in s .. after - 1 : j \in p + 1 .. p + 4 + m + n
    BY <1>1, <1>5
  <2>3. \A j \in s .. after - 1 : body[j] # Marker
    BY <1>6, <2>2
  <2> HIDE DEF s
  <2>4. FindBytes(body, s, <<Marker>>) = after
    BY <2>1, <2>3, FindOne
  <2> QED
    BY <2>4 DEF s
<1>13. EndOfPart(body, p + 2 + m + 2, after) = p + 4 + m + n
  <2>1. after > p + 2 + m + 2 /\ after - 1 = p + 4 + m + n
    BY <1>1, <1>5
  <2> QED
    BY <1>2, <2>1 DEF EndOfPart
<1>14. SubSeq(body, p + 2 + m + 2, p + 4 + m + n - 1) = b
  <2> DEFINE u == p + 4 + m
             v == p + 3 + m + n
             w == SubSeq(body, u, v)
  <2>1. u \in Nat \ {0} /\ v \in Nat /\ v <= Len(body) /\ u <= v + 1 /\ n = v - u + 1
    BY <1>1, <1>5
  <2>2. \A k \in 1 .. n : u + k - 1 = p + 3 + m + k
    BY <1>1
  <2>3. \A k \in 1 .. n : body[u + k - 1] = b[k]
    BY <1>4, <2>2
  <2>4. p + 2 + m + 2 = u /\ p + 4 + m + n - 1 = v
    BY <1>1
  <2> HIDE DEF u, v
  <2>5. IsSlice(S, w, body, u, n)
    BY <2>1, SliceIs
  <2> HIDE DEF w
  <2>6. w \in Seq(S) /\ Len(w) = n /\ \A k \in 1 .. n : w[k] = b[k]
    BY <2>3, <2>5 DEF IsSlice
  <2>7. w = b
    BY <2>6, SeqEqual DEF n
  <2> QED
    BY <2>4, <2>7 DEF w
<1>15. p # 0 /\ p + 2 + m # 0 /\ after # 0
  BY <1>1, <1>5
<1> DEFINE mark == FindBytes(body, i, <<Marker>>)
           follows(t) == mark < Len(body) /\ body[mark + 1] = t
           header == IF follows(Crlf) THEN mark + 2 ELSE mark + 1
           ends == FindBytes(body, header, <<Crlf, Crlf>>)
           headers == {body[k] : k \in header .. ends - 1}
           next == FindBytes(body, ends + 2, <<Marker>>)
           stop == IF next = 0 THEN Len(body) + 1 ELSE next
           bytes == SubSeq(body, ends + 2, EndOfPart(body, ends + 2, stop) - 1)
<1>16. AudioAt(body, later, i) =
         IF mark = 0 \/ follows(Dashes) \/ ends = 0 THEN Refused("missing")
         ELSE IF NameAudio \notin headers THEN later[header]
         ELSE IF TypeOther \in headers THEN Refused("type") ELSE Accepted(bytes)
  BY Zenon DEF AudioAt
<1>17. mark = p /\ follows(Crlf) /\ ~follows(Dashes)
  BY Zenon, <1>2, <1>8, <1>9
<1>18. header = p + 2
  BY Zenon, <1>17
<1> HIDE DEF header
<1>19. ends = p + 2 + m
  BY Zenon, <1>10, <1>18
<1> HIDE DEF ends
<1>20. headers = ToSet(h)
  <2>1. header .. ends - 1 = p + 2 .. p + 2 + m - 1
    BY <1>1, <1>18, <1>19
  <2> QED
    BY <1>11, <2>1
<1>21. next = after
  BY Zenon, <1>12, <1>19
<1> HIDE DEF next
<1>22. stop = after
  BY Zenon, <1>15, <1>21
<1> HIDE DEF stop
<1>23. bytes = b
  <2>1. EndOfPart(body, ends + 2, stop) = p + 4 + m + n
    BY Zenon, <1>13, <1>19, <1>22
  <2>2. ends + 2 = p + 2 + m + 2
    BY Zenon, <1>19
  <2> QED
    BY <1>1, <1>14, <2>1, <2>2
<1>24. mark # 0 /\ ends # 0
  BY Zenon, <1>15, <1>17, <1>19
<1> HIDE DEF bytes, headers, follows, mark
<1> QED
  BY Zenon, <1>16, <1>17, <1>18, <1>20, <1>23, <1>24

\* What it makes of the last boundary.
LEMMA AudioLast ==
  ASSUME NEW S, NEW body \in Seq(S), NEW p \in Nat \ {0}, p < Len(body), body[p] = Marker, body[p + 1] = Dashes,
         NEW i, Clear(body, i, p), NEW later
  PROVE  AudioAt(body, later, i) = Refused("missing")
<1>1. i \in Nat \ {0} /\ p \in i .. Len(body) /\ \A j \in i .. p - 1 : body[j] # Marker
  BY DEF Clear
<1>2. FindBytes(body, i, <<Marker>>) = p
  BY <1>1, FindOne
<1> QED
  BY Zenon, <1>2 DEF AudioAt

\* What an upload of which the parts audio are named audio is answered with.
UploadAnswer(parts, audio) ==
  IF audio = {} THEN Refused("missing")
  ELSE IF TypeOther \in ToSet(parts[Min(audio)].headers) THEN Refused("type")
  ELSE Accepted(parts[Min(audio)].bytes)

\* The parts named audio from the k-th on.
AudioFrom(parts, k) == {j \in k .. Len(parts) : NameAudio \in ToSet(parts[j].headers)}

LEMMA AudioFromIs ==
  ASSUME NEW parts, Len(parts) \in Nat, NEW k \in 1 .. Len(parts)
  PROVE  /\ NameAudio \notin ToSet(parts[k].headers) => AudioFrom(parts, k) = AudioFrom(parts, k + 1)
         /\ NameAudio \in ToSet(parts[k].headers) => AudioFrom(parts, k) # {} /\ Min(AudioFrom(parts, k)) = k
<1> DEFINE named(j) == NameAudio \in ToSet(parts[j].headers)
           a == AudioFrom(parts, k)
<1>1. a = {j \in k .. Len(parts) : named(j)} /\ AudioFrom(parts, k + 1) = {j \in k + 1 .. Len(parts) : named(j)}
  BY DEF AudioFrom
<1> HIDE DEF named, a
<1>2. ~named(k) => a = AudioFrom(parts, k + 1)
  BY <1>1
<1>3. ASSUME named(k) PROVE a # {} /\ Min(a) = k
  <2>1. a \in SUBSET Int /\ k \in a /\ \A y \in a : k <= y
    BY <1>1, <1>3
  <2> QED
    BY <2>1, MinIs
<1> QED
  BY Zenon, <1>2, <1>3 DEF named, a

\* The fields of the parts of an upload.
LEMMA PartFields ==
  ASSUME NEW S, NEW parts \in Seq([headers : Seq(S), bytes : Seq(S)]), NEW k \in 1 .. Len(parts)
  PROVE  parts[k].headers \in Seq(S) /\ parts[k].bytes \in Seq(S)
<1> DEFINE R == [headers : Seq(S), bytes : Seq(S)]
           p == parts[k]
<1>1. parts \in Seq(R)
  OBVIOUS
<1> HIDE DEF R
<1>2. p \in R
  BY <1>1
<1> HIDE DEF p
<1>3. p.headers \in Seq(S) /\ p.bytes \in Seq(S)
  BY <1>2 DEF R
<1> QED
  BY <1>3 DEF p

LEMMA UploadReturnsAlways ==
  ASSUME NEW S, Marker \in S, Crlf \in S, Dashes \in S, NEW parts \in Seq([headers : Seq(S), bytes : Seq(S)]),
         \A k \in 1 .. Len(parts) : HeaderLines(parts[k].headers)
  PROVE  UploadReturns(parts)
<1> DEFINE K == Len(parts)
           body == Multipart(parts)
           h(k) == parts[k].headers
           b(k) == parts[k].bytes
<1>1. K \in Nat /\ DOMAIN parts = 1 .. K
  OBVIOUS
<1>2. ASSUME NEW k \in 1 .. K PROVE h(k) \in Seq(S) /\ b(k) \in Seq(S) /\ HeaderLines(h(k))
  BY PartFields
<1>3. SUFFICES ASSUME \A k \in 1 .. K : Marker \notin ToSet(b(k))
               PROVE  AudioField(body) = UploadAnswer(parts, AudioFrom(parts, 1))
  <2>1. AudioFrom(parts, 1) = {k \in DOMAIN parts : NameAudio \in ToSet(parts[k].headers)}
    BY <1>1 DEF AudioFrom
  <2>2. (\A k \in DOMAIN parts : Marker \notin ToSet(parts[k].bytes)) =>
          AudioField(body) = UploadAnswer(parts, {k \in DOMAIN parts : NameAudio \in ToSet(parts[k].headers)})
    BY <1>1, <1>3, <2>1
  <2> QED
    BY Zenon, <2>2 DEF UploadReturns, UploadAnswer
<1>4. \E at : Laid(S, parts, body, at, K)
  BY MultipartIs
<1>5. PICK at : Laid(S, parts, body, at, K)
  BY <1>4
<1> HIDE DEF body
<1>6. body \in Seq(S) /\ Len(body) \in Nat /\ at \in [1 .. K + 1 -> Nat \ {0}] /\ at[1] = 1
  BY <1>5 DEF Laid
<1>7. ASSUME NEW k \in 1 .. K
      PROVE  /\ PartStands(body, at[k], h(k), b(k)) /\ at[k + 1] = at[k] + Len(h(k)) + Len(b(k)) + 5
             /\ at[k + 1] < Len(body)
  BY <1>5 DEF Laid
<1>8. Len(body) = at[K + 1] + 1 /\ body[at[K + 1]] = Marker /\ body[at[K + 1] + 1] = Dashes
  BY <1>5 DEF Laid
<1> HIDE DEF K
<1>9. ASSUME NEW k \in 1 .. K + 1 PROVE body[at[k]] = Marker /\ at[k] \in Nat \ {0} /\ at[k] < Len(body)
  <2>1. CASE k = K + 1
    BY <1>6, <1>8, <2>1
  <2>2. CASE k # K + 1
    <3>1. k \in 1 .. K /\ at[k] \in Nat \ {0} /\ at[k + 1] \in Nat
      BY <1>1, <1>6, <2>2
    <3>2. body[at[k]] = Marker
      BY <1>7, <3>1 DEF PartStands
    <3>3. Len(h(k)) \in Nat /\ Len(b(k)) \in Nat
      BY <1>2, <3>1
    <3> DEFINE u == Len(h(k))
               v == Len(b(k))
               w == at[k]
               x == at[k + 1]
    <3>4. u \in Nat /\ v \in Nat /\ w \in Nat /\ x = w + u + v + 5 /\ x < Len(body)
      BY <1>7, <3>1, <3>3
    <3> HIDE DEF u, v, w, x
    <3>5. w < Len(body)
      BY <3>4, <1>6
    <3> QED
      BY <3>1, <3>2, <3>5 DEF w
  <2> QED
    BY <2>1, <2>2
<1>10. PICK g : (\A i \in 1 .. Len(body) + 1 : g[i] = AudioAt(body, g, i)) /\ AudioField(body) = g[1]
  BY <1>6, AudioRuns
<1> DEFINE start(k) == IF k = 1 THEN 1 ELSE at[k - 1] + 2
           answer(k) == UploadAnswer(parts, AudioFrom(parts, k))
           T == {k \in 1 .. K + 1 : g[start(k)] = answer(k)}
<1>11. ASSUME NEW k \in 1 .. K + 1
       PROVE  start(k) \in 1 .. at[k] /\ Clear(body, start(k), at[k])
  <2>1. CASE k = 1
    BY <1>6, <2>1 DEF Clear
  <2>2. CASE k # 1
    <3> DEFINE l == k - 1
               p == at[l]
               m == Len(h(l)) + Len(b(l))
    <3>1. l \in 1 .. K /\ l + 1 = k
      BY <1>1, <2>2
    <3>2. p \in Nat /\ PartStands(body, p, h(l), b(l)) /\ at[l + 1] = p + Len(h(l)) + Len(b(l)) + 5
      BY <1>1, <1>6, <1>7, <3>1
    <3>3. h(l) \in Seq(S) /\ b(l) \in Seq(S) /\ HeaderLines(h(l)) /\ Marker \notin ToSet(b(l))
      BY <1>2, <1>3, <3>1
    <3>4. Len(h(l)) \in Nat /\ Len(b(l)) \in Nat
      BY <3>3
    <3>5. \A j \in p + 1 .. p + 4 + Len(h(l)) + Len(b(l)) : body[j] # Marker
      BY <3>2, <3>3, NoMarkerIn
    <3>6. start(k) = p + 2
      BY <2>2
    <3> DEFINE u == Len(h(l))
               v == Len(b(l))
               z == at[k]
    <3>7. u \in Nat /\ v \in Nat /\ z = p + u + v + 5 /\ \A j \in p + 1 .. p + 4 + u + v : body[j] # Marker
      BY <3>1, <3>2, <3>4, <3>5
    <3> HIDE DEF start, u, v, z, l, p
    <3>8. start(k) \in 1 .. z /\ \A j \in start(k) .. z - 1 : body[j] # Marker
      <4>1. start(k) \in 1 .. z
        BY <3>2, <3>6, <3>7
      <4>2. \A j \in start(k) .. z - 1 : j \in p + 1 .. p + 4 + u + v
        BY <3>2, <3>6, <3>7
      <4> QED
        BY <3>7, <4>1, <4>2
    <3> QED
      BY <3>8 DEF z, Clear
  <2> QED
    BY <2>1, <2>2
<1>12. ASSUME NEW k \in 1 .. K + 1 PROVE g[start(k)] = AudioAt(body, g, start(k))
  <2> HIDE DEF start
  <2>1. start(k) \in 1 .. Len(body) + 1
    BY <1>6, <1>9, <1>11
  <2> QED
    BY <1>10, <2>1
<1>13. ASSUME NEW k \in 1 .. K + 1, \A j \in k + 1 .. K + 1 : j \in T PROVE k \in T
  <2>1. CASE k = K + 1
    <3>1. AudioAt(body, g, start(k)) = Refused("missing")
      <4> DEFINE p == at[k]
                 i == start(k)
      <4>1. p \in Nat \ {0} /\ p < Len(body) /\ body[p] = Marker /\ body[p + 1] = Dashes
        BY <1>8, <1>9, <2>1
      <4>2. Clear(body, i, p)
        BY <1>11
      <4> HIDE DEF p, i
      <4>3. AudioAt(body, g, i) = Refused("missing")
        BY <1>6, <4>1, <4>2, AudioLast
      <4> QED
        BY <4>3 DEF i
    <3>2. AudioFrom(parts, k) = {}
      BY <1>1, <2>1 DEF AudioFrom, K
    <3>3. answer(k) = Refused("missing")
      BY <3>2 DEF UploadAnswer
    <3> QED
      BY <1>12, <3>1, <3>3
  <2>2. CASE k # K + 1
    <3> DEFINE p == at[k]
               i == start(k)
               z == at[k + 1]
    <3>1. k \in 1 .. K /\ k + 1 \in 1 .. K + 1
      BY <1>1, <2>2
    <3>2. h(k) \in Seq(S) /\ b(k) \in Seq(S) /\ HeaderLines(h(k)) /\ Marker \notin ToSet(b(k))
      BY <1>2, <1>3, <3>1
    <3>3. p \in Nat \ {0} /\ PartStands(body, p, h(k), b(k)) /\ z = p + Len(h(k)) + Len(b(k)) + 5 /\ z < Len(body)
      BY <1>7, <1>9, <3>1
    <3>4. body[z] = Marker
      BY <1>9, <3>1
    <3>5. Clear(body, i, p)
      BY <1>11
    <3>6. start(k + 1) = p + 2
      BY <3>1
    <3> HIDE DEF p, i, z, start
    <3>7. AudioAt(body, g, i) =
            IF NameAudio \notin ToSet(h(k)) THEN g[p + 2]
            ELSE IF TypeOther \in ToSet(h(k)) THEN Refused("type") ELSE Accepted(b(k))
      <4> DEFINE hk == h(k)
                 bk == b(k)
      <4>1. hk \in Seq(S) /\ bk \in Seq(S) /\ HeaderLines(hk) /\ Marker \notin ToSet(bk)
        BY <3>2
      <4>2. p \in Nat \ {0} /\ PartStands(body, p, hk, bk) /\ z = p + Len(hk) + Len(bk) + 5 /\ z < Len(body)
        BY <3>3
      <4> HIDE DEF hk, bk
      <4>3. AudioAt(body, g, i) =
              IF NameAudio \notin ToSet(hk) THEN g[p + 2]
              ELSE IF TypeOther \in ToSet(hk) THEN Refused("type") ELSE Accepted(bk)
        BY <1>6, <4>1, <4>2, <3>4, <3>5, AudioStep
      <4> QED
        BY Zenon, <4>3 DEF hk, bk
    <3>8. g[start(k)] = AudioAt(body, g, i)
      BY <1>12 DEF i
    <3>9. CASE NameAudio \notin ToSet(h(k))
      <4>1. k + 1 \in T
        BY <1>13, <3>1
      <4>2. g[p + 2] = answer(k + 1)
        BY Zenon, <3>6, <4>1
      <4>3. AudioFrom(parts, k) = AudioFrom(parts, k + 1)
        BY <1>1, <3>1, <3>9, AudioFromIs DEF K
      <4> QED
        BY <3>7, <3>8, <3>9, <4>2, <4>3
    <3>10. CASE NameAudio \in ToSet(h(k))
      <4>1. AudioFrom(parts, k) # {} /\ Min(AudioFrom(parts, k)) = k
        BY <1>1, <3>1, <3>10, AudioFromIs DEF K
      <4>2. answer(k) = IF TypeOther \in ToSet(h(k)) THEN Refused("type") ELSE Accepted(b(k))
        BY Zenon, <4>1 DEF UploadAnswer
      <4> QED
        BY <3>7, <3>8, <3>10, <4>2
    <3> QED
      BY <3>9, <3>10
  <2> QED
    BY <2>1, <2>2
<1>14. T = 1 .. K + 1
  <2> DEFINE n == K + 1
  <2>1. T \in SUBSET (1 .. n) /\ n \in Nat
    BY <1>1
  <2>2. \A k \in 1 .. n : (\A j \in k + 1 .. n : j \in T) => k \in T
    BY <1>13
  <2> HIDE DEF T, n
  <2>3. T = 1 .. n
    BY <2>1, <2>2, FromTheEnd
  <2> QED
    BY <2>3 DEF n
<1>15. 1 \in T
  BY <1>1, <1>14
<1> QED
  BY Zenon, <1>10, <1>15

-----------------------------------------------------------------------------
(***************************************************************************)
(* Cookies, parameters and forms: the pieces of a text between separators. *)
(***************************************************************************)

\* Text s holds no c.
Without(s, c) == \A i \in DOMAIN s : s[i] # c

\* The piece that starts at position u and ends before position v.
LEMMA PieceIs ==
  ASSUME NEW S, NEW s \in Seq(S), NEW c, NEW u \in Nat \ {0}, NEW v \in u .. Len(s) + 1,
         v = Len(s) + 1 \/ s[v] = c, \A j \in u .. v - 1 : s[j] # c, NEW n, n = v - u
  PROVE  IsSlice(S, Piece(s, c, u), s, u, n)
<1> DEFINE ends == {k \in u .. Len(s) + 1 : k = Len(s) + 1 \/ s[k] = c}
           w == v - 1
<1>1. Len(s) \in Nat
  OBVIOUS
<1>2. ends \in SUBSET Int /\ v \in ends /\ \A y \in ends : v <= y
  BY <1>1
<1>3. Piece(s, c, u) = SubSeq(s, u, Min(ends) - 1)
  BY DEF Piece
<1> HIDE DEF ends
<1>4. Min(ends) = v
  BY <1>2, MinIs
<1>5. w \in Nat /\ w <= Len(s) /\ u <= w + 1 /\ n = w - u + 1
  BY <1>1
<1>6. Piece(s, c, u) = SubSeq(s, u, w)
  BY <1>3, <1>4
<1> HIDE DEF w
<1>7. IsSlice(S, SubSeq(s, u, w), s, u, n)
  BY <1>5, SliceIs
<1> QED
  BY <1>6, <1>7

\* Text s is a, of length m, then c, then b, of length n.
IsPair(S, s, c, a, m, b, n) ==
  /\ s \in Seq(S) /\ m \in Nat /\ n \in Nat /\ Len(s) = m + 1 + n
  /\ a \in Seq(S) /\ Len(a) = m /\ b \in Seq(S) /\ Len(b) = n /\ s[m + 1] = c
  /\ (\A j \in 1 .. m : s[j] = a[j]) /\ (\A j \in 1 .. n : s[m + 1 + j] = b[j])

LEMMA PairIs ==
  ASSUME NEW S, NEW a \in Seq(S), NEW b \in Seq(S), NEW c \in S, NEW s, s = a \o <<c>> \o b,
         NEW m, m = Len(a), NEW n, n = Len(b)
  PROVE  IsPair(S, s, c, a, m, b, n)
<1> DEFINE one == <<c>>
           x == a \o one
<1>1. m \in Nat /\ n \in Nat
  OBVIOUS
<1>2. one \in Seq(S) /\ Len(one) = 1 /\ one[1] = c
  OBVIOUS
<1>3. x = a \o one /\ s = x \o b
  OBVIOUS
<1> HIDE DEF one, x
<1>4. IsJoin(S, x, a, m, one, 1)
  BY <1>2, <1>3, JoinIs
<1>5. IsJoin(S, s, x, m + 1, b, n)
  <2>1. x \in Seq(S) /\ Len(x) = m + 1
    BY <1>4 DEF IsJoin
  <2> QED
    BY <1>3, <2>1, JoinIs
<1>6. s \in Seq(S) /\ Len(s) = m + 1 + n
  BY <1>5 DEF IsJoin
<1>7. ASSUME NEW j \in 1 .. m PROVE s[j] = a[j]
  <2>1. x[j] = a[j]
    BY <1>4 DEF IsJoin
  <2>2. s[j] = x[j]
    BY <1>1, <1>5 DEF IsJoin
  <2> QED
    BY <2>1, <2>2
<1>8. s[m + 1] = c
  <2>1. x[m + 1] = c
    BY <1>2, <1>4 DEF IsJoin
  <2>2. m + 1 \in 1 .. m + 1
    BY <1>1
  <2> QED
    BY <1>5, <2>1, <2>2 DEF IsJoin
<1>9. \A j \in 1 .. n : s[m + 1 + j] = b[j]
  BY <1>5 DEF IsJoin
<1> QED
  BY <1>1, <1>6, <1>7, <1>8, <1>9 DEF IsPair

\* A text of two pieces falls into these.
LEMMA PiecesOfPair ==
  ASSUME NEW S, NEW c, NEW s, NEW a, NEW m, NEW b, NEW n, IsPair(S, s, c, a, m, b, n),
         Without(a, c), Without(b, c), NEW v, v = m + 2
  PROVE  s \in Seq(S) /\ Starts(s, c) = {1, v} /\ Piece(s, c, 1) = a /\ Piece(s, c, v) = b
<1>1. m \in Nat /\ n \in Nat /\ DOMAIN a = 1 .. m /\ DOMAIN b = 1 .. n /\ v = m + 2
  BY DEF IsPair
<1>5. s \in Seq(S) /\ Len(s) = m + 1 + n /\ DOMAIN s = 1 .. m + 1 + n /\ s[m + 1] = c
  BY DEF IsPair
<1>a. a \in Seq(S) /\ Len(a) = m /\ b \in Seq(S) /\ Len(b) = n
  BY DEF IsPair
<1>2. (\A j \in 1 .. m : a[j] # c) /\ \A j \in 1 .. n : b[j] # c
  BY <1>1 DEF Without
<1>3. (\A j \in 1 .. m : s[j] = a[j]) /\ \A j \in 1 .. n : s[m + 1 + j] = b[j]
  BY DEF IsPair
<1>6. \A j \in 1 .. m : s[j] = a[j] /\ s[j] # c
  BY <1>2, <1>3
<1>8. \A j \in 1 .. n : s[m + 1 + j] = b[j] /\ s[m + 1 + j] # c
  BY <1>2, <1>3
<1>9. ASSUME NEW j \in 1 .. m + 1 + n, s[j] = c PROVE j = m + 1
  <2>1. CASE j <= m
    BY <1>6, <1>9, <2>1
  <2>2. CASE j >= m + 2
    <3> DEFINE k == j - m - 1
    <3>1. k \in 1 .. n /\ m + 1 + k = j
      BY <1>1, <2>2
    <3> HIDE DEF k
    <3> QED
      BY <1>8, <1>9, <3>1
  <2> QED
    BY <1>1, <2>1, <2>2
<1>10. Starts(s, c) = {1, v}
  <2>1. {k \in DOMAIN s : s[k] = c} = {m + 1}
    BY <1>1, <1>5, <1>9
  <2>2. m + 1 + 1 = v
    BY <1>1
  <2> QED
    BY <2>1, <2>2 DEF Starts
<1>11. Piece(s, c, 1) = a
  <2> DEFINE p == Piece(s, c, 1)
             w == m + 1
  <2>1. w \in 1 .. Len(s) + 1 /\ m = w - 1 /\ s[w] = c
    BY <1>1, <1>5
  <2>2. \A j \in 1 .. w - 1 : s[j] # c
    BY <1>1, <1>6
  <2> HIDE DEF w
  <2>3. IsSlice(S, p, s, 1, m)
    BY <1>5, <2>1, <2>2, PieceIs
  <2> HIDE DEF p
  <2>4. p \in Seq(S) /\ Len(p) = m /\ \A k \in 1 .. m : p[k] = s[1 + k - 1]
    BY <2>3 DEF IsSlice
  <2>5. \A k \in 1 .. m : p[k] = a[k]
    <3>1. \A k \in 1 .. m : 1 + k - 1 = k
      BY <1>1
    <3> QED
      BY <1>6, <2>4, <3>1
  <2>6. p = a
    BY <1>a, <2>4, <2>5, SeqEqual
  <2> QED
    BY <2>6 DEF p
<1>12. Piece(s, c, v) = b
  <2> DEFINE p == Piece(s, c, v)
             w == m + n + 2
  <2>1. w = Len(s) + 1 /\ v \in Nat \ {0} /\ w \in v .. Len(s) + 1 /\ n = w - v
    BY <1>1, <1>5
  <2>2. ASSUME NEW j \in v .. w - 1 PROVE s[j] # c
    <3>1. j \in 1 .. m + 1 + n /\ j # m + 1
      BY <1>1
    <3> QED
      BY <1>9, <3>1
  <2> HIDE DEF w
  <2>3. IsSlice(S, p, s, v, n)
    BY <1>5, <2>1, <2>2, PieceIs
  <2> HIDE DEF p
  <2>4. p \in Seq(S) /\ Len(p) = n /\ \A k \in 1 .. n : p[k] = s[v + k - 1]
    BY <2>3 DEF IsSlice
  <2>5. \A k \in 1 .. n : p[k] = b[k]
    <3>1. \A k \in 1 .. n : v + k - 1 = m + 1 + k
      BY <1>1
    <3> QED
      BY <1>8, <2>4, <3>1
  <2>6. p = b
    BY <1>a, <2>4, <2>5, SeqEqual
  <2> QED
    BY <2>6 DEF p
<1> QED
  BY <1>5, <1>10, <1>11, <1>12

\* The pieces of s between the bytes c are a and b, the second one from v on.
FallsInto(S, s, c, a, b, v) ==
  /\ s \in Seq(S) /\ Starts(s, c) = {1, v} /\ v \in Nat /\ v # 1
  /\ Piece(s, c, 1) = a /\ Piece(s, c, v) = b

LEMMA TwoPieces ==
  ASSUME NEW S, NEW a \in Seq(S), NEW b \in Seq(S), NEW c \in S, Without(a, c), Without(b, c),
         NEW s, s = a \o <<c>> \o b, NEW v, v = Len(a) + 2
  PROVE  FallsInto(S, s, c, a, b, v)
<1> DEFINE m == Len(a)
           n == Len(b)
<1>1. m \in Nat /\ v = m + 2 /\ m = Len(a) /\ n = Len(b)
  OBVIOUS
<1> HIDE DEF m, n
<1>2. IsPair(S, s, c, a, m, b, n)
  BY <1>1, PairIs
<1>3. s \in Seq(S) /\ Starts(s, c) = {1, v} /\ Piece(s, c, 1) = a /\ Piece(s, c, v) = b
  BY <1>1, <1>2, PiecesOfPair
<1>4. v # 1 /\ v \in Nat
  BY <1>1
<1> QED
  BY <1>3, <1>4 DEF FallsInto

\* A key and a value joined by "=", neither of which holds one.
LEMMA PairParts ==
  ASSUME NEW S, Equals \in S, NEW k \in Seq(S), NEW e \in Seq(S), Without(k, Equals), Without(e, Equals),
         NEW p, p = k \o <<Equals>> \o e
  PROVE  p \in Seq(S) /\ p # <<>> /\ Key(p) = k /\ Val(p) = e /\ ~Valueless(p)
<1> DEFINE m == Len(k)
           n == Len(e)
<1>a. m \in Nat /\ n \in Nat /\ m = Len(k) /\ n = Len(e)
  OBVIOUS
<1> HIDE DEF m, n
<1>4. IsPair(S, p, Equals, k, m, e, n)
  BY <1>a, PairIs
<1>1. p \in Seq(S) /\ Key(p) = k
  <2> DEFINE v == m + 2
  <2>1. v = m + 2
    OBVIOUS
  <2> HIDE DEF v
  <2>2. p \in Seq(S) /\ Piece(p, Equals, 1) = k
    BY <1>4, <2>1, PiecesOfPair
  <2> QED
    BY <2>2 DEF Key
<1>5. Len(p) = m + 1 + n /\ \A j \in 1 .. n : p[m + 1 + j] = e[j]
  BY <1>4 DEF IsPair
<1>6. p # <<>> /\ ~Valueless(p)
  <2>1. Len(p) # 0 /\ m # Len(p)
    BY <1>a, <1>5
  <2> QED
    BY <1>1, <1>a, <2>1 DEF Valueless
<1>7. Val(p) = e
  <2> DEFINE u == m + 2
             v == Len(p)
             w == SubSeq(p, u, v)
  <2>1. Val(p) = w
    BY <1>1, <1>a DEF Val
  <2>2. u \in Nat \ {0} /\ v \in Nat /\ v <= Len(p) /\ u <= v + 1 /\ n = v - u + 1
    BY <1>a, <1>5
  <2>3. \A j \in 1 .. n : u + j - 1 = m + 1 + j
    BY <1>a
  <2>4. \A j \in 1 .. n : p[u + j - 1] = e[j]
    BY <1>5, <2>3
  <2> HIDE DEF u, v
  <2>5. IsSlice(S, w, p, u, n)
    BY <1>1, <2>2, SliceIs
  <2> HIDE DEF w
  <2>6. w \in Seq(S) /\ Len(w) = n /\ \A j \in 1 .. n : w[j] = e[j]
    BY <2>4, <2>5 DEF IsSlice
  <2>7. w = e
    BY <1>a, <2>6, SeqEqual
  <2> QED
    BY <2>1, <2>7
<1> QED
  BY <1>1, <1>6, <1>7

\* A pair holds only what its halves and what joins them hold.
LEMMA PairWithout ==
  ASSUME NEW S, NEW c, NEW s, NEW a, NEW m, NEW b, NEW n, IsPair(S, s, c, a, m, b, n),
         NEW d, d # c, Without(a, d), Without(b, d)
  PROVE  Without(s, d)
<1>1. m \in Nat /\ n \in Nat /\ DOMAIN a = 1 .. m /\ DOMAIN b = 1 .. n /\ DOMAIN s = 1 .. m + 1 + n /\ s[m + 1] = c
  BY DEF IsPair
<1>2. (\A j \in 1 .. m : a[j] # d) /\ \A j \in 1 .. n : b[j] # d
  BY <1>1 DEF Without
<1>3. (\A j \in 1 .. m : s[j] = a[j]) /\ \A j \in 1 .. n : s[m + 1 + j] = b[j]
  BY DEF IsPair
<1>4. ASSUME NEW j \in 1 .. m + 1 + n PROVE s[j] # d
  <2>1. CASE j <= m
    BY <1>2, <1>3, <2>1
  <2>2. CASE j >= m + 2
    <3> DEFINE k == j - m - 1
    <3>1. k \in 1 .. n /\ m + 1 + k = j
      BY <1>1, <2>2
    <3> HIDE DEF k
    <3>2. s[m + 1 + k] = b[k] /\ b[k] # d
      BY <1>2, <1>3, <3>1
    <3> QED
      BY <3>1, <3>2
  <2>3. CASE j = m + 1
    BY <1>1, <2>3
  <2> QED
    BY <1>1, <2>1, <2>2, <2>3
<1> QED
  BY <1>1, <1>4 DEF Without

\* A text without blanks is not trimmed.
LEMMA TrimNothing ==
  ASSUME NEW S, NEW s \in Seq(S), Without(s, Space)
  PROVE  Trim(s) = s
<1> DEFINE solid == {i \in DOMAIN s : s[i] # Space}
           n == Len(s)
<1>1. n \in Nat /\ DOMAIN s = 1 .. n
  OBVIOUS
<1>2. solid = 1 .. n
  BY <1>1 DEF Without
<1>3. Trim(s) = IF solid = {} THEN <<>> ELSE SubSeq(s, Min(solid), Max(solid))
  BY DEF Trim
<1> HIDE DEF solid
<1>4. CASE n = 0
  <2>1. s = <<>> /\ solid = {}
    BY <1>2, <1>4
  <2> QED
    BY <1>3, <2>1
<1>5. CASE n # 0
  <2> HIDE DEF n
  <2>1. solid \in SUBSET Int /\ 1 \in solid /\ n \in solid /\ (\A y \in solid : 1 <= y) /\ \A y \in solid : n >= y
    BY <1>1, <1>2, <1>5
  <2>2. Min(solid) = 1 /\ Max(solid) = n
    BY <2>1, MinIs, MaxIs
  <2>3. Trim(s) = SubSeq(s, 1, n)
    BY <1>3, <2>1, <2>2
  <2>4. SubSeq(s, 1, n) = s
    BY DEF n
  <2> QED
    BY <2>3, <2>4
<1> QED
  BY <1>4, <1>5

\* A blank before a text is trimmed.
LEMMA TrimBlank ==
  ASSUME NEW S, Space \in S, NEW t \in Seq(S), Without(t, Space), Len(t) # 0, NEW s, s = <<Space>> \o t
  PROVE  s \in Seq(S) /\ Trim(s) = t
<1> DEFINE n == Len(t)
           one == <<Space>>
<1>1. n \in Nat /\ n = Len(t) /\ n # 0 /\ DOMAIN t = 1 .. n /\ one \in Seq(S) /\ Len(one) = 1 /\ one[1] = Space /\ s = one \o t
  OBVIOUS
<1> HIDE DEF one, n
<1>2. IsJoin(S, s, one, 1, t, n)
  BY <1>1, JoinIs
<1>3. s \in Seq(S) /\ Len(s) = 1 + n /\ DOMAIN s = 1 .. 1 + n /\ \A j \in 1 .. n : s[1 + j] = t[j]
  BY <1>2 DEF IsJoin
<1>4. s[1] = Space
  BY <1>1, <1>2 DEF IsJoin
<1>5. \A j \in 1 .. n : t[j] # Space
  BY <1>1 DEF Without
<1> DEFINE solid == {i \in DOMAIN s : s[i] # Space}
           l == n + 1
<1>6. ASSUME NEW i \in 2 .. l PROVE s[i] # Space
  <2> DEFINE j == i - 1
  <2>1. j \in 1 .. n /\ 1 + j = i
    BY <1>1
  <2> HIDE DEF j
  <2>2. s[1 + j] = t[j] /\ t[j] # Space
    BY <1>3, <1>5, <2>1
  <2> QED
    BY <2>1, <2>2
<1>7. solid = 2 .. l
  <2>1. 1 .. 1 + n = {1} \cup 2 .. l
    BY <1>1
  <2> QED
    BY <1>1, <1>3, <1>4, <1>6, <2>1
<1>8. Trim(s) = IF solid = {} THEN <<>> ELSE SubSeq(s, Min(solid), Max(solid))
  BY DEF Trim
<1> HIDE DEF solid
<1>9. solid \in SUBSET Int /\ 2 \in solid /\ l \in solid /\ (\A y \in solid : 2 <= y) /\ \A y \in solid : l >= y
  BY <1>1, <1>7
<1>a. l = n + 1
  OBVIOUS
<1> HIDE DEF l
<1>10. Min(solid) = 2 /\ Max(solid) = l
  BY <1>9, MinIs, MaxIs
<1> DEFINE w == SubSeq(s, 2, l)
<1>11. Trim(s) = w
  BY <1>8, <1>9, <1>10
<1>12. IsSlice(S, w, s, 2, n)
  <2>1. l \in Nat /\ l <= Len(s) /\ 2 <= l + 1 /\ n = l - 2 + 1 /\ 2 \in Nat \ {0}
    BY <1>1, <1>3, <1>a
  <2> QED
    BY <1>3, <2>1, SliceIs
<1> HIDE DEF w
<1>13. w \in Seq(S) /\ Len(w) = n /\ \A j \in 1 .. n : w[j] = t[j]
  <2>1. \A j \in 1 .. n : w[j] = s[2 + j - 1]
    BY <1>12 DEF IsSlice
  <2>2. \A j \in 1 .. n : 2 + j - 1 = 1 + j
    BY <1>1
  <2> QED
    BY <1>3, <1>12, <2>1, <2>2 DEF IsSlice
<1>14. w = t
  BY <1>1, <1>13, SeqEqual
<1> QED
  BY <1>3, <1>11, <1>14

\* A key and a value that hold neither "=" nor any byte of stops.
Plain(S, k, e, stops) ==
  /\ k \in Seq(S) /\ e \in Seq(S) /\ Without(k, Equals) /\ Without(e, Equals)
  /\ \A c \in stops : c # Equals /\ c \in S /\ Without(k, c) /\ Without(e, c)

\* What is known of a pair p of these.
IsPlain(S, p, k, e, stops) ==
  /\ p \in Seq(S) /\ p # <<>> /\ Len(p) # 0 /\ Key(p) = k /\ Val(p) = e /\ ~Valueless(p)
  /\ \A c \in stops : Without(p, c)

\* Text p is a, then c, then b.
IsPairOf(p, a, c, b) == p = a \o <<c>> \o b

\* What ends a parameter and a cookie.
ParamStops == {Ampersand}

LEMMA PlainPair ==
  ASSUME NEW S, Equals \in S, NEW k, NEW e, NEW stops, Plain(S, k, e, stops), NEW p, IsPairOf(p, k, Equals, e)
  PROVE  IsPlain(S, p, k, e, stops)
<1>0. p = k \o <<Equals>> \o e
  BY DEF IsPairOf
<1> DEFINE m == Len(k)
           n == Len(e)
<1>1. k \in Seq(S) /\ e \in Seq(S) /\ Without(k, Equals) /\ Without(e, Equals)
  BY DEF Plain
<1>2. p \in Seq(S) /\ p # <<>> /\ Key(p) = k /\ Val(p) = e /\ ~Valueless(p)
  BY <1>0, <1>1, PairParts
<1>3. m = Len(k) /\ n = Len(e)
  OBVIOUS
<1> HIDE DEF m, n
<1>4. IsPair(S, p, Equals, k, m, e, n)
  BY <1>0, <1>1, <1>3, PairIs
<1>5. ASSUME NEW c \in stops PROVE Without(p, c)
  <2>1. c # Equals /\ Without(k, c) /\ Without(e, c)
    BY DEF Plain
  <2> QED
    BY <1>4, <2>1, PairWithout
<1>6. Len(p) # 0
  BY <1>4 DEF IsPair
<1> QED
  BY <1>2, <1>5, <1>6 DEF IsPlain

\* A name alone is a key without a value.
LEMMA NameAlone ==
  ASSUME NEW S, NEW p \in Seq(S), Without(p, Equals)
  PROVE  Key(p) = p /\ Valueless(p)
<1> DEFINE n == Len(p)
           v == n + 1
           k == Piece(p, Equals, 1)
<1>1. n = Len(p) /\ n \in Nat /\ DOMAIN p = 1 .. n /\ v = n + 1
  OBVIOUS
<1> HIDE DEF n, v
<1>2. v \in 1 .. Len(p) + 1 /\ v = Len(p) + 1 /\ n = v - 1 /\ 1 \in Nat \ {0}
  BY <1>1
<1>3. \A j \in 1 .. v - 1 : p[j] # Equals
  BY <1>1 DEF Without
<1>4. IsSlice(S, k, p, 1, n)
  BY <1>2, <1>3, PieceIs
<1> HIDE DEF k
<1>5. k \in Seq(S) /\ Len(k) = n /\ \A j \in 1 .. n : k[j] = p[1 + j - 1]
  BY <1>4 DEF IsSlice
<1>6. \A j \in 1 .. n : 1 + j - 1 = j
  BY <1>1
<1>7. \A j \in 1 .. n : k[j] = p[j]
  BY <1>5, <1>6
<1>8. k = p
  BY <1>1, <1>5, <1>7, SeqEqual
<1> QED
  BY <1>8 DEF k, Key, Valueless

\* What query_param finds in two parameters.
FindsParam(q, name, p1, p2) ==
  /\ PercentDecode(Key(p1), TRUE) = name => ReadParam(q, name) = PercentDecode(Val(p1), TRUE)
  /\ PercentDecode(Key(p1), TRUE) # name /\ PercentDecode(Key(p2), TRUE) = name =>
       ReadParam(q, name) = PercentDecode(Val(p2), TRUE)

LEMMA ParamAt ==
  ASSUME NEW S, Ampersand \in S, NEW p1 \in Seq(S), NEW p2 \in Seq(S), p1 # <<>>, p2 # <<>>,
         Without(p1, Ampersand), Without(p2, Ampersand),
         NEW q, q = p1 \o <<Ampersand>> \o p2, NEW name
  PROVE  FindsParam(q, name, p1, p2)
<1> DEFINE v == Len(p1) + 2
<1>a. v = Len(p1) + 2 /\ v \in Nat /\ v > 1
  OBVIOUS
<1> HIDE DEF v
<1>1. FallsInto(S, q, Ampersand, p1, p2, v)
  BY <1>a, TwoPieces
<1> DEFINE starts == Starts(q, Ampersand)
           pair(i) == Piece(q, Ampersand, i)
           hits == {i \in starts : pair(i) # <<>> /\ PercentDecode(Key(pair(i)), TRUE) = name}
<1>2. starts = {1, v} /\ pair(1) = p1 /\ pair(v) = p2
  BY <1>1 DEF FallsInto
<1>3. ReadParam(q, name) = IF hits = {} THEN <<-1>> ELSE PercentDecode(Val(pair(Min(hits))), TRUE)
  BY DEF ReadParam
<1> HIDE DEF starts, pair
<1>4. CASE PercentDecode(Key(p1), TRUE) = name
  <2>1. 1 \in hits /\ hits \subseteq {1, v}
    BY <1>2, <1>4
  <2> HIDE DEF hits
  <2>2. hits \in SUBSET Int /\ 1 \in hits /\ \A y \in hits : 1 <= y
    BY <1>a, <2>1
  <2>3. Min(hits) = 1 /\ hits # {}
    BY <2>2, MinIs
  <2> QED
    BY Zenon, <1>2, <1>3, <1>4, <2>3 DEF FindsParam
<1>5. CASE PercentDecode(Key(p1), TRUE) # name /\ PercentDecode(Key(p2), TRUE) = name
  <2>1. hits = {v}
    BY <1>2, <1>5
  <2> HIDE DEF hits
  <2>2. hits \in SUBSET Int /\ v \in hits /\ \A y \in hits : v <= y
    BY <1>a, <2>1
  <2>3. Min(hits) = v /\ hits # {}
    BY <2>2, MinIs
  <2> QED
    BY Zenon, <1>2, <1>3, <1>5, <2>3 DEF FindsParam
<1> QED
  BY Zenon, <1>4, <1>5 DEF FindsParam

\* Query q holds the pairs p1 and p2, of which the second has the name.
TwoParams(S, q, p1, k1, e1, p2, k2, e2, name) ==
  /\ Equals \in S /\ Plain(S, k1, e1, ParamStops) /\ Plain(S, k2, e2, ParamStops)
  /\ PercentDecode(k1, TRUE) # name /\ PercentDecode(k2, TRUE) = name
  /\ IsPairOf(p1, k1, Equals, e1) /\ IsPairOf(p2, k2, Equals, e2) /\ IsPairOf(q, p1, Ampersand, p2)

\* What query_param finds in q is e, read.
ParamIs(q, name, e) == ReadParam(q, name) = PercentDecode(e, TRUE)

\* query_param finds the second of two parameters.
LEMMA ParamReturns ==
  ASSUME NEW S, NEW q, NEW p1, NEW k1, NEW e1, NEW p2, NEW k2, NEW e2, NEW name,
         TwoParams(S, q, p1, k1, e1, p2, k2, e2, name)
  PROVE  ParamIs(q, name, e2)
<1>c. /\ Equals \in S /\ Plain(S, k1, e1, ParamStops) /\ Plain(S, k2, e2, ParamStops)
      /\ PercentDecode(k1, TRUE) # name /\ PercentDecode(k2, TRUE) = name
      /\ IsPairOf(p1, k1, Equals, e1) /\ IsPairOf(p2, k2, Equals, e2) /\ IsPairOf(q, p1, Ampersand, p2)
  BY DEF TwoParams
<1>0. q = p1 \o <<Ampersand>> \o p2
  BY <1>c DEF IsPairOf
<1>b. Ampersand \in ParamStops
  BY DEF ParamStops
<1>1. p1 \in Seq(S) /\ p1 # <<>> /\ Key(p1) = k1 /\ Val(p1) = e1 /\ Without(p1, Ampersand)
  <2>1. IsPlain(S, p1, k1, e1, ParamStops)
    BY <1>c, PlainPair
  <2> QED
    BY <1>b, <2>1 DEF IsPlain
<1>2. p2 \in Seq(S) /\ p2 # <<>> /\ Key(p2) = k2 /\ Val(p2) = e2 /\ Without(p2, Ampersand)
  <2>1. IsPlain(S, p2, k2, e2, ParamStops)
    BY <1>c, PlainPair
  <2> QED
    BY <1>b, <2>1 DEF IsPlain
<1>3. Ampersand \in S
  BY <1>b, <1>c DEF Plain
<1>4. FindsParam(q, name, p1, p2)
  BY <1>0, <1>1, <1>2, <1>3, ParamAt
<1>12. ReadParam(q, name) = PercentDecode(e2, TRUE)
  BY Zenon, <1>1, <1>2, <1>4, <1>c DEF FindsParam
<1> QED
  BY Zenon, <1>12 DEF ParamIs

\* Header h is p1, a semicolon and a blank, and p2.
InHeader(h, p1, p2) == h = p1 \o <<Semicolon>> \o (<<Space>> \o p2)

\* No semicolon and no blank in p, which is a text.
IsCookie(S, p) == p \in Seq(S) /\ Len(p) # 0 /\ Without(p, Semicolon) /\ Without(p, Space)

\* The pieces of h are p1 and p2 with a blank before it, the second one from v on.
TrimsInto(h, p1, p2, v) ==
  /\ Starts(h, Semicolon) = {1, v} /\ v \in Nat /\ v > 1
  /\ Trim(Piece(h, Semicolon, 1)) = p1 /\ Trim(Piece(h, Semicolon, v)) = p2

LEMMA CookiePieces ==
  ASSUME NEW S, Semicolon \in S, Space \in S, NEW p1, IsCookie(S, p1), NEW p2, IsCookie(S, p2),
         NEW h, InHeader(h, p1, p2), NEW v, v = Len(p1) + 2
  PROVE  TrimsInto(h, p1, p2, v)
<1> DEFINE p3 == <<Space>> \o p2
<1>0. h = p1 \o <<Semicolon>> \o p3
  BY DEF InHeader
<1>1. p1 \in Seq(S) /\ Without(p1, Semicolon) /\ Without(p1, Space)
  BY DEF IsCookie
<1>2. p2 \in Seq(S) /\ Len(p2) # 0 /\ Without(p2, Semicolon) /\ Without(p2, Space)
  BY DEF IsCookie
<1>3. Trim(p1) = p1
  BY <1>1, TrimNothing
<1>c. p3 = <<Space>> \o p2
  OBVIOUS
<1> HIDE DEF p3
<1>4. p3 \in Seq(S) /\ Trim(p3) = p2
  BY <1>2, <1>c, TrimBlank
<1>5. Without(p3, Semicolon)
  <2> DEFINE n == Len(p2)
             one == <<Space>>
  <2>1. n = Len(p2) /\ n \in Nat /\ one \in Seq(S) /\ Len(one) = 1 /\ one[1] = Space /\ p3 = one \o p2 /\ DOMAIN p2 = 1 .. n
    BY <1>2, <1>c
  <2> HIDE DEF n, one
  <2>2. IsJoin(S, p3, one, 1, p2, n)
    BY <1>2, <2>1, JoinIs
  <2>3. p3[1] = Space /\ DOMAIN p3 = 1 .. 1 + n /\ \A j \in 1 .. n : p3[1 + j] = p2[j]
    BY <2>1, <2>2 DEF IsJoin
  <2>4. \A j \in 1 .. n : p2[j] # Semicolon
    BY <1>2, <2>1 DEF Without
  <2>5. Space # Semicolon
    BY DEF Space, Semicolon
  <2>6. ASSUME NEW i \in 1 .. 1 + n PROVE p3[i] # Semicolon
    <3>1. CASE i = 1
      BY <2>3, <2>5, <3>1
    <3>2. CASE i # 1
      <4> DEFINE j == i - 1
      <4>b. n \in Nat
        BY <2>1
      <4>1. j \in 1 .. n /\ 1 + j = i
        BY <3>2, <4>b
      <4> HIDE DEF j
      <4>a. p2[j] # Semicolon
        BY <2>4, <4>1
      <4>2. p3[1 + j] = p2[j] /\ p2[j] # Semicolon
        BY <2>3, <4>a, <4>1
      <4> QED
        BY <4>1, <4>2
    <3> QED
      BY <3>1, <3>2
  <2> QED
    BY <2>3, <2>6 DEF Without
<1>6. FallsInto(S, h, Semicolon, p1, p3, v)
  BY <1>0, <1>1, <1>4, <1>5, TwoPieces
<1>7. v > 1
  <2>1. Len(p1) \in Nat
    BY <1>1
  <2> QED
    BY <2>1
<1> QED
  BY <1>3, <1>4, <1>6, <1>7 DEF FallsInto, TrimsInto

\* What Request::cookie finds in two pairs.
FindsCookie(h, name, p1, p2) ==
  /\ Valueless(p1) => ReadCookie(h, name) = <<-1>>
  /\ ~Valueless(p1) /\ Trim(Key(p1)) = name => ReadCookie(h, name) = PercentDecode(Trim(Val(p1)), FALSE)
  /\ ~Valueless(p1) /\ ~Valueless(p2) /\ Trim(Key(p1)) # name /\ Trim(Key(p2)) = name =>
       ReadCookie(h, name) = PercentDecode(Trim(Val(p2)), FALSE)

LEMMA CookieAt ==
  ASSUME NEW h, NEW p1, NEW p2, NEW v, TrimsInto(h, p1, p2, v), NEW name
  PROVE  FindsCookie(h, name, p1, p2)
<1> DEFINE starts == Starts(h, Semicolon)
           pair(i) == Trim(Piece(h, Semicolon, i))
           hits == {i \in starts : Trim(Key(pair(i))) = name /\ \A j \in starts : j <= i => ~Valueless(pair(j))}
<1>1. starts = {1, v} /\ pair(1) = p1 /\ pair(v) = p2 /\ v \in Nat /\ v > 1
  BY DEF TrimsInto
<1>2. ReadCookie(h, name) = IF hits = {} THEN <<-1>> ELSE PercentDecode(Trim(Val(pair(Min(hits)))), FALSE)
  BY DEF ReadCookie
<1> HIDE DEF starts, pair
<1>3. CASE Valueless(p1)
  <2>1. hits = {}
    BY <1>1, <1>3
  <2> QED
    BY Zenon, <1>2, <1>3, <2>1 DEF FindsCookie
<1>4. CASE ~Valueless(p1) /\ Trim(Key(p1)) = name
  <2>1. 1 \in hits /\ hits \subseteq {1, v}
    BY <1>1, <1>4
  <2> HIDE DEF hits
  <2>2. hits \in SUBSET Int /\ 1 \in hits /\ \A y \in hits : 1 <= y
    BY <1>1, <2>1
  <2>3. Min(hits) = 1 /\ hits # {}
    BY <2>2, MinIs
  <2> QED
    BY Zenon, <1>1, <1>2, <1>4, <2>3 DEF FindsCookie
<1>5. CASE ~Valueless(p1) /\ ~Valueless(p2) /\ Trim(Key(p1)) # name /\ Trim(Key(p2)) = name
  <2>1. hits = {v}
    BY <1>1, <1>5
  <2> HIDE DEF hits
  <2>2. hits \in SUBSET Int /\ v \in hits /\ \A y \in hits : v <= y
    BY <1>1, <2>1
  <2>3. Min(hits) = v /\ hits # {}
    BY <2>2, MinIs
  <2> QED
    BY Zenon, <1>1, <1>2, <1>5, <2>3 DEF FindsCookie
<1> QED
  BY Zenon, <1>3, <1>4, <1>5 DEF FindsCookie

\* A byte that is neither an escape nor a plus is read as it is.
LEMMA DecodeOne ==
  ASSUME NEW b, b # Percent, b # Plus, NEW plus
  PROVE  PercentDecode(<<b>>, plus) = <<b>>
<1> DEFINE s == <<b>>
           S == {b}
<1>1. s \in Seq(S) /\ Len(s) = 1 /\ s[1] = b
  OBVIOUS
<1> HIDE DEF s, S
<1>2. PICK g : (\A i \in 1 .. Len(s) + 1 : g[i] = DecodedAt(s, plus, g, i)) /\ PercentDecode(s, plus) = g[1]
  BY <1>1, DecodeRuns
<1>3. g[1] = DecodedAt(s, plus, g, 1) /\ g[2] = DecodedAt(s, plus, g, 2)
  BY <1>1, <1>2
<1>4. g[2] = <<>>
  BY <1>1, <1>3 DEF DecodedAt
<1>5. g[1] = <<b>> \o <<>>
  <2>1. ~ (1 > Len(s)) /\ s[1] # Percent /\ s[1] # Plus /\ 1 + 1 = 2
    BY <1>1
  <2>2. DecodedAt(s, plus, g, 1) = <<s[1]>> \o g[1 + 1]
    BY <2>1 DEF DecodedAt
  <2> QED
    BY <1>1, <1>3, <1>4, <2>1, <2>2
<1>6. <<b>> \o <<>> = <<b>>
  OBVIOUS
<1> QED
  BY <1>2, <1>5, <1>6 DEF s

LEMMA FlattenTwo ==
  ASSUME NEW S, NEW q \in Seq(Seq(S)), Len(q) = 2
  PROVE  FlattenSeq(q) = q[1] \o q[2]
<1>1. PICK g : FlattenRun(q, g, Len(q)) /\ FlattenSeq(q) = g[Len(q)]
  <2>1. q # <<>>
    OBVIOUS
  <2> QED
    BY <2>1, FlattenRuns
<1>2. g = [i \in 1 .. 2 |-> IF i = 1 THEN q[i] ELSE g[i - 1] \o q[i]]
  BY <1>1 DEF FlattenRun
<1>3. g[1] = q[1]
  BY <1>2
<1>4. g[2] = g[1] \o q[2]
  BY <1>2
<1> QED
  BY <1>1, <1>3, <1>4

\* What escaped texts are made of, and what joins them.
Escapes == Unreserved \cup {Percent}
Joints == {Equals, Ampersand, Semicolon, Space}
PairSigns == Escapes \cup Joints

LEMMA JointsApart ==
  /\ \A c \in Joints : c \notin Escapes
  /\ \A c \in {Ampersand, Semicolon, Space} : c # Equals
  /\ 97 \in Escapes /\ 98 \in Escapes /\ 97 # Percent /\ 97 # Plus /\ 98 # Percent /\ 98 # Plus
  BY DEF Joints, Escapes, Unreserved, Percent, Plus, Semicolon, Equals, Ampersand, Space

\* Two escaped texts make a pair that nothing in them ends.
LEMMA EscapesPlain ==
  ASSUME NEW k \in Seq(Escapes), NEW e \in Seq(Escapes), NEW stops \in SUBSET {Ampersand, Semicolon, Space}
  PROVE  Plain(PairSigns, k, e, stops)
<1>1. \A c \in Joints : Without(k, c) /\ Without(e, c)
  BY JointsApart DEF Without
<1>2. Escapes \subseteq PairSigns /\ Joints \subseteq PairSigns /\ Equals \in Joints /\ stops \subseteq Joints
  BY DEF PairSigns, Joints
<1>3. k \in Seq(PairSigns) /\ e \in Seq(PairSigns)
  BY <1>2
<1> QED
  BY <1>1, <1>2, <1>3, JointsApart DEF Plain

\* How the header of two cookies is put together.
LEMMA BlankJoins ==
  ASSUME NEW S, Semicolon \in S, Space \in S, NEW p1 \in Seq(S), NEW p2 \in Seq(S)
  PROVE  InHeader(p1 \o <<Semicolon, Space>> \o p2, p1, p2)
<1> DEFINE a == <<Semicolon>>
           b == <<Space>>
           x == <<Semicolon, Space>>
           y == p1 \o a
<1>1. a \in Seq(S) /\ b \in Seq(S)
  OBVIOUS
<1>a. x = a \o b
  OBVIOUS
<1> HIDE DEF a, b, x
<1>2. y \in Seq(S)
  BY <1>1
<1>b. y = p1 \o a
  OBVIOUS
<1>3. y \o b = p1 \o (a \o b)
  <2>1. (p1 \o a) \o b = p1 \o (a \o b)
    BY <1>1, ConcatAssociative
  <2> QED
    BY Zenon, <1>b, <2>1
<1> HIDE DEF y
<1>4. y \o (b \o p2) = (y \o b) \o p2
  <2>1. y \in Seq(S) /\ b \in Seq(S) /\ p2 \in Seq(S)
    BY <1>1, <1>2
  <2> QED
    BY <2>1, ConcatAssociative
<1>5. (p1 \o x) \o p2 = (p1 \o a) \o (b \o p2)
  <2>1. p1 \o x = y \o b
    BY Zenon, <1>a, <1>3
  <2>2. (p1 \o x) \o p2 = (y \o b) \o p2
    BY Zenon, <2>1
  <2>3. y \o (b \o p2) = (p1 \o a) \o (b \o p2)
    BY Zenon, <1>b
  <2> QED
    BY Zenon, <1>4, <2>2, <2>3
<1> QED
  BY Zenon, <1>5 DEF InHeader, a, b, x

\* What is known of a cookie or a parameter p with key k and the escaped value e.
PairKnown(p, k, e) ==
  /\ p \in Seq(PairSigns) /\ p # <<>> /\ Key(p) = k /\ Val(p) = e /\ ~Valueless(p)
  /\ Without(p, Ampersand) /\ IsCookie(PairSigns, p)

LEMMA EscapedPair ==
  ASSUME NEW k \in Seq(Escapes), NEW e \in Seq(Escapes), NEW p, p = k \o <<Equals>> \o e
  PROVE  PairKnown(p, k, e)
<1> DEFINE all == {Ampersand, Semicolon, Space}
<1>1. Plain(PairSigns, k, e, all)
  BY EscapesPlain
<1>2. Equals \in PairSigns
  BY DEF PairSigns, Joints
<1>3. IsPairOf(p, k, Equals, e)
  BY DEF IsPairOf
<1> HIDE DEF all
<1>4. IsPlain(PairSigns, p, k, e, all)
  BY <1>1, <1>2, <1>3, PlainPair
<1>5. Ampersand \in all /\ Semicolon \in all /\ Space \in all
  BY DEF all
<1> QED
  BY <1>4, <1>5 DEF IsPlain, PairKnown, IsCookie

LEMMA EscapedName ==
  ASSUME NEW k \in Seq(Escapes), Len(k) # 0
  PROVE  /\ k \in Seq(PairSigns) /\ k # <<>> /\ Key(k) = k /\ Valueless(k)
         /\ Without(k, Ampersand) /\ IsCookie(PairSigns, k) /\ Without(k, Space)
<1>1. Escapes \subseteq PairSigns /\ \A c \in Joints : Without(k, c)
  BY JointsApart DEF Without, PairSigns
<1>2. Equals \in Joints /\ Ampersand \in Joints /\ Semicolon \in Joints /\ Space \in Joints
  BY DEF Joints
<1>3. k \in Seq(PairSigns) /\ k # <<>>
  BY <1>1
<1>4. Key(k) = k /\ Valueless(k)
  BY <1>1, <1>2, <1>3, NameAlone
<1> QED
  BY <1>1, <1>2, <1>3, <1>4 DEF IsCookie

\* A cookie or a parameter is read as it was behind another, and before a name alone; a
\* parameter behind a name alone is, and a cookie is not found there.
LEMMA ValuesReturn ==
  ASSUME NEW v \in Seq(Byte), NEW bare, bare = << 97 >>, NEW name, name = << 98 >>,
         NEW other, other = CookiePair(bare, v), NEW wanted, wanted = CookiePair(name, v)
  PROVE  /\ ReadCookie(other \o <<Semicolon, Space>> \o wanted, name) = v
         /\ ReadCookie(wanted \o <<Semicolon, Space>> \o bare, name) = v
         /\ ReadCookie(bare \o <<Semicolon, Space>> \o wanted, name) = <<-1>>
         /\ ReadParam(other \o <<Ampersand>> \o wanted, name) = v
         /\ ReadParam(wanted \o <<Ampersand>> \o bare, name) = v
         /\ ReadParam(bare \o <<Ampersand>> \o wanted, name) = v
<1> DEFINE e == PercentEncode(v)
<1>1. e = EncodeIn(Unreserved, v)
  BY Zenon DEF PercentEncode, EncodeIn, Encoded, EscapedIn
<1>2. ASSUME NEW plus PROVE e \in Seq(Escapes) /\ PercentDecode(e, plus) = v
  BY <1>1, EncodedIs DEF Escapes
<1>3. e \in Seq(Escapes) /\ PercentDecode(e, TRUE) = v /\ PercentDecode(e, FALSE) = v
  BY <1>2
<1>4. bare \in Seq(Escapes) /\ name \in Seq(Escapes) /\ bare # name /\ Len(bare) # 0 /\ Len(name) # 0
  BY JointsApart
<1>5. PercentDecode(bare, TRUE) = bare /\ PercentDecode(name, TRUE) = name
  BY JointsApart, DecodeOne
<1>6. other = bare \o <<Equals>> \o e /\ wanted = name \o <<Equals>> \o e
  BY Zenon DEF CookiePair
<1> HIDE DEF e
<1>7. PairKnown(other, bare, e) /\ PairKnown(wanted, name, e)
  BY <1>3, <1>4, <1>6, EscapedPair
<1>b. /\ Key(other) = bare /\ Val(other) = e /\ ~Valueless(other)
      /\ Key(wanted) = name /\ Val(wanted) = e /\ ~Valueless(wanted)
  BY Zenon, <1>7 DEF PairKnown
<1>8. /\ bare \in Seq(PairSigns) /\ bare # <<>> /\ Key(bare) = bare /\ Valueless(bare)
      /\ Without(bare, Ampersand) /\ IsCookie(PairSigns, bare) /\ Without(bare, Space)
  BY <1>4, EscapedName
<1>9. Semicolon \in PairSigns /\ Space \in PairSigns /\ Ampersand \in PairSigns
  BY DEF PairSigns, Joints
<1>10. Trim(bare) = bare /\ Trim(name) = name /\ Trim(e) = e
  <2>1. Without(bare, Space) /\ Without(name, Space) /\ Without(e, Space)
    BY <1>3, <1>4, JointsApart DEF Without, Joints
  <2> QED
    BY <1>3, <1>4, <2>1, TrimNothing
<1>11. \A p1, p2 : IsCookie(PairSigns, p1) /\ IsCookie(PairSigns, p2) =>
         \E u : TrimsInto(p1 \o <<Semicolon, Space>> \o p2, p1, p2, u)
  <2> SUFFICES ASSUME NEW p1, NEW p2, IsCookie(PairSigns, p1), IsCookie(PairSigns, p2)
               PROVE  \E u : TrimsInto(p1 \o <<Semicolon, Space>> \o p2, p1, p2, u)
    OBVIOUS
  <2> DEFINE h == p1 \o <<Semicolon, Space>> \o p2
             u == Len(p1) + 2
  <2>1. InHeader(h, p1, p2)
    BY <1>9, BlankJoins DEF IsCookie
  <2>2. u = Len(p1) + 2
    OBVIOUS
  <2> HIDE DEF h, u
  <2>3. TrimsInto(h, p1, p2, u)
    BY <1>9, <2>1, <2>2, CookiePieces
  <2> QED
    BY <2>3 DEF h
<1>12. ReadCookie(other \o <<Semicolon, Space>> \o wanted, name) = v
  <2> DEFINE h == other \o <<Semicolon, Space>> \o wanted
  <2>1. PICK u : TrimsInto(h, other, wanted, u)
    BY <1>7, <1>11 DEF PairKnown
  <2> HIDE DEF h
  <2>2. FindsCookie(h, name, other, wanted)
    BY <2>1, CookieAt
  <2>3. ReadCookie(h, name) = v
    BY Zenon, <1>3, <1>4, <1>5, <1>8, <1>10, <1>b, <2>2 DEF FindsCookie
  <2> QED
    BY <2>3 DEF h
<1>13. ReadCookie(wanted \o <<Semicolon, Space>> \o bare, name) = v
  <2> DEFINE h == wanted \o <<Semicolon, Space>> \o bare
  <2>1. PICK u : TrimsInto(h, wanted, bare, u)
    BY <1>7, <1>8, <1>11 DEF PairKnown
  <2> HIDE DEF h
  <2>2. FindsCookie(h, name, wanted, bare)
    BY <2>1, CookieAt
  <2>3. ReadCookie(h, name) = v
    BY Zenon, <1>3, <1>4, <1>5, <1>8, <1>10, <1>b, <2>2 DEF FindsCookie
  <2> QED
    BY <2>3 DEF h
<1>14. ReadCookie(bare \o <<Semicolon, Space>> \o wanted, name) = <<-1>>
  <2> DEFINE h == bare \o <<Semicolon, Space>> \o wanted
  <2>1. PICK u : TrimsInto(h, bare, wanted, u)
    BY <1>7, <1>8, <1>11 DEF PairKnown
  <2> HIDE DEF h
  <2>2. FindsCookie(h, name, bare, wanted)
    BY <2>1, CookieAt
  <2>3. ReadCookie(h, name) = <<-1>>
    BY Zenon, <1>8, <2>2 DEF FindsCookie
  <2> QED
    BY <2>3 DEF h
<1>15. ReadParam(other \o <<Ampersand>> \o wanted, name) = v
  <2> DEFINE q == other \o <<Ampersand>> \o wanted
  <2>1. q = other \o <<Ampersand>> \o wanted
    OBVIOUS
  <2> HIDE DEF q
  <2>2. FindsParam(q, name, other, wanted)
    BY <1>7, <1>9, <2>1, ParamAt DEF PairKnown
  <2>3. ReadParam(q, name) = v
    BY Zenon, <1>3, <1>4, <1>5, <1>8, <1>10, <1>b, <2>2 DEF FindsParam
  <2> QED
    BY <2>3 DEF q
<1>16. ReadParam(wanted \o <<Ampersand>> \o bare, name) = v
  <2> DEFINE q == wanted \o <<Ampersand>> \o bare
  <2>1. q = wanted \o <<Ampersand>> \o bare
    OBVIOUS
  <2> HIDE DEF q
  <2>2. FindsParam(q, name, wanted, bare)
    BY <1>7, <1>8, <1>9, <2>1, ParamAt DEF PairKnown
  <2>3. ReadParam(q, name) = v
    BY Zenon, <1>3, <1>4, <1>5, <1>8, <1>10, <1>b, <2>2 DEF FindsParam
  <2> QED
    BY <2>3 DEF q
<1>17. ReadParam(bare \o <<Ampersand>> \o wanted, name) = v
  <2> DEFINE q == bare \o <<Ampersand>> \o wanted
  <2>1. q = bare \o <<Ampersand>> \o wanted
    OBVIOUS
  <2> HIDE DEF q
  <2>2. FindsParam(q, name, bare, wanted)
    BY <1>7, <1>8, <1>9, <2>1, ParamAt DEF PairKnown
  <2>3. ReadParam(q, name) = v
    BY Zenon, <1>3, <1>4, <1>5, <1>8, <1>10, <1>b, <2>2 DEF FindsParam
  <2> QED
    BY <2>3 DEF q
<1> QED
  BY <1>12, <1>13, <1>14, <1>15, <1>16, <1>17

\* A form of two pairs, as form_encode writes it.
IsForm(k1, e1, k2, e2) ==
  FormEncode(<<<<k1, e1>>, <<k2, e2>>>>) =
    (EncodeIn(FormUnreserved, k1) \o <<Equals>> \o EncodeIn(FormUnreserved, e1)) \o <<Ampersand>>
      \o (EncodeIn(FormUnreserved, k2) \o <<Equals>> \o EncodeIn(FormUnreserved, e2))

LEMMA FormIs ==
  ASSUME NEW k1 \in Seq(Byte), NEW e1 \in Seq(Byte), NEW k2 \in Seq(Byte), NEW e2 \in Seq(Byte)
  PROVE  IsForm(k1, e1, k2, e2)
<1> DEFINE pairs == <<<<k1, e1>>, <<k2, e2>>>>
           text(s) == EncodeIn(FormUnreserved, s)
           pair(k) == text(pairs[k][1]) \o <<Equals>> \o text(pairs[k][2])
           q == [k \in DOMAIN pairs |-> (IF k = 1 THEN <<>> ELSE <<Ampersand>>) \o pair(k)]
           p1 == text(k1) \o <<Equals>> \o text(e1)
           p2 == text(k2) \o <<Equals>> \o text(e2)
<1>1. FormEncode(pairs) = FlattenSeq(q)
  BY Zenon DEF FormEncode, EncodeIn, EscapedIn
<1>2. FormUnreserved \in SUBSET Unreserved
  BY DEF FormUnreserved
<1>3. text(k1) \in Seq(Escapes) /\ text(e1) \in Seq(Escapes) /\ text(k2) \in Seq(Escapes) /\ text(e2) \in Seq(Escapes)
  BY <1>2, EncodedIs DEF Escapes
<1>4. DOMAIN pairs = {1, 2} /\ pairs[1] = <<k1, e1>> /\ pairs[2] = <<k2, e2>>
  OBVIOUS
<1> HIDE DEF pairs, text
<1>5. pair(1) = p1 /\ pair(2) = p2
  BY <1>4
<1>6. Equals \in PairSigns /\ Ampersand \in PairSigns /\ Escapes \subseteq PairSigns
  BY DEF PairSigns, Joints
<1>7. p1 \in Seq(PairSigns) /\ p2 \in Seq(PairSigns)
  <2>1. text(k1) \in Seq(PairSigns) /\ text(e1) \in Seq(PairSigns) /\ text(k2) \in Seq(PairSigns) /\ text(e2) \in Seq(PairSigns) /\ <<Equals>> \in Seq(PairSigns)
    BY <1>3, <1>6
  <2> QED
    BY <2>1
<1> HIDE DEF pair, p1, p2
<1> DEFINE a == <<Ampersand>>
<1>8. a \in Seq(PairSigns) /\ <<>> \o p1 = p1 /\ a \o p2 \in Seq(PairSigns)
  BY <1>6, <1>7
<1> HIDE DEF a
<1>9. q = [k \in {1, 2} |-> IF k = 1 THEN p1 ELSE a \o p2]
  <2>1. q = [k \in {1, 2} |-> (IF k = 1 THEN <<>> ELSE a) \o pair(k)]
    BY <1>4 DEF a
  <2>a. <<>> \o p1 = p1
    BY <1>8
  <2>2. ASSUME NEW k \in {1, 2} PROVE (IF k = 1 THEN <<>> ELSE a) \o pair(k) = IF k = 1 THEN p1 ELSE a \o p2
    <3>1. CASE k = 1
      BY Zenon, <1>5, <2>a, <3>1
    <3>2. CASE k # 1
      <4>1. k = 2
        BY <3>2
      <4> QED
        BY Zenon, <1>5, <3>2, <4>1
    <3> QED
      BY <3>1, <3>2
  <2> QED
    BY Zenon, <2>1, <2>2
<1> HIDE DEF q
<1>10. q \in Seq(Seq(PairSigns)) /\ Len(q) = 2 /\ q[1] = p1 /\ q[2] = a \o p2
  <2>1. {1, 2} = 1 .. 2
    OBVIOUS
  <2> DEFINE r == a \o p2
  <2>a. r \in Seq(PairSigns)
    BY <1>8
  <2>b. q = [k \in 1 .. 2 |-> IF k = 1 THEN p1 ELSE r]
    BY Zenon, <1>9, <2>1
  <2> HIDE DEF r
  <2>c. q \in [1 .. 2 -> Seq(PairSigns)] /\ q[1] = p1 /\ q[2] = r
    BY <1>7, <2>a, <2>b
  <2>2. q \in [1 .. 2 -> Seq(PairSigns)] /\ q[1] = p1 /\ q[2] = a \o p2
    BY Zenon, <2>c DEF r
  <2>3. q \in Seq(Seq(PairSigns)) /\ Len(q) = 2
    BY <2>2, FunctionIsSeq
  <2> QED
    BY <2>2, <2>3
<1>11. FlattenSeq(q) = p1 \o (a \o p2)
  BY <1>10, FlattenTwo
<1>12. p1 \o (a \o p2) = p1 \o a \o p2
  BY <1>7, <1>8, ConcatAssociative
<1>13. FormEncode(pairs) = p1 \o a \o p2
  BY <1>1, <1>11, <1>12
<1> QED
  BY Zenon, <1>13 DEF IsForm, pairs, text, p1, p2, a

LEMMA AppendedApart ==
  ASSUME NEW S, NEW v \in Seq(S), NEW x \in S, NEW y, x # y
  PROVE  v \o <<x>> \in Seq(S) /\ v \o <<x>> # <<y>>
<1> DEFINE a == Append(v, x)
           n == Len(v)
<1>1. v \o <<x>> = a /\ a \in Seq(S) /\ Len(a) = n + 1 /\ n \in Nat /\ a[n + 1] = x
  OBVIOUS
<1> HIDE DEF a, n
<1>2. ASSUME a = <<y>> PROVE FALSE
  <2>1. n = 0
    BY <1>1, <1>2
  <2>2. a[1] = x
    BY <1>1, <2>1
  <2> QED
    BY <1>2, <2>2
<1> QED
  BY <1>1, <1>2

\* The second pair of a form is read as it was.
LEMMA FormReturns ==
  ASSUME NEW v \in Seq(Byte)
  PROVE  ReadParam(FormEncode(<<<<<<97>>, v>>, <<v \o <<91>>, <<98>>>>>>), v \o <<91>>) = <<98>>
<1> DEFINE name == v \o <<91>>
           one == <<97>>
           two == <<98>>
           k1 == EncodeIn(FormUnreserved, one)
           e1 == EncodeIn(FormUnreserved, v)
           k2 == EncodeIn(FormUnreserved, name)
           e2 == EncodeIn(FormUnreserved, two)
           p1 == k1 \o <<Equals>> \o e1
           p2 == k2 \o <<Equals>> \o e2
           query == p1 \o <<Ampersand>> \o p2
<1>1. one \in Seq(Byte) /\ two \in Seq(Byte)
  BY DEF Byte
<1>2. name \in Seq(Byte) /\ name # one
  <2>1. 91 \in Byte /\ 91 # 97
    BY DEF Byte
  <2> QED
    BY <2>1, AppendedApart
<1>3. FormEncode(<<<<one, v>>, <<name, two>>>>) = query
  <2> HIDE DEF one, two, name
  <2>1. one \in Seq(Byte) /\ two \in Seq(Byte) /\ name \in Seq(Byte) /\ v \in Seq(Byte)
    BY <1>1, <1>2
  <2>2. IsForm(one, v, name, two)
    BY <2>1, FormIs
  <2> QED
    BY Zenon, <2>2 DEF IsForm
<1> HIDE DEF one, two, name
<1>4. FormUnreserved \in SUBSET Unreserved
  BY DEF FormUnreserved
<1>5. ASSUME NEW s \in Seq(Byte)
      PROVE  EncodeIn(FormUnreserved, s) \in Seq(Escapes) /\ PercentDecode(EncodeIn(FormUnreserved, s), TRUE) = s
  BY <1>4, EncodedIs DEF Escapes
<1>6. /\ k1 \in Seq(Escapes) /\ e1 \in Seq(Escapes) /\ k2 \in Seq(Escapes) /\ e2 \in Seq(Escapes)
      /\ PercentDecode(k1, TRUE) = one /\ PercentDecode(k2, TRUE) = name /\ PercentDecode(e2, TRUE) = two
  BY <1>1, <1>2, <1>5
<1> HIDE DEF k1, e1, k2, e2
<1>f. ParamStops \in SUBSET {Ampersand, Semicolon, Space}
  BY DEF ParamStops
<1>7. Plain(PairSigns, k1, e1, ParamStops) /\ Plain(PairSigns, k2, e2, ParamStops)
  BY <1>6, <1>f, EscapesPlain
<1>8. Equals \in PairSigns /\ PercentDecode(k1, TRUE) # name
  BY <1>2, <1>6 DEF PairSigns, Joints
<1>9. IsPairOf(p1, k1, Equals, e1) /\ IsPairOf(p2, k2, Equals, e2) /\ IsPairOf(query, p1, Ampersand, p2)
  BY DEF IsPairOf
<1> HIDE DEF p1, p2, query
<1>10. ReadParam(query, name) = PercentDecode(e2, TRUE)
  <2>1. TwoParams(PairSigns, query, p1, k1, e1, p2, k2, e2, name)
    BY <1>6, <1>7, <1>8, <1>9 DEF TwoParams
  <2>2. ParamIs(query, name, e2)
    BY <2>1, ParamReturns
  <2> QED
    BY Zenon, <2>2 DEF ParamIs
<1>11. ReadParam(FormEncode(<<<<one, v>>, <<name, two>>>>), name) = two
  BY Zenon, <1>3, <1>6, <1>10
<1> QED
  BY Zenon, <1>11 DEF one, two, name

-----------------------------------------------------------------------------
(***************************************************************************)
(* The JSON reader: what it makes of a position is nothing, or a value and *)
(* a later position; so its recursions are defined.                        *)
(***************************************************************************)

\* What a reader may make of what stands at k, in a text that ends before n: nothing, or
\* a value of V and a later position.
Out(V, k, n) == {Nothing} \cup {Got(v, a) : v \in V, a \in k + 1 .. n}

LEMMA GotIs ==
  ASSUME NEW v, NEW a
  PROVE  Got(v, a).ok = TRUE /\ Got(v, a).value = v /\ Got(v, a).at = a /\ Nothing.ok = FALSE
  BY DEF Got, Nothing

LEMMA OutIs ==
  ASSUME NEW V, NEW k, NEW n, NEW r \in Out(V, k, n)
  PROVE  /\ r.ok \in BOOLEAN
         /\ r.ok => r.value \in V /\ r.at \in k + 1 .. n /\ r = Got(r.value, r.at)
         /\ ~r.ok => r = Nothing
<1>1. CASE r = Nothing
  BY <1>1, GotIs
<1>2. CASE r # Nothing
  <2>1. PICK v \in V, a \in k + 1 .. n : r = Got(v, a)
    BY <1>2 DEF Out
  <2>2. r.ok = TRUE /\ r.value = v /\ r.at = a
    BY <2>1, GotIs
  <2>3. r = Got(r.value, r.at)
    BY Zenon, <2>1, <2>2
  <2> QED
    BY <2>2, <2>3
<1> QED
  BY <1>1, <1>2

LEMMA OutGot ==
  ASSUME NEW V, NEW k, NEW n, NEW v \in V, NEW a \in k + 1 .. n
  PROVE  Got(v, a) \in Out(V, k, n)
  BY DEF Out

LEMMA OutNothing ==
  ASSUME NEW V, NEW k, NEW n
  PROVE  Nothing \in Out(V, k, n)
  BY DEF Out

LEMMA PeekIs ==
  ASSUME NEW s \in Seq(Nat), NEW i \in Int
  PROVE  /\ Peek(s, i) \in Int /\ (Peek(s, i) = -1 \/ Peek(s, i) \in Nat)
         /\ Peek(s, i) >= 0 => i \in 1 .. Len(s) /\ Peek(s, i) = s[i]
         /\ i \in 1 .. Len(s) => Peek(s, i) = s[i] /\ s[i] \in Nat
<1>1. CASE i \in 1 .. Len(s)
  <2>1. Peek(s, i) = s[i] /\ s[i] \in Nat
    BY <1>1 DEF Peek
  <2> QED
    BY <1>1, <2>1
<1>2. CASE i \notin 1 .. Len(s)
  <2>1. Peek(s, i) = -1
    BY <1>2 DEF Peek
  <2> QED
    BY <1>2, <2>1
<1> QED
  BY <1>1, <1>2

LEMMA HexValIs ==
  ASSUME NEW c \in Int
  PROVE  HexVal(c) \in -1 .. 15 /\ (HexVal(c) >= 0 => c >= 0)
  BY DEF HexVal, Digits

\* hex4 reads four characters.
LEMMA Hex4Is ==
  ASSUME NEW s \in Seq(Nat), NEW i \in Nat \ {0}
  PROVE  Hex4(s, i) \in Int /\ (Hex4(s, i) >= 0 => i + 3 <= Len(s))
<1> DEFINE h(k) == HexVal(Peek(s, i + k))
<1>1. ASSUME NEW k \in 0 .. 3 PROVE h(k) \in -1 .. 15 /\ (h(k) >= 0 => i + k <= Len(s))
  <2>1. i + k \in Int
    OBVIOUS
  <2>2. Peek(s, i + k) \in Int /\ (Peek(s, i + k) >= 0 => i + k \in 1 .. Len(s))
    BY <2>1, PeekIs
  <2> QED
    BY <2>2, HexValIs
<1>2. Hex4(s, i) = IF \E k \in 0 .. 3 : h(k) < 0 THEN -1 ELSE 4096 * h(0) + 256 * h(1) + 16 * h(2) + h(3)
  BY Zenon DEF Hex4
<1>a. h(0) \in -1 .. 15 /\ h(1) \in -1 .. 15 /\ h(2) \in -1 .. 15 /\ h(3) \in -1 .. 15 /\ (h(3) >= 0 => i + 3 <= Len(s))
  BY <1>1
<1>b. (\E k \in 0 .. 3 : h(k) < 0) \/ h(3) >= 0
  BY <1>a
<1> DEFINE sum == 4096 * h(0) + 256 * h(1) + 16 * h(2) + h(3)
<1> HIDE DEF h
<1>c. sum \in Int
  <2> DEFINE w == h(0)
             x == h(1)
             y == h(2)
             z == h(3)
  <2>1. w \in Int /\ x \in Int /\ y \in Int /\ z \in Int
    BY <1>a
  <2> HIDE DEF w, x, y, z
  <2>2. 4096 * w + 256 * x + 16 * y + z \in Int
    BY SMT, <2>1
  <2> QED
    BY SMT, <2>2 DEF w, x, y, z
<1>d. Hex4(s, i) = IF \E k \in 0 .. 3 : h(k) < 0 THEN -1 ELSE sum
  BY SMT, <1>2
<1> HIDE DEF sum
<1>3. CASE \E k \in 0 .. 3 : h(k) < 0
  BY <1>d, <1>3
<1>4. CASE ~ \E k \in 0 .. 3 : h(k) < 0
  <2>1. Hex4(s, i) = sum
    BY <1>d, <1>4
  <2>3. i + 3 <= Len(s)
    BY <1>4, <1>a, <1>b
  <2> QED
    BY <1>c, <2>1, <2>3
<1> QED
  BY <1>3, <1>4

LEMMA UnicodeOut ==
  ASSUME NEW s \in Seq(Nat), NEW i \in Nat \ {0}, NEW n, n = Len(s) + 1
  PROVE  UnicodeEscape(s, i) \in Out(Nat, i, n)
<1> DEFINE hi == Hex4(s, i)
           lo == Hex4(s, i + 6)
           pair == 65536 + 1024 * (hi - 55296) + lo - 56320
<1>1. hi \in Int /\ (hi >= 0 => i + 4 \in i + 1 .. n)
  BY Hex4Is
<1>2. lo \in Int /\ (lo >= 0 => i + 10 \in i + 1 .. n)
  <2>1. i + 6 \in Nat \ {0} /\ Len(s) \in Nat
    OBVIOUS
  <2>2. lo \in Int /\ (lo >= 0 => i + 6 + 3 <= Len(s))
    BY <2>1, Hex4Is
  <2> HIDE DEF lo
  <2> QED
    BY <2>1, <2>2
<1>3. UnicodeEscape(s, i) =
        IF hi < 0 THEN Nothing
        ELSE IF hi \notin 55296 .. 57343 THEN Got(hi, i + 4)
        ELSE IF hi > 56319 \/ <<Peek(s, i + 4), Peek(s, i + 5)>> # <<Backslash, 117>> THEN Got(65533, i + 4)
        ELSE IF lo < 0 THEN Nothing
        ELSE IF lo \in 56320 .. 57343 THEN Got(pair, i + 10)
        ELSE Got(65533, i + 4)
  BY SMT DEF UnicodeEscape, Utf16
<1> HIDE DEF hi, lo
<1>a. 65533 \in Nat
  OBVIOUS
<1> DEFINE high == hi \in 55296 .. 57343
           low == lo \in 56320 .. 57343
<1>b. low => lo >= 0
  BY SMT, <1>2
<1>4. high /\ low => pair \in Nat
  BY SMT, <1>1, <1>2
<1> HIDE DEF pair
<1>5. Nothing \in Out(Nat, i, n)
  BY OutNothing
<1>6. hi >= 0 => hi \in Nat /\ Got(hi, i + 4) \in Out(Nat, i, n) /\ Got(65533, i + 4) \in Out(Nat, i, n)
  <2>1. ASSUME hi >= 0 PROVE Got(hi, i + 4) \in Out(Nat, i, n)
    <3>1. hi \in Nat /\ i + 4 \in i + 1 .. n
      BY <1>1, <2>1
    <3> QED
      BY <3>1, OutGot
  <2> DEFINE v == 65533
  <2> HIDE DEF v
  <2>a. v \in Nat
    BY <1>a DEF v
  <2>2. ASSUME hi >= 0 PROVE Got(v, i + 4) \in Out(Nat, i, n)
    BY <1>1, <2>2, <2>a, OutGot
  <2> QED
    BY <1>1, <2>1, <2>2 DEF v
<1> HIDE DEF high, low
<1>7. high /\ low => Got(pair, i + 10) \in Out(Nat, i, n)
  <2>1. low => i + 10 \in i + 1 .. n
    BY SMT, <1>2, <1>b
  <2>2. ASSUME high, low PROVE Got(pair, i + 10) \in Out(Nat, i, n)
    <3> DEFINE at == i + 10
    <3>1. pair \in Nat /\ at \in i + 1 .. n
      BY Zenon, <1>4, <2>1, <2>2
    <3> HIDE DEF at
    <3>2. Got(pair, at) \in Out(Nat, i, n)
      BY Zenon, <3>1, OutGot
    <3> QED
      BY Zenon, <3>2 DEF at
  <2> QED
    BY Zenon, <2>2
<1> QED
  BY <1>1, <1>2, <1>3, <1>5, <1>6, <1>7 DEF high, low

LEMMA ShortIs ==
  /\ DOMAIN Short = {34, 92, 98, 102, 110, 114, 116}
  /\ Short[34] = 34 /\ Short[92] = 92 /\ Short[98] = 8 /\ Short[102] = 12 /\ Short[110] = 10 /\ Short[114] = 13 /\ Short[116] = 9
  BY DEF Short

LEMMA EscapeOut ==
  ASSUME NEW s \in Seq(Nat), NEW i \in Nat \ {0}, NEW n, n = Len(s) + 1
  PROVE  Escape(s, i) \in Out(Nat, i, n)
<1> DEFINE e == Peek(s, i)
<1>1. n \in Nat /\ (e >= 0 => i + 1 \in i + 1 .. n)
  BY PeekIs
<1>2. Escape(s, i) = IF e \in DOMAIN Short THEN Got(Short[e], i + 1)
                     ELSE IF e = 47 THEN Got(47, i + 1)
                     ELSE IF e = 117 THEN UnicodeEscape(s, i + 1) ELSE Nothing
  BY Zenon DEF Escape
<1> HIDE DEF e
<1>3. e \in DOMAIN Short => Short[e] \in Nat /\ e >= 0
  BY ShortIs
<1>4. CASE e \in DOMAIN Short
  BY <1>1, <1>2, <1>3, <1>4, OutGot
<1>5. CASE e \notin DOMAIN Short /\ e = 47
  <2> DEFINE v == 47
  <2>1. e >= 0 /\ v \in Nat /\ Escape(s, i) = Got(v, i + 1)
    BY <1>2, <1>5
  <2> HIDE DEF v
  <2> QED
    BY <1>1, <2>1, OutGot
<1>6. CASE e \notin DOMAIN Short /\ e = 117
  <2>1. i + 1 \in Nat \ {0} /\ e # 47 /\ e >= 0
    BY <1>6
  <2>2. UnicodeEscape(s, i + 1) \in Out(Nat, i + 1, n)
    BY <2>1, UnicodeOut
  <2>3. Out(Nat, i + 1, n) \subseteq Out(Nat, i, n)
    BY <1>1 DEF Out
  <2> QED
    BY <1>2, <1>6, <2>1, <2>2, <2>3
<1>7. CASE e \notin DOMAIN Short /\ e # 47 /\ e # 117
  BY <1>2, <1>7, OutNothing
<1> QED
  BY <1>4, <1>5, <1>6, <1>7

\* One character, or one escape, is a code point and a later position.
LEMMA CharOut ==
  ASSUME NEW s \in Seq(Nat), NEW i \in Nat \ {0}, NEW n, n = Len(s) + 1
  PROVE  Char(s, i) \in Out(Nat, i, n)
<1>0. n \in Nat /\ Peek(s, i) \in Int
  BY PeekIs
<1>1. CASE Peek(s, i) < 32
  BY <1>1, OutNothing DEF Char
<1>2. CASE ~ (Peek(s, i) < 32) /\ Peek(s, i) = Backslash
  <2>1. i + 1 \in Nat \ {0}
    OBVIOUS
  <2>2. Escape(s, i + 1) \in Out(Nat, i + 1, n)
    BY <2>1, EscapeOut
  <2>3. Out(Nat, i + 1, n) \subseteq Out(Nat, i, n)
    BY <1>0 DEF Out
  <2>4. Char(s, i) = Escape(s, i + 1)
    BY <1>2 DEF Char
  <2> QED
    BY <2>2, <2>3, <2>4
<1>3. CASE ~ (Peek(s, i) < 32) /\ Peek(s, i) # Backslash
  <2>a. Peek(s, i) >= 0 /\ i \in Int
    BY <1>0, <1>3
  <2>1. i \in 1 .. Len(s) /\ s[i] \in Nat
    BY <2>a, PeekIs
  <2>2. i + 1 \in i + 1 .. n
    BY <2>1
  <2>3. Char(s, i) = Got(s[i], i + 1)
    BY <1>3 DEF Char
  <2> QED
    BY <2>1, <2>2, <2>3, OutGot
<1> QED
  BY <1>1, <1>2, <1>3

\* What string makes of s from position i on, when later is what it makes of it from later
\* positions on.
StringAt(s, later, i) ==
  LET c == Char(s, i)
      rest == later[c.at]
  IN  IF Peek(s, i) = Quote THEN Got(<<>>, i + 1)
      ELSE IF ~c.ok THEN Nothing
      ELSE IF rest.ok THEN Got(<<c.value>> \o rest.value, rest.at) ELSE Nothing

StringRun(s, g, from) == g = [i \in from .. Len(s) + 1 |-> StringAt(s, g, i)]

LEMMA StringLocal ==
  ASSUME NEW s \in Seq(Nat), NEW i \in 1 .. Len(s) + 1, NEW g, NEW h,
         \A j \in i + 1 .. Len(s) + 1 : g[j] = h[j]
  PROVE  StringAt(s, g, i) = StringAt(s, h, i)
<1> DEFINE c == Char(s, i)
           n == Len(s) + 1
<1>1. i \in Nat \ {0} /\ n = Len(s) + 1
  OBVIOUS
<1> HIDE DEF n
<1>2. c \in Out(Nat, i, n)
  BY <1>1, CharOut
<1> HIDE DEF c
<1>3. ~c.ok \/ c.at \in i + 1 .. n
  BY <1>2, OutIs
<1>4. ~c.ok \/ g[c.at] = h[c.at]
  BY <1>1, <1>3
<1> QED
  BY Zenon, <1>4 DEF StringAt, c

\* ReadString is defined.
LEMMA StringRuns ==
  ASSUME NEW s \in Seq(Nat)
  PROVE  \E g : \A i \in 1 .. Len(s) + 1 : g[i] = StringAt(s, g, i) /\ ReadString(s, i) = g[i]
<1> DEFINE n == Len(s) + 1
           T == {i \in 1 .. n : \E g : StringRun(s, g, i)}
<1>0. n \in Nat /\ 1 \in 1 .. n
  OBVIOUS
<1>1. ASSUME NEW i \in 1 .. n, \A j \in i + 1 .. n : j \in T PROVE i \in T
  <2>1. \E g : \A k \in i + 1 .. n : g[k] = StringAt(s, g, k)
    <3>1. CASE i = n
      BY <3>1
    <3>2. CASE i # n
      <4>1. i + 1 \in T
        BY <1>1, <3>2
      <4>2. PICK g : StringRun(s, g, i + 1)
        BY <4>1
      <4>3. \A k \in i + 1 .. n : g[k] = StringAt(s, g, k)
        BY <4>2 DEF StringRun
      <4> QED
        BY <4>3
    <3> QED
      BY <3>1, <3>2
  <2>2. PICK g : \A k \in i + 1 .. n : g[k] = StringAt(s, g, k)
    BY <2>1
  <2> DEFINE h == [k \in i .. n |-> IF k = i THEN StringAt(s, g, i) ELSE g[k]]
  <2>3. \A k \in i + 1 .. n : g[k] = h[k]
    OBVIOUS
  <2>4. ASSUME NEW k \in i .. n PROVE h[k] = StringAt(s, h, k)
    <3>1. h[k] = StringAt(s, g, k)
      BY <2>2
    <3>2. k \in 1 .. Len(s) + 1 /\ \A j \in k + 1 .. Len(s) + 1 : j \in i + 1 .. n
      OBVIOUS
    <3> HIDE DEF h
    <3>3. \A j \in k + 1 .. Len(s) + 1 : g[j] = h[j]
      BY <2>3, <3>2
    <3> QED
      BY <3>1, <3>2, <3>3, StringLocal
  <2>5. h = [k \in i .. n |-> h[k]]
    OBVIOUS
  <2> HIDE DEF h
  <2>6. StringRun(s, h, i)
    BY <2>4, <2>5 DEF StringRun
  <2> QED
    BY <2>6
<1>2. T = 1 .. n
  <2>1. T \in SUBSET (1 .. n)
    OBVIOUS
  <2> HIDE DEF T, n
  <2> QED
    BY <1>0, <1>1, <2>1, FromTheEnd
<1>3. \E g : StringRun(s, g, 1)
  BY <1>0, <1>2
<1> DEFINE c == CHOOSE g : StringRun(s, g, 1)
<1>4. ASSUME NEW i PROVE ReadString(s, i) = c[i]
  BY Zenon DEF ReadString, StringRun, StringAt, Followed
<1>5. StringRun(s, c, 1)
  BY <1>3
<1> HIDE DEF c
<1>6. \A i \in 1 .. Len(s) + 1 : c[i] = StringAt(s, c, i)
  BY <1>5 DEF StringRun
<1> QED
  BY <1>4, <1>6

\* A string and a later position are what string reads, or nothing.
LEMMA StringOut ==
  ASSUME NEW s \in Seq(Nat), NEW n, n = Len(s) + 1
  PROVE  \A i \in 1 .. n : ReadString(s, i) \in Out(Seq(Nat), i, n)
<1>1. PICK g : \A i \in 1 .. Len(s) + 1 : g[i] = StringAt(s, g, i) /\ ReadString(s, i) = g[i]
  BY StringRuns
<1> DEFINE T == {i \in 1 .. n : g[i] \in Out(Seq(Nat), i, n)}
<1>2. n \in Nat
  OBVIOUS
<1>3. ASSUME NEW i \in 1 .. n, \A j \in i + 1 .. n : j \in T PROVE i \in T
  <2> DEFINE c == Char(s, i)
             rest == g[c.at]
  <2>1. i \in Nat \ {0} /\ i + 1 \in Nat
    OBVIOUS
  <2>2. c \in Out(Nat, i, n)
    BY <2>1, CharOut
  <2>3. g[i] = StringAt(s, g, i)
    BY <1>1
  <2>4. g[i] = IF Peek(s, i) = Quote THEN Got(<<>>, i + 1)
               ELSE IF ~c.ok THEN Nothing
               ELSE IF rest.ok THEN Got(<<c.value>> \o rest.value, rest.at) ELSE Nothing
    BY Zenon, <2>3 DEF StringAt
  <2> HIDE DEF c, rest
  <2>a. i \in Int
    OBVIOUS
  <2>5. CASE Peek(s, i) = Quote
    <3>1. Peek(s, i) >= 0
      BY <2>5 DEF Quote
    <3>2. i \in 1 .. Len(s)
      BY <3>1, <2>a, PeekIs
    <3>3. i + 1 \in i + 1 .. n /\ <<>> \in Seq(Nat)
      BY <3>2
    <3>4. g[i] = Got(<<>>, i + 1)
      BY <2>4, <2>5
    <3>5. Got(<<>>, i + 1) \in Out(Seq(Nat), i, n)
      BY <3>3, OutGot
    <3> QED
      BY <3>4, <3>5
  <2>6. CASE Peek(s, i) # Quote /\ c.ok /\ rest.ok
    <3>1. c.value \in Nat /\ c.at \in i + 1 .. n
      BY <2>2, <2>6, OutIs
    <3>2. c.at \in T
      BY <1>3, <3>1
    <3>3. rest \in Out(Seq(Nat), c.at, n)
      BY <3>2 DEF rest
    <3>4. rest.value \in Seq(Nat) /\ rest.at \in c.at + 1 .. n
      BY <3>3, <2>6, OutIs
    <3>5. <<c.value>> \o rest.value \in Seq(Nat)
      BY <3>1, <3>4
    <3>6. rest.at \in i + 1 .. n
      BY <3>1, <3>4, <1>2
    <3>7. g[i] = Got(<<c.value>> \o rest.value, rest.at)
      BY Zenon, <2>4, <2>6
    <3>8. Got(<<c.value>> \o rest.value, rest.at) \in Out(Seq(Nat), i, n)
      BY <3>5, <3>6, OutGot
    <3> QED
      BY <3>7, <3>8
  <2>7. CASE Peek(s, i) # Quote /\ ~ (c.ok /\ rest.ok)
    <3>1. g[i] = Nothing
      BY Zenon, <2>4, <2>7
    <3> QED
      BY <3>1, OutNothing
  <2> QED
    BY <2>5, <2>6, <2>7
<1>4. T = 1 .. n
  <2>1. T \in SUBSET (1 .. n)
    OBVIOUS
  <2> HIDE DEF T
  <2> QED
    BY <1>2, <1>3, <2>1, FromTheEnd
<1> QED
  BY <1>1, <1>4

\* Result r is value v, read up to position a.
Gives(r, v, a) == r = Got(v, a)

LEMMA GivesIs ==
  ASSUME NEW r, NEW v, NEW a, Gives(r, v, a)
  PROVE  r.ok = TRUE /\ r.value = v /\ r.at = a
  BY DEF Gives, Got

\* A quote ends a string, and a character is the first one of what is read behind it.
LEMMA StringEnds ==
  ASSUME NEW s \in Seq(Nat), NEW i \in 1 .. Len(s) + 1, Peek(s, i) = Quote
  PROVE  Gives(ReadString(s, i), <<>>, i + 1)
<1>1. PICK g : \A j \in 1 .. Len(s) + 1 : g[j] = StringAt(s, g, j) /\ ReadString(s, j) = g[j]
  BY StringRuns
<1>2. ReadString(s, i) = StringAt(s, g, i)
  BY <1>1
<1> QED
  BY Zenon, <1>2 DEF StringAt, Gives

LEMMA StringStep ==
  ASSUME NEW s \in Seq(Nat), NEW i \in 1 .. Len(s) + 1, NEW c, NEW k, Peek(s, i) # Quote,
         Gives(Char(s, i), c, k), NEW t, NEW a, Gives(ReadString(s, k), t, a)
  PROVE  Gives(ReadString(s, i), <<c>> \o t, a)
<1>1. PICK g : \A j \in 1 .. Len(s) + 1 : g[j] = StringAt(s, g, j) /\ ReadString(s, j) = g[j]
  BY StringRuns
<1>2. ReadString(s, i) = StringAt(s, g, i)
  BY <1>1
<1>3. Char(s, i).ok = TRUE /\ Char(s, i).value = c /\ Char(s, i).at = k
  BY GivesIs
<1>4. k \in 1 .. Len(s) + 1
  <2> DEFINE n == Len(s) + 1
  <2>1. i \in Nat \ {0} /\ n = Len(s) + 1 /\ n \in Nat
    OBVIOUS
  <2> HIDE DEF n
  <2>2. Char(s, i) \in Out(Nat, i, n)
    BY <2>1, CharOut
  <2>3. k \in i + 1 .. n
    BY <1>3, <2>2, OutIs
  <2> QED
    BY <2>1, <2>3
<1>5. g[k] = ReadString(s, k)
  BY <1>1, <1>4
<1>6. ReadString(s, k).ok = TRUE /\ ReadString(s, k).value = t /\ ReadString(s, k).at = a
  BY GivesIs
<1>7. g[Char(s, i).at] = ReadString(s, k)
  BY Zenon, <1>3, <1>5
<1> QED
  BY Zenon, <1>2, <1>3, <1>6, <1>7 DEF StringAt, Gives

-----------------------------------------------------------------------------
(***************************************************************************)
(* Strings: what is written for each character is read back as that        *)
(* character, and then the whole.                                          *)
(***************************************************************************)

\* Text t stands in s behind position p.
StandsAfter(s, p, t) ==
  p \in Nat /\ Len(t) \in Nat /\ p + Len(t) <= Len(s) /\ \A j \in 1 .. Len(t) : s[p + j] = t[j]

LEMMA StandsPeek ==
  ASSUME NEW s \in Seq(Nat), NEW p, NEW t, StandsAfter(s, p, t), NEW j \in 1 .. Len(t)
  PROVE  p + j \in 1 .. Len(s) /\ Peek(s, p + j) = t[j]
<1>1. p \in Nat /\ Len(t) \in Nat /\ p + Len(t) <= Len(s) /\ s[p + j] = t[j]
  BY DEF StandsAfter
<1>2. p + j \in 1 .. Len(s)
  BY <1>1
<1> QED
  BY <1>1, <1>2 DEF Peek

LEMMA StandsPeeks ==
  ASSUME NEW s \in Seq(Nat), NEW p, NEW t, StandsAfter(s, p, t)
  PROVE  \A j \in 1 .. Len(t) : p + j \in 1 .. Len(s) /\ Peek(s, p + j) = t[j]
  BY StandsPeek

LEMMA StandsJoin ==
  ASSUME NEW s \in Seq(Nat), NEW p, NEW a \in Seq(Nat), NEW b \in Seq(Nat), StandsAfter(s, p, a \o b),
         NEW m, m = Len(a), NEW l, l = p + m
  PROVE  StandsAfter(s, p, a) /\ StandsAfter(s, l, b) /\ l \in Nat
<1> DEFINE c == a \o b
           n == Len(b)
<1>1. n = Len(b) /\ c = a \o b
  OBVIOUS
<1>2. p \in Nat /\ p + Len(c) <= Len(s) /\ \A j \in 1 .. Len(c) : s[p + j] = c[j]
  BY DEF StandsAfter
<1> HIDE DEF c, n
<1>3. IsJoin(Nat, c, a, m, b, n)
  BY <1>1, JoinIs
<1>4. Len(c) = m + n /\ m \in Nat /\ n \in Nat /\ (\A i \in 1 .. m : c[i] = a[i]) /\ (\A j \in 1 .. n : c[m + j] = b[j])
  BY <1>3 DEF IsJoin
<1>a. l = p + m /\ Len(a) = m /\ Len(b) = n /\ Len(s) \in Nat
  BY <1>1
<1>5. ASSUME NEW j \in 1 .. m PROVE s[p + j] = a[j]
  <2>1. j \in 1 .. Len(c)
    BY <1>4
  <2> QED
    BY <1>2, <1>4, <2>1
<1>6. ASSUME NEW j \in 1 .. n PROVE s[l + j] = b[j]
  <2>1. m + j \in 1 .. Len(c) /\ p + (m + j) = l + j
    BY <1>2, <1>4, <1>a
  <2>2. s[p + (m + j)] = c[m + j]
    BY <1>2, <2>1
  <2> QED
    BY <1>4, <2>1, <2>2
<1>7. p + m <= Len(s) /\ l + n <= Len(s) /\ l \in Nat
  BY <1>2, <1>4, <1>a
<1>8. StandsAfter(s, p, a)
  BY <1>2, <1>4, <1>5, <1>7, <1>a DEF StandsAfter
<1>9. StandsAfter(s, l, b)
  BY <1>4, <1>6, <1>7, <1>a DEF StandsAfter
<1> QED
  BY <1>7, <1>8, <1>9

LEMMA StandsPiece ==
  ASSUME NEW s \in Seq(Nat), NEW p, NEW q \in Seq(Seq(Nat)), NEW t, StandsAfter(s, p, t), NEW ends,
         Flattened(q, t, ends), NEW k \in 1 .. Len(q)
  PROVE  StandsAfter(s, p + ends[k - 1], q[k])
<1> DEFINE n == Len(q)
           a == ends[k - 1]
           b == ends[k]
           m == Len(q[k])
<1>1. n \in Nat /\ k - 1 \in 0 .. n /\ k \in 0 .. n
  OBVIOUS
<1>2. a \in Nat /\ b \in Nat /\ b <= Len(t)
  BY <1>1, FlattenedEnds DEF Flattened
<1>3. b = a + m /\ m \in Nat /\ \A j \in 1 .. m : t[a + j] = q[k][j]
  BY DEF Flattened
<1>4. p \in Nat /\ Len(t) \in Nat /\ p + Len(t) <= Len(s) /\ Len(s) \in Nat /\ \A j \in 1 .. Len(t) : s[p + j] = t[j]
  BY DEF StandsAfter
<1> HIDE DEF a, b, m
<1> DEFINE l == p + a
<1>5. ASSUME NEW j \in 1 .. m PROVE s[l + j] = q[k][j]
  <2>1. a + j \in 1 .. Len(t) /\ p + (a + j) = l + j
    BY <1>2, <1>3, <1>4
  <2>2. s[p + (a + j)] = t[a + j]
    BY <1>4, <2>1
  <2> QED
    BY <1>3, <2>1, <2>2
<1>6. l \in Nat /\ l + m <= Len(s)
  BY <1>2, <1>3, <1>4
<1> HIDE DEF l
<1>7. StandsAfter(s, l, q[k])
  BY <1>3, <1>5, <1>6 DEF StandsAfter, m
<1> QED
  BY <1>7 DEF l, a

-----------------------------------------------------------------------------
HexSign(n) == IF n < 10 THEN 48 + n ELSE 87 + n

LEMMA HexSignIs ==
  ASSUME NEW n \in 0 .. 15
  PROVE  HexVal(HexSign(n)) = n /\ HexSign(n) \in Nat
  BY DEF HexVal, HexSign, Digits

LEMMA LowHalves ==
  ASSUME NEW c \in 0 .. 31
  PROVE  c \div 16 \in 0 .. 15 /\ c % 16 \in 0 .. 15 /\ 16 * (c \div 16) + (c % 16) = c
<1>1. c \in Byte
  BY DEF Byte
<1> QED
  BY <1>1, Halves

\* The three ways to write a character in a string.
LEMMA EscapedCharIs ==
  ASSUME NEW c \in Nat, NEW e, e = Escaped(c)
  PROVE  \/ \E d \in DOMAIN Short : e = <<92, d>> /\ Short[d] = c
         \/ c \in 0 .. 31 /\ e = <<92, 117, 48, 48, HexSign(c \div 16), HexSign(c % 16)>>
         \/ c >= 32 /\ c # 34 /\ c # 92 /\ e = <<c>>
<1> DEFINE short == {d \in DOMAIN Short : Short[d] = c}
           d0 == CHOOSE d \in short : TRUE
<1>1. e = IF short # {} THEN <<92, d0>>
          ELSE IF c < 32 THEN <<92, 117, 48, 48, HexSign(c \div 16), HexSign(c % 16)>> ELSE <<c>>
  BY Zenon DEF Escaped, Backslash, HexSign
<1>2. CASE short # {}
  <2>1. d0 \in short
    BY <1>2
  <2>2. d0 \in DOMAIN Short /\ Short[d0] = c
    BY <2>1
  <2> HIDE DEF d0, short
  <2>3. e = <<92, d0>>
    BY <1>1, <1>2
  <2> QED
    BY <2>2, <2>3
<1>3. CASE short = {}
  <2>1. c # 34 /\ c # 92
    BY <1>3, ShortIs
  <2> HIDE DEF d0, short
  <2>2. CASE c < 32
    <3>1. c \in 0 .. 31
      BY <2>2
    <3>2. e = <<92, 117, 48, 48, HexSign(c \div 16), HexSign(c % 16)>>
      BY Zenon, <1>1, <1>3, <2>2
    <3> QED
      BY <3>1, <3>2
  <2>3. CASE ~ (c < 32)
    <3>1. c >= 32
      BY <2>3
    <3>2. e = <<c>>
      BY Zenon, <1>1, <1>3, <2>3
    <3> QED
      BY <2>1, <3>1, <3>2
  <2> QED
    BY <2>2, <2>3
<1> QED
  BY <1>2, <1>3

LEMMA EscapedText ==
  ASSUME NEW c \in Nat, NEW e, e = Escaped(c)
  PROVE  e \in Seq(Nat) /\ Len(e) \in Nat /\ Len(e) # 0
<1>1. CASE \E d \in DOMAIN Short : e = <<92, d>> /\ Short[d] = c
  <2>1. PICK d \in DOMAIN Short : e = <<92, d>>
    BY <1>1
  <2>2. d \in Nat
    BY ShortIs
  <2> QED
    BY <2>1, <2>2
<1>2. CASE c \in 0 .. 31 /\ e = <<92, 117, 48, 48, HexSign(c \div 16), HexSign(c % 16)>>
  <2> DEFINE h == HexSign(c \div 16)
             l == HexSign(c % 16)
  <2>1. h \in Nat /\ l \in Nat
    BY <1>2, LowHalves, HexSignIs
  <2> HIDE DEF h, l
  <2>2. e = <<92, 117, 48, 48, h, l>>
    BY <1>2 DEF h, l
  <2> QED
    BY <2>1, <2>2
<1>3. CASE c >= 32 /\ c # 34 /\ c # 92 /\ e = <<c>>
  BY <1>3
<1> QED
  BY <1>1, <1>2, <1>3, EscapedCharIs

\* An escape that is no half of a pair.
WholeEscape(c) == ~ (c < 0) /\ c \notin 55296 .. 57343

LEMMA NoSurrogate ==
  ASSUME NEW c \in 0 .. 31
  PROVE  WholeEscape(c)
<1>1. ~ (c >= 55296) /\ ~ (c < 0)
  OBVIOUS
<1> QED
  BY SMTT(30), <1>1 DEF WholeEscape

LEMMA PlainEscape ==
  ASSUME NEW s, NEW i, NEW c, Hex4(s, i) = c, WholeEscape(c)
  PROVE  UnicodeEscape(s, i) = Got(c, i + 4)
  BY SMT DEF UnicodeEscape, Utf16, WholeEscape

\* A character that stands in s as it is written there is read back.
LEMMA CharBack ==
  ASSUME NEW s \in Seq(Nat), NEW p, NEW c \in Nat, NEW e, e = Escaped(c), StandsAfter(s, p, e)
  PROVE  Peek(s, p + 1) # Quote /\ Gives(Char(s, p + 1), c, p + Len(e) + 1)
<1>0. p \in Nat
  BY DEF StandsAfter
<1>a. Quote = 34 /\ Backslash = 92
  BY DEF Quote, Backslash
<1>p. \A j \in 1 .. Len(e) : p + j \in 1 .. Len(s) /\ Peek(s, p + j) = e[j]
  BY StandsPeeks
<1>1. CASE \E d \in DOMAIN Short : e = <<92, d>> /\ Short[d] = c
  <2>1. PICK d \in DOMAIN Short : e = <<92, d>> /\ Short[d] = c
    BY <1>1
  <2>2. Len(e) = 2 /\ e[1] = 92 /\ e[2] = d
    BY <2>1
  <2>3. Peek(s, p + 1) = 92 /\ Peek(s, p + 2) = d
    BY <1>p, <2>2
  <2>4. ~ (Peek(s, p + 1) < 32) /\ Peek(s, p + 1) = Backslash /\ Peek(s, p + 1) # Quote
    BY <1>a, <2>3
  <2>5. Char(s, p + 1) = Escape(s, (p + 1) + 1)
    BY Zenon, <2>4 DEF Char
  <2>6. (p + 1) + 1 = p + 2 /\ (p + 2) + 1 = p + 2 + 1
    BY <1>0
  <2>7. Escape(s, p + 2) = Got(Short[d], (p + 2) + 1)
    BY Zenon, <2>3 DEF Escape
  <2>8. Char(s, p + 1) = Got(c, p + Len(e) + 1)
    BY Zenon, <2>1, <2>2, <2>5, <2>6, <2>7
  <2> QED
    BY <2>4, <2>8 DEF Gives
<1>2. CASE c \in 0 .. 31 /\ e = <<92, 117, 48, 48, HexSign(c \div 16), HexSign(c % 16)>>
  <2> DEFINE x == c \div 16
             y == c % 16
             h == HexSign(x)
             l == HexSign(y)
  <2>1. x \in 0 .. 15 /\ y \in 0 .. 15 /\ 16 * x + y = c
    BY <1>2, LowHalves
  <2>2. HexVal(h) = x /\ HexVal(l) = y
    BY <2>1, HexSignIs
  <2>3. e = <<92, 117, 48, 48, h, l>>
    BY <1>2
  <2> HIDE DEF x, y, h, l
  <2>4. Len(e) = 6 /\ e[1] = 92 /\ e[2] = 117 /\ e[3] = 48 /\ e[4] = 48 /\ e[5] = h /\ e[6] = l
    BY <2>3
  <2>5. /\ Peek(s, p + 1) = 92 /\ Peek(s, p + 2) = 117 /\ Peek(s, p + 3) = 48 /\ Peek(s, p + 4) = 48
        /\ Peek(s, p + 5) = h /\ Peek(s, p + 6) = l
    BY <1>p, <2>4
  <2>6. ~ (Peek(s, p + 1) < 32) /\ Peek(s, p + 1) = Backslash /\ Peek(s, p + 1) # Quote
    BY <1>a, <2>5
  <2>7. Char(s, p + 1) = Escape(s, (p + 1) + 1)
    BY Zenon, <2>6 DEF Char
  <2>8. (p + 1) + 1 = p + 2 /\ (p + 2) + 1 = p + 3 /\ (p + 3) + 4 = p + 6 + 1
    BY <1>0
  <2>9. 117 \notin DOMAIN Short /\ 117 # 47
    BY ShortIs
  <2>10. Escape(s, p + 2) = UnicodeEscape(s, (p + 2) + 1)
    <3> DEFINE v == Peek(s, p + 2)
    <3>1. v \notin DOMAIN Short /\ v # 47 /\ v = 117
      BY <2>5, <2>9
    <3>2. Escape(s, p + 2) = IF v \in DOMAIN Short THEN Got(Short[v], (p + 2) + 1)
                             ELSE IF v = 47 THEN Got(47, (p + 2) + 1)
                             ELSE IF v = 117 THEN UnicodeEscape(s, (p + 2) + 1) ELSE Nothing
      BY Zenon DEF Escape
    <3> HIDE DEF v
    <3> QED
      BY <3>1, <3>2
  <2>11. Hex4(s, p + 3) = c
    <3> DEFINE g(k) == HexVal(Peek(s, (p + 3) + k))
    <3>1. HexVal(48) = 0
      BY DEF HexVal, Digits
    <3>2. (p + 3) + 0 = p + 3 /\ (p + 3) + 1 = p + 4 /\ (p + 3) + 2 = p + 5 /\ (p + 3) + 3 = p + 6
      BY <1>0
    <3>3. g(0) = 0 /\ g(1) = 0 /\ g(2) = x /\ g(3) = y
      BY Zenon, <2>2, <2>5, <3>1, <3>2
    <3>4. Hex4(s, p + 3) = IF \E k \in 0 .. 3 : g(k) < 0 THEN -1 ELSE 4096 * g(0) + 256 * g(1) + 16 * g(2) + g(3)
      BY SMT DEF Hex4
    <3> HIDE DEF g
    <3>5. ~ \E k \in 0 .. 3 : g(k) < 0
      <4>1. \A k \in 0 .. 3 : k = 0 \/ k = 1 \/ k = 2 \/ k = 3
        OBVIOUS
      <4> QED
        BY <2>1, <3>3, <4>1
    <3>6. Hex4(s, p + 3) = 4096 * g(0) + 256 * g(1) + 16 * g(2) + g(3)
      BY SMT, <3>4, <3>5
    <3> QED
      BY SMT, <2>1, <3>3, <3>6
  <2>12. WholeEscape(c)
    BY <1>2, NoSurrogate
  <2>13. UnicodeEscape(s, p + 3) = Got(c, (p + 3) + 4)
    BY <2>11, <2>12, PlainEscape
  <2>14. Char(s, p + 1) = Got(c, p + Len(e) + 1)
    BY Zenon, <2>4, <2>7, <2>8, <2>10, <2>13
  <2> QED
    BY Zenon, <2>6, <2>14 DEF Gives
<1>3. CASE c >= 32 /\ c # 34 /\ c # 92 /\ e = <<c>>
  <2>1. Len(e) = 1 /\ e[1] = c
    BY <1>3
  <2> DEFINE l == Len(e)
  <2>a. l \in Nat /\ 1 \in 1 .. l
    BY <2>1
  <2> HIDE DEF l
  <2>b. p + 1 \in 1 .. Len(s) /\ Peek(s, p + 1) = e[1]
    BY Zenon, <1>p, <2>a DEF l
  <2>2. p + 1 \in 1 .. Len(s) /\ Peek(s, p + 1) = c
    BY Zenon, <2>1, <2>b
  <2>3. ~ (Peek(s, p + 1) < 32) /\ Peek(s, p + 1) # Backslash /\ Peek(s, p + 1) # Quote
    BY <1>a, <1>3, <2>2
  <2>4. s[p + 1] = c
    BY <2>2 DEF Peek
  <2>5. Char(s, p + 1) = Got(s[p + 1], (p + 1) + 1)
    BY Zenon, <2>3 DEF Char
  <2>6. (p + 1) + 1 = p + Len(e) + 1
    BY <1>0, <2>1
  <2> QED
    BY Zenon, <2>3, <2>4, <2>5, <2>6 DEF Gives
<1> QED
  BY <1>1, <1>2, <1>3, EscapedCharIs

\* The rest of t from its item k on.
Rest(t, k) == SubSeq(t, k, Len(t))

LEMMA RestIs ==
  ASSUME NEW S, NEW t \in Seq(S)
  PROVE  /\ Rest(t, 1) = t /\ Rest(t, Len(t) + 1) = <<>>
         /\ \A k \in 1 .. Len(t) : <<t[k]>> \o Rest(t, k + 1) = Rest(t, k)
<1> DEFINE n == Len(t)
<1>1. n \in Nat /\ n = Len(t)
  OBVIOUS
<1> HIDE DEF n
<1>2. Rest(t, 1) = t /\ Rest(t, Len(t) + 1) = <<>>
  BY DEF Rest
<1>3. ASSUME NEW k \in 1 .. n PROVE <<t[k]>> \o Rest(t, k + 1) = Rest(t, k)
  <2> DEFINE a == <<t[k]>>
             u == k + 1
             b == SubSeq(t, u, n)
             c == a \o b
             d == SubSeq(t, k, n)
             m == n - k
  <2>1. t[k] \in S
    BY <1>1
  <2>2. a \in Seq(S) /\ Len(a) = 1 /\ a[1] = t[k]
    BY <2>1
  <2>3. u \in Nat \ {0} /\ n \in Nat /\ n <= Len(t) /\ u <= n + 1 /\ m = n - u + 1 /\ m \in Nat /\ u = k + 1
    BY <1>1
  <2>3a. k \in Nat \ {0} /\ k <= n + 1 /\ m + 1 = n - k + 1
    BY <1>1
  <2>3b. m + 1 = n - k + 1
    BY <1>1
  <2>4. c = a \o b
    OBVIOUS
  <2> HIDE DEF a, c, u, m
  <2>5. IsSlice(S, b, t, u, m)
    BY <2>3, SliceIs
  <2>6. IsSlice(S, d, t, k, m + 1)
    BY <2>3, <2>3a, SliceIs
  <2> HIDE DEF b, d
  <2>7. b \in Seq(S) /\ Len(b) = m /\ \A j \in 1 .. m : b[j] = t[u + j - 1]
    BY <2>5 DEF IsSlice
  <2>8. d \in Seq(S) /\ Len(d) = m + 1 /\ \A j \in 1 .. m + 1 : d[j] = t[k + j - 1]
    BY <2>6 DEF IsSlice
  <2>9. IsJoin(S, c, a, 1, b, m)
    BY <2>2, <2>4, <2>7, JoinIs
  <2>10. c \in Seq(S) /\ Len(c) = 1 + m /\ c[1] = a[1] /\ \A j \in 1 .. m : c[1 + j] = b[j]
    BY <2>9 DEF IsJoin
  <2>11. ASSUME NEW j \in 1 .. m + 1 PROVE c[j] = d[j]
    <3>1. CASE j = 1
      <4>1. k + 1 - 1 = k /\ 1 \in 1 .. m + 1
        BY <2>3
      <4>2. d[1] = t[k]
        BY <2>8, <4>1
      <4> QED
        BY <2>2, <2>10, <3>1, <4>2
    <3>2. CASE j # 1
      <4> DEFINE i == j - 1
      <4>1. i \in 1 .. m /\ 1 + i = j /\ u + i - 1 = k + j - 1
        BY <2>3, <3>2
      <4> HIDE DEF i
      <4>2. c[1 + i] = b[i] /\ b[i] = t[u + i - 1]
        BY <2>7, <2>10, <4>1
      <4>3. d[j] = t[k + j - 1]
        BY <2>8
      <4> QED
        BY <4>1, <4>2, <4>3
    <3> QED
      BY <3>1, <3>2
  <2>12. Len(c) = Len(d) /\ Len(c) = m + 1
    BY <2>3, <2>8, <2>10
  <2>13. c = d
    BY <2>8, <2>10, <2>11, <2>12, SeqEqual
  <2> QED
    BY <1>1, <2>13 DEF a, b, c, d, u, Rest
<1> QED
  BY <1>1, <1>2, <1>3

\* How the characters of t are written, each.
WrittenString(t) == [k \in DOMAIN t |-> Escaped(t[k])]

LEMMA WrittenTexts ==
  ASSUME NEW t \in Seq(Nat)
  PROVE  /\ WrittenString(t) \in Seq(Seq(Nat)) /\ Len(WrittenString(t)) = Len(t)
         /\ \A k \in 1 .. Len(t) : WrittenString(t)[k] = Escaped(t[k])
<1> DEFINE C == Seq(Nat)
           n == Len(t)
           q == WrittenString(t)
<1>1. n \in Nat /\ DOMAIN t = 1 .. n /\ \A k \in 1 .. n : t[k] \in Nat
  OBVIOUS
<1>2. \A k \in 1 .. n : Escaped(t[k]) \in C
  BY <1>1, EscapedText
<1>3. q = [k \in 1 .. n |-> Escaped(t[k])]
  BY <1>1 DEF WrittenString
<1> HIDE DEF C, q, n
<1>4. q \in [1 .. n -> C]
  BY <1>2, <1>3
<1>5. q \in Seq(C) /\ Len(q) = n
  BY <1>1, <1>4, FunctionIsSeq
<1> QED
  BY <1>3, <1>5 DEF C, q, n

\* Where the k-th piece starts behind l.
Place(l, ends, k) == l + ends[k - 1]

\* The characters of a string that stand in s as they are written, and then a quote, are
\* read back.
LEMMA CharsBack ==
  ASSUME NEW s \in Seq(Nat), NEW l, NEW t \in Seq(Nat), NEW body, StandsAfter(s, l, body), NEW ends,
         Flattened(WrittenString(t), body, ends), NEW z, z = l + Len(body) + 1, Peek(s, z) = Quote
  PROVE  Gives(ReadString(s, l + 1), t, z + 1)
<1> DEFINE q == WrittenString(t)
           n == Len(t)
           m == n + 1
           i(k) == Place(l, ends, k) + 1
           T == {k \in 1 .. m : Gives(ReadString(s, i(k)), Rest(t, k), z + 1)}
<1>1. q \in Seq(Seq(Nat)) /\ Len(q) = n /\ \A k \in 1 .. n : q[k] = Escaped(t[k])
  BY WrittenTexts
<1>2. n \in Nat /\ m \in Nat /\ m = n + 1 /\ \A k \in 1 .. n : t[k] \in Nat
  OBVIOUS
<1>3. l \in Nat /\ Len(body) \in Nat
  BY DEF StandsAfter
<1>4. ends \in [0 .. n -> Nat] /\ ends[0] = 0 /\ ends[n] = Len(body) /\ \A k \in 1 .. n : ends[k] = ends[k - 1] + Len(q[k])
  BY <1>1 DEF Flattened
<1>5. z \in 1 .. Len(s) /\ z \in Nat
  <2>1. Peek(s, z) >= 0 /\ z \in Int
    BY <1>3 DEF Quote
  <2>2. z \in 1 .. Len(s)
    BY <2>1, PeekIs
  <2> QED
    BY <2>2
<1> HIDE DEF n, m
<1>6. ASSUME NEW k \in 1 .. n
      PROVE  /\ StandsAfter(s, Place(l, ends, k), Escaped(t[k])) /\ Place(l, ends, k) \in Nat
             /\ Place(l, ends, k) + Len(Escaped(t[k])) = Place(l, ends, k + 1)
  <2>1. k - 1 \in 0 .. n /\ (k + 1) - 1 = k
    BY <1>2
  <2>2. StandsAfter(s, l + ends[k - 1], q[k])
    BY <1>1, StandsPiece
  <2>3. ends[k] = ends[k - 1] + Len(q[k]) /\ q[k] = Escaped(t[k]) /\ ends[k - 1] \in Nat
    BY <1>1, <1>4, <2>1
  <2> DEFINE a == ends[k - 1]
             b == ends[k]
             c == Len(q[k])
  <2>4. a \in Nat /\ b = a + c /\ c \in Nat
    BY <2>2, <2>3 DEF StandsAfter
  <2> HIDE DEF a, b, c
  <2>5. l + a + c = l + b /\ l + a \in Nat
    BY <1>3, <2>4
  <2>6. Place(l, ends, k) = l + a /\ Place(l, ends, k + 1) = l + b
    BY Zenon, <2>1 DEF Place, a, b
  <2> QED
    BY Zenon, <2>2, <2>3, <2>5, <2>6 DEF a, c
<1>7. ASSUME NEW k \in 1 .. m, \A j \in k + 1 .. m : j \in T PROVE k \in T
  <2>1. CASE k = m
    <3>1. k - 1 = n
      BY <1>2, <2>1
    <3>2. i(k) = z
      BY <1>3, <1>4, <3>1 DEF Place
    <3>3. z \in 1 .. Len(s) + 1
      BY <1>5
    <3>4. Gives(ReadString(s, z), <<>>, z + 1)
      BY <3>3, StringEnds
    <3>5. Rest(t, k) = <<>>
      BY <1>2, <2>1, RestIs DEF n
    <3> HIDE DEF i
    <3> QED
      BY <3>2, <3>4, <3>5
  <2>2. CASE k # m
    <3> DEFINE p == Place(l, ends, k)
               x == i(k)
               y == i(k + 1)
               e == Escaped(t[k])
               c == t[k]
    <3>1. k \in 1 .. n /\ k + 1 \in k + 1 .. m /\ k + 1 \in 1 .. m
      BY <1>2, <2>2
    <3>2. k + 1 \in T
      BY <1>7, <3>1
    <3>3. Gives(ReadString(s, y), Rest(t, k + 1), z + 1)
      BY <3>2
    <3>4. StandsAfter(s, p, e) /\ p \in Nat /\ y = p + Len(e) + 1
      BY <1>6, <3>1
    <3>5. x = p + 1 /\ c \in Nat /\ e = Escaped(c)
      BY <1>2, <3>1
    <3> HIDE DEF p, x, y, e, c
    <3>6. Peek(s, p + 1) # Quote /\ Gives(Char(s, p + 1), c, p + Len(e) + 1)
      BY <3>4, <3>5, CharBack
    <3>7. x \in 1 .. Len(s) + 1
      <4>1. Len(e) \in Nat /\ p + Len(e) <= Len(s) /\ Len(s) \in Nat
        BY <3>4 DEF StandsAfter
      <4> QED
        BY <3>4, <3>5, <4>1
    <3>8. Peek(s, x) # Quote /\ Gives(Char(s, x), c, y)
      BY Zenon, <3>4, <3>5, <3>6
    <3>9. Gives(ReadString(s, x), <<c>> \o Rest(t, k + 1), z + 1)
      BY <3>3, <3>7, <3>8, StringStep
    <3>10. <<c>> \o Rest(t, k + 1) = Rest(t, k)
      BY <3>1, RestIs DEF n, c
    <3>11. Gives(ReadString(s, x), Rest(t, k), z + 1)
      BY Zenon, <3>9, <3>10
    <3> QED
      BY <3>11 DEF x
  <2> QED
    BY <2>1, <2>2
<1>8. T = 1 .. m
  <2>1. T \in SUBSET (1 .. m)
    OBVIOUS
  <2> HIDE DEF T
  <2> QED
    BY <1>2, <1>7, <2>1, FromTheEnd
<1>9. 1 \in T
  BY <1>2, <1>8
<1>10. Gives(ReadString(s, i(1)), Rest(t, 1), z + 1)
  BY <1>9
<1>11. i(1) = l + 1 /\ Rest(t, 1) = t
  <2>1. i(1) = l + 1
    BY <1>3, <1>4 DEF Place
  <2>2. Rest(t, 1) = t
    BY RestIs
  <2> QED
    BY <2>1, <2>2
<1> HIDE DEF i
<1> QED
  BY Zenon, <1>10, <1>11

\* A string that stands in s as it is written is read back.
LEMMA StringBack ==
  ASSUME NEW t \in Seq(Nat), NEW w, w = WriteString(t)
  PROVE  /\ w \in Seq(Nat) /\ Len(w) # 0 /\ w[1] = Quote
         /\ \A s \in Seq(Nat), p \in Nat : StandsAfter(s, p, w) =>
              Peek(s, p + 1) = Quote /\ Gives(ReadString(s, p + 2), t, p + Len(w) + 1)
<1> DEFINE q == WrittenString(t)
           body == FlattenSeq(q)
           one == <<Quote>>
           a == one \o body
           m == Len(body)
<1>1. w = a \o one
  BY Zenon DEF WriteString, WrittenString
<1>2. q \in Seq(Seq(Nat))
  BY WrittenTexts
<1>3. body \in Seq(Nat) /\ \E ends : Flattened(q, body, ends)
  BY <1>2, FlattenIs
<1>4. one \in Seq(Nat) /\ Len(one) = 1 /\ one[1] = Quote
  BY DEF Quote
<1>5. m \in Nat /\ m = Len(body) /\ a = one \o body
  BY <1>3
<1> HIDE DEF body, one, a, m, q
<1>6. IsJoin(Nat, a, one, 1, body, m)
  BY <1>3, <1>4, <1>5, JoinIs
<1>7. a \in Seq(Nat) /\ Len(a) = 1 + m /\ a[1] = one[1]
  BY <1>6 DEF IsJoin
<1> DEFINE n == 1 + m
<1>n. n = 1 + m
  OBVIOUS
<1> HIDE DEF n
<1>8. IsJoin(Nat, w, a, n, one, 1)
  BY <1>1, <1>4, <1>7, <1>n, JoinIs
<1>9. w \in Seq(Nat) /\ Len(w) = n + 1 /\ w[1] = a[1]
  <2>1. 1 \in 1 .. n
    BY <1>5, <1>n
  <2> QED
    BY <1>8, <2>1 DEF IsJoin
<1>10. Len(w) # 0 /\ w[1] = Quote
  BY <1>4, <1>5, <1>7, <1>9, <1>n
<1>11. ASSUME NEW s \in Seq(Nat), NEW p \in Nat, StandsAfter(s, p, w)
       PROVE  Peek(s, p + 1) = Quote /\ Gives(ReadString(s, p + 2), t, p + Len(w) + 1)
  <2> DEFINE z == p + n
             l == p + 1
  <2>1. StandsAfter(s, p, a \o one)
    BY <1>1, <1>11
  <2>2. StandsAfter(s, p, a) /\ StandsAfter(s, z, one) /\ z \in Nat
    BY <1>4, <1>7, <1>n, <2>1, StandsJoin
  <2>3. StandsAfter(s, p, one \o body)
    BY <1>5, <2>2
  <2>4. StandsAfter(s, l, body) /\ StandsAfter(s, p, one)
    BY <1>3, <1>4, <2>3, StandsJoin
  <2>5. Peek(s, p + 1) = Quote /\ Peek(s, z + 1) = Quote
    <3>1. 1 \in 1 .. Len(one)
      BY <1>4
    <3> HIDE DEF z, l
    <3>a. \A j \in 1 .. Len(one) : p + j \in 1 .. Len(s) /\ Peek(s, p + j) = one[j]
      BY <2>4, StandsPeeks
    <3>b. \A j \in 1 .. Len(one) : z + j \in 1 .. Len(s) /\ Peek(s, z + j) = one[j]
      BY <2>2, StandsPeeks
    <3>2. Peek(s, p + 1) = one[1]
      BY Zenon, <3>1, <3>a
    <3>3. Peek(s, z + 1) = one[1]
      BY Zenon, <3>1, <3>b
    <3> QED
      BY Zenon, <1>4, <3>2, <3>3
  <2>6. z + 1 = l + Len(body) + 1 /\ z + 1 + 1 = p + Len(w) + 1 /\ l + 1 = p + 2
    BY <1>5, <1>9, <1>n
  <2> DEFINE y == z + 1
  <2>7. y = l + Len(body) + 1 /\ Peek(s, y) = Quote
    BY <2>5, <2>6
  <2>8. y + 1 = p + Len(w) + 1 /\ l + 1 = p + 2
    BY <2>6
  <2> HIDE DEF y, z, l
  <2>9. PICK ends : Flattened(q, body, ends)
    BY <1>3
  <2>10. Gives(ReadString(s, l + 1), t, y + 1)
    BY <2>4, <2>7, <2>9, CharsBack DEF q
  <2> QED
    BY Zenon, <2>5, <2>8, <2>10
<1> QED
  BY <1>9, <1>10, <1>11

-----------------------------------------------------------------------------
(***************************************************************************)
(* Numbers.                                                                *)
(***************************************************************************)

\* What the first n of the digits d stand for.
DecimalRun(d, g, n) == g = [k \in 0 .. n |-> IF k = 0 THEN 0 ELSE 10 * g[k - 1] + d[k] - 48]

DecimalNext(d, g, k) == IF k = 0 THEN 0 ELSE 10 * g[k - 1] + d[k] - 48

LEMMA DecimalRuns ==
  ASSUME NEW d \in Seq(Nat)
  PROVE  \E g : (\A k \in 0 .. Len(d) : g[k] = DecimalNext(d, g, k)) /\ Decimal(d) = g[Len(d)]
<1> DEFINE T == {n \in Nat : \E g : DecimalRun(d, g, n)}
<1>1. 0 \in T
  <2> DEFINE g == [k \in 0 .. 0 |-> 0]
  <2>1. DecimalRun(d, g, 0)
    BY DEF DecimalRun
  <2> QED
    BY <2>1
<1>2. ASSUME NEW n \in T PROVE n + 1 \in T
  <2>0. n \in Nat
    OBVIOUS
  <2>1. PICK g : DecimalRun(d, g, n)
    OBVIOUS
  <2>2. \A k \in 0 .. n : g[k] = DecimalNext(d, g, k)
    BY <2>1 DEF DecimalRun, DecimalNext
  <2> DEFINE h == [k \in 0 .. n + 1 |-> IF k <= n THEN g[k] ELSE DecimalNext(d, g, k)]
  <2>3. ASSUME NEW k \in 0 .. n + 1 PROVE h[k] = DecimalNext(d, h, k)
    <3>1. h[k] = DecimalNext(d, g, k)
      BY <2>0, <2>2
    <3>2. k = 0 \/ h[k - 1] = g[k - 1]
      <4>1. k = 0 \/ (k - 1 \in 0 .. n + 1 /\ k - 1 <= n)
        BY <2>0
      <4> QED
        BY <4>1
    <3> HIDE DEF h
    <3> QED
      BY Zenon, <3>1, <3>2 DEF DecimalNext
  <2>4. h = [k \in 0 .. n + 1 |-> h[k]]
    OBVIOUS
  <2> HIDE DEF h
  <2>5. h = [k \in 0 .. n + 1 |-> DecimalNext(d, h, k)]
    BY <2>3, <2>4
  <2>6. DecimalRun(d, h, n + 1)
    BY Zenon, <2>5 DEF DecimalRun, DecimalNext
  <2> QED
    BY <2>0, <2>6
<1>3. T = Nat
  <2>1. T \in SUBSET Nat
    OBVIOUS
  <2> HIDE DEF T
  <2> QED
    BY <1>1, <1>2, <2>1, NatSet
<1>4. Len(d) \in Nat
  OBVIOUS
<1>5. \E g : DecimalRun(d, g, Len(d))
  BY <1>3, <1>4
<1> DEFINE c == CHOOSE g : DecimalRun(d, g, Len(d))
<1>6. Decimal(d) = c[Len(d)]
  BY Zenon DEF Decimal, DecimalRun
<1>7. DecimalRun(d, c, Len(d))
  BY <1>5
<1> HIDE DEF c
<1>8. \A k \in 0 .. Len(d) : c[k] = DecimalNext(d, c, k)
  BY <1>7 DEF DecimalRun, DecimalNext
<1> QED
  BY <1>6, <1>8

LEMMA DecimalInt ==
  ASSUME NEW d \in Seq(Nat)
  PROVE  Decimal(d) \in Int
<1>1. PICK g : (\A k \in 0 .. Len(d) : g[k] = DecimalNext(d, g, k)) /\ Decimal(d) = g[Len(d)]
  BY DecimalRuns
<1> DEFINE n == Len(d)
           T == {k \in Nat : k <= n => g[k] \in Int}
<1>2. n \in Nat /\ \A k \in 1 .. n : d[k] \in Nat
  OBVIOUS
<1>3. 0 \in T
  <2>1. 0 \in 0 .. n
    BY <1>2
  <2>2. g[0] = 0
    BY <1>1, <2>1 DEF DecimalNext
  <2> QED
    BY <2>2
<1>4. ASSUME NEW k \in T PROVE k + 1 \in T
  <2>1. CASE k + 1 <= n
    <3> DEFINE j == k + 1
    <3>1. k \in Nat /\ j \in 0 .. n /\ j \in 1 .. n /\ j # 0 /\ j - 1 = k /\ g[k] \in Int
      BY <1>2, <2>1
    <3> HIDE DEF j
    <3>2. g[j] = 10 * g[k] + d[j] - 48
      BY <1>1, <3>1 DEF DecimalNext
    <3>3. d[j] \in Nat
      BY <1>2, <3>1
    <3>4. g[j] \in Int
      BY <3>1, <3>2, <3>3
    <3> QED
      BY <3>4 DEF j
  <2>2. CASE ~ (k + 1 <= n)
    BY <2>2
  <2> QED
    BY <2>1, <2>2
<1>5. T = Nat
  <2>1. T \in SUBSET Nat
    OBVIOUS
  <2> HIDE DEF T
  <2> QED
    BY <1>3, <1>4, <2>1, NatSet
<1>6. n \in T
  BY <1>2, <1>5
<1> QED
  BY <1>1, <1>6

LEMMA DecimalOne ==
  ASSUME NEW x \in Nat
  PROVE  Decimal(<<x>>) = x - 48
<1> DEFINE d == <<x>>
<1>1. d \in Seq(Nat) /\ Len(d) = 1 /\ d[1] = x
  OBVIOUS
<1> HIDE DEF d
<1>2. PICK g : (\A k \in 0 .. Len(d) : g[k] = DecimalNext(d, g, k)) /\ Decimal(d) = g[Len(d)]
  BY <1>1, DecimalRuns
<1>3. g[0] = DecimalNext(d, g, 0) /\ g[1] = DecimalNext(d, g, 1) /\ Decimal(d) = g[1]
  BY <1>1, <1>2
<1>4. g[0] = 0
  BY <1>3 DEF DecimalNext
<1>5. g[1] = 10 * g[0] + d[1] - 48
  BY <1>3 DEF DecimalNext
<1>6. Decimal(d) = x - 48
  BY <1>1, <1>3, <1>4, <1>5
<1> QED
  BY <1>6 DEF d

LEMMA DecimalAppend ==
  ASSUME NEW d \in Seq(Nat), NEW x \in Nat, NEW e, e = Append(d, x)
  PROVE  Decimal(e) = 10 * Decimal(d) + x - 48
<1> DEFINE n == Len(d)
<1>1. n \in Nat /\ n = Len(d) /\ e \in Seq(Nat) /\ Len(e) = n + 1 /\ e[n + 1] = x /\ \A k \in 1 .. n : e[k] = d[k]
  OBVIOUS
<1> HIDE DEF n
<1>2. PICK g : (\A k \in 0 .. Len(d) : g[k] = DecimalNext(d, g, k)) /\ Decimal(d) = g[Len(d)]
  BY DecimalRuns
<1>3. PICK h : (\A k \in 0 .. Len(e) : h[k] = DecimalNext(e, h, k)) /\ Decimal(e) = h[Len(e)]
  BY <1>1, DecimalRuns
<1>g. \A k \in 0 .. n : g[k] = DecimalNext(d, g, k)
  BY <1>1, <1>2
<1>h. \A k \in 0 .. n + 1 : h[k] = DecimalNext(e, h, k)
  BY <1>1, <1>3
<1> DEFINE T == {k \in Nat : k <= n => g[k] = h[k]}
<1>4. 0 \in T
  <2>1. 0 \in 0 .. n /\ 0 \in 0 .. n + 1
    BY <1>1
  <2>2. g[0] = 0 /\ h[0] = 0
    BY <1>g, <1>h, <2>1 DEF DecimalNext
  <2> QED
    BY <2>2
<1>5. ASSUME NEW k \in T PROVE k + 1 \in T
  <2>1. CASE k + 1 <= n
    <3> DEFINE j == k + 1
    <3>1. k \in Nat /\ j \in 0 .. n /\ j \in 1 .. n /\ j \in 0 .. n + 1 /\ j # 0 /\ j - 1 = k /\ g[k] = h[k]
      BY <1>1, <2>1
    <3> HIDE DEF j
    <3>2. g[j] = 10 * g[k] + d[j] - 48
      BY <1>g, <3>1 DEF DecimalNext
    <3>3. h[j] = 10 * h[k] + e[j] - 48
      BY <1>h, <3>1 DEF DecimalNext
    <3>4. d[j] = e[j]
      BY <1>1, <3>1
    <3>5. g[j] = h[j]
      BY Zenon, <3>1, <3>2, <3>3, <3>4
    <3> QED
      BY <3>5 DEF j
  <2>2. CASE ~ (k + 1 <= n)
    BY <2>2
  <2> QED
    BY <2>1, <2>2
<1>6. T = Nat
  <2>1. T \in SUBSET Nat
    OBVIOUS
  <2> HIDE DEF T
  <2> QED
    BY <1>4, <1>5, <2>1, NatSet
<1>7. g[n] = h[n]
  <2>1. n \in T
    BY <1>1, <1>6
  <2> QED
    BY <1>1, <2>1
<1> DEFINE m == n + 1
<1>8. m \in 0 .. n + 1 /\ m # 0 /\ m - 1 = n /\ e[m] = x /\ Decimal(e) = h[m]
  BY <1>1, <1>3
<1> HIDE DEF m, T
<1>9. h[m] = 10 * h[n] + e[m] - 48
  BY <1>h, <1>8 DEF DecimalNext
<1>10. Decimal(d) = g[n]
  BY <1>1, <1>2
<1> QED
  BY Zenon, <1>7, <1>8, <1>9, <1>10

-----------------------------------------------------------------------------
\* Text t writes the number m.
Writes(t, m) ==
  t \in Seq(Digits) /\ Len(t) # 0 /\ Decimal(t) = m /\ (m # 0 => t[1] # 48) /\ (m = 0 => Len(t) = 1)

NumberNext(g, m) == IF m < 10 THEN <<48 + m>> ELSE Append(g[m \div 10], 48 + (m % 10))
NumberRun(g, n) == g = [m \in 0 .. n |-> NumberNext(g, m)]

LEMMA Tenth ==
  ASSUME NEW m \in Nat, ~ (m < 10)
  PROVE  m \div 10 \in 1 .. m - 1 /\ m % 10 \in 0 .. 9 /\ 10 * (m \div 10) + (m % 10) = m
<1>1. m % 10 \in 0 .. 9
  OBVIOUS
<1>2. 10 * (m \div 10) + (m % 10) = m
  OBVIOUS
<1>3. m \div 10 \in 1 .. m - 1
  OBVIOUS
<1> QED
  BY <1>1, <1>2, <1>3

LEMMA NumberRuns ==
  ASSUME NEW n \in Nat
  PROVE  \E g : NumberRun(g, n)
<1> DEFINE T == {k \in Nat : \E g : NumberRun(g, k)}
<1>1. 0 \in T
  <2> DEFINE g == [k \in 0 .. 0 |-> <<48 + k>>]
  <2>1. \A k \in 0 .. 0 : NumberNext(g, k) = <<48 + k>>
    BY DEF NumberNext
  <2>2. NumberRun(g, 0)
    BY <2>1 DEF NumberRun
  <2> QED
    BY <2>2
<1>2. ASSUME NEW k \in T PROVE k + 1 \in T
  <2>0. k \in Nat
    OBVIOUS
  <2>1. PICK g : NumberRun(g, k)
    OBVIOUS
  <2>2. \A m \in 0 .. k : g[m] = NumberNext(g, m)
    BY <2>1 DEF NumberRun
  <2> DEFINE h == [m \in 0 .. k + 1 |-> IF m <= k THEN g[m] ELSE NumberNext(g, m)]
  <2>3. ASSUME NEW m \in 0 .. k + 1 PROVE h[m] = NumberNext(h, m)
    <3>1. h[m] = NumberNext(g, m)
      BY <2>0, <2>2
    <3>2. m < 10 \/ h[m \div 10] = g[m \div 10]
      <4> DEFINE x == m \div 10
      <4>1. m \in Nat /\ m <= k + 1
        BY <2>0
      <4>2. m < 10 \/ x \in 1 .. m - 1
        BY <4>1, Tenth
      <4> HIDE DEF x
      <4>3. m < 10 \/ (x \in 0 .. k + 1 /\ x <= k)
        BY <2>0, <4>1, <4>2
      <4> QED
        BY <4>3 DEF x
    <3> HIDE DEF h
    <3> QED
      BY Zenon, <3>1, <3>2 DEF NumberNext
  <2>4. h = [m \in 0 .. k + 1 |-> h[m]]
    OBVIOUS
  <2> HIDE DEF h
  <2>5. NumberRun(h, k + 1)
    BY <2>3, <2>4 DEF NumberRun
  <2> QED
    BY <2>0, <2>5
<1>3. T = Nat
  <2>1. T \in SUBSET Nat
    OBVIOUS
  <2> HIDE DEF T
  <2> QED
    BY <1>1, <1>2, <2>1, NatSet
<1> QED
  BY <1>3

LEMMA DigitText ==
  ASSUME NEW t \in Seq(Digits)
  PROVE  t \in Seq(Nat) /\ \A k \in 1 .. Len(t) : t[k] \in Digits
<1>1. \A k \in 1 .. Len(t) : t[k] \in Digits
  OBVIOUS
<1>2. ASSUME NEW c \in Digits PROVE c \in Nat
  BY DEF Digits
<1>3. \A k \in 1 .. Len(t) : t[k] \in Nat
  BY <1>1, <1>2
<1> QED
  BY <1>1, <1>3

LEMMA NumberStep ==
  ASSUME NEW g, NEW m \in Nat, g[m] = NumberNext(g, m), \A k \in 0 .. m - 1 : Writes(g[k], k)
  PROVE  Writes(g[m], m)
<1>d. Digits = 48 .. 57
  BY DEF Digits
<1>1. CASE m < 10
  <2> DEFINE x == 48 + m
  <2>1. g[m] = <<x>>
    BY Zenon, <1>1 DEF NumberNext
  <2>2. x \in Digits /\ x \in Nat /\ x - 48 = m
    BY <1>1, <1>d
  <2> HIDE DEF x
  <2>3. Decimal(<<x>>) = m
    BY <2>2, DecimalOne
  <2>4. <<x>> \in Seq(Digits) /\ Len(<<x>>) = 1 /\ <<x>>[1] = x
    BY <2>2
  <2>5. m # 0 => x # 48
    BY <2>2
  <2> QED
    BY <2>1, <2>3, <2>4, <2>5 DEF Writes
<1>2. CASE ~ (m < 10)
  <2> DEFINE q == m \div 10
             r == m % 10
             x == 48 + r
             d == g[q]
             e == Append(d, x)
  <2>1. q \in 1 .. m - 1 /\ r \in 0 .. 9 /\ 10 * q + r = m
    BY <1>2, Tenth
  <2>2. g[m] = e
    BY Zenon, <1>2 DEF NumberNext
  <2>3. x \in Digits /\ x \in Nat /\ x = 48 + r
    BY <1>d, <2>1
  <2> HIDE DEF q, r, x
  <2>4. q \in 0 .. m - 1 /\ q # 0 /\ m # 0 /\ q \in Nat /\ r \in Nat
    BY <2>1
  <2>5. Writes(d, q)
    BY <2>4
  <2> HIDE DEF d
  <2>6. d \in Seq(Digits) /\ Len(d) # 0 /\ Decimal(d) = q /\ d[1] # 48
    BY <2>4, <2>5 DEF Writes
  <2>7. d \in Seq(Nat)
    BY Zenon, <2>6, DigitText
  <2>8. Decimal(e) = 10 * q + x - 48
    BY <2>3, <2>6, <2>7, DecimalAppend
  <2>10. e \in Seq(Digits) /\ Len(e) # 0 /\ e[1] = d[1]
    BY <2>3, <2>6
  <2> HIDE DEF e
  <2>9. Decimal(e) = m
    BY SMT, <2>1, <2>3, <2>4, <2>8
  <2> QED
    BY <2>2, <2>4, <2>6, <2>9, <2>10 DEF Writes
<1> QED
  BY <1>1, <1>2

\* format_number writes an integer as its digits, behind a minus sign if it is negative.
LEMMA WriteNumberIs ==
  ASSUME NEW x \in Int
  PROVE  /\ ~ (x < 0) => Writes(WriteNumber(x), x)
         /\ x < 0 => \E t : Writes(t, -x) /\ WriteNumber(x) = <<Minus>> \o t
<1> DEFINE size == IF x < 0 THEN -x ELSE x
           g == CHOOSE f : NumberRun(f, size)
<1>1. size \in Nat
  OBVIOUS
<1>2. WriteNumber(x) = IF x < 0 THEN <<Minus>> \o g[size] ELSE g[size]
  BY Zenon DEF WriteNumber, NumberRun, NumberNext
<1>3. NumberRun(g, size)
  BY <1>1, NumberRuns
<1>4. (~ (x < 0) => size = x) /\ (x < 0 => size = -x)
  OBVIOUS
<1> HIDE DEF g, size
<1>5. \A m \in 0 .. size : g[m] = NumberNext(g, m)
  BY <1>3 DEF NumberRun
<1> DEFINE T == {n \in Nat : n <= size => \A k \in 0 .. n : Writes(g[k], k)}
<1>6. 0 \in T
  <2>1. \A k \in 0 .. 0 - 1 : Writes(g[k], k)
    OBVIOUS
  <2>2. 0 \in Nat /\ g[0] = NumberNext(g, 0)
    BY <1>1, <1>5
  <2>3. Writes(g[0], 0)
    BY <2>1, <2>2, NumberStep
  <2>4. \A k \in 0 .. 0 : k = 0
    OBVIOUS
  <2> QED
    BY <2>3, <2>4
<1>7. ASSUME NEW n \in T PROVE n + 1 \in T
  <2>1. CASE n + 1 <= size
    <3> DEFINE m == n + 1
    <3>1. m \in Nat /\ m \in 0 .. size /\ m - 1 = n /\ n \in Nat /\ \A k \in 0 .. n : Writes(g[k], k)
      BY <1>1, <2>1
    <3> HIDE DEF m
    <3>2. g[m] = NumberNext(g, m) /\ \A k \in 0 .. m - 1 : Writes(g[k], k)
      BY <1>5, <3>1
    <3>3. Writes(g[m], m)
      BY <3>1, <3>2, NumberStep
    <3>4. \A k \in 0 .. m : k = m \/ k \in 0 .. n
      BY <3>1
    <3>5. \A k \in 0 .. m : Writes(g[k], k)
      BY <3>1, <3>3, <3>4
    <3> QED
      BY <3>1, <3>5 DEF m
  <2>2. CASE ~ (n + 1 <= size)
    BY <2>2
  <2> QED
    BY <2>1, <2>2
<1>8. T = Nat
  <2>1. T \in SUBSET Nat
    OBVIOUS
  <2> HIDE DEF T
  <2> QED
    BY <1>6, <1>7, <2>1, NatSet
<1>9. Writes(g[size], size)
  <2>1. size \in T /\ size \in 0 .. size
    BY <1>1, <1>8
  <2> QED
    BY <1>1, <2>1
<1> HIDE DEF T
<1>10. CASE x < 0
  <2>1. Writes(g[size], -x) /\ WriteNumber(x) = <<Minus>> \o g[size]
    BY Zenon, <1>2, <1>4, <1>9, <1>10
  <2> QED
    BY <1>10, <2>1
<1>11. CASE ~ (x < 0)
  BY Zenon, <1>2, <1>4, <1>9, <1>11
<1> QED
  BY <1>10, <1>11

\* The greatest of a set of numbers up to N is one of them, and none is greater.
LEMMA MaxIsMost ==
  ASSUME NEW N \in Nat, NEW S \in SUBSET (0 .. N), S # {}
  PROVE  Max(S) \in S
<1> DEFINE T == {N - j : j \in S}
           u == Min(T)
<1>1. T \in SUBSET Nat /\ T # {}
  <2>1. ASSUME NEW j \in S PROVE N - j \in Nat
    OBVIOUS
  <2>2. T # {}
    OBVIOUS
  <2>3. \A y \in T : y \in Nat
    BY <2>1
  <2> QED
    BY <2>2, <2>3
<1> HIDE DEF T
<1>2. u \in T /\ \A y \in T : u <= y
  BY <1>1, MinIsLeast
<1> HIDE DEF u
<1>3. PICK m \in S : u = N - m
  BY <1>2 DEF T
<1>4. ASSUME NEW y \in S PROVE m >= y
  <2>1. N - y \in T
    BY DEF T
  <2>2. u <= N - y
    BY <1>2, <2>1
  <2>3. m \in Nat /\ y \in Nat
    OBVIOUS
  <2> QED
    BY <1>3, <2>2, <2>3
<1>5. S \in SUBSET Int
  OBVIOUS
<1>6. Max(S) = m
  BY <1>4, <1>5, MaxIs
<1> QED
  BY <1>6

\* The ends a row of digits may have that starts at from, and the one that number takes.
NumberEnds(s, from) == {j \in from .. Len(s) : \A k \in from .. j : s[k] \in Digits}
NumberTo(s, from) == IF Peek(s, from) = 48 THEN from ELSE Max(NumberEnds(s, from))

NumberFrom(s, i) == IF s[i] = Minus THEN i + 1 ELSE i
NumberAt(s, i, from, to) ==
  LET x == Decimal(SubSeq(s, from, to))
  IN  IF NumberEnds(s, from) = {} THEN Nothing ELSE Got(<<"number", IF from > i THEN -x ELSE x>>, to + 1)

LEMMA ReadNumberIs ==
  ASSUME NEW s, NEW i
  PROVE  ReadNumber(s, i) = NumberAt(s, i, NumberFrom(s, i), NumberTo(s, NumberFrom(s, i)))
BY Zenon DEF ReadNumber, NumberEnds, NumberTo, NumberFrom, NumberAt

Numbers == {<<"number", x>> : x \in Int}

\* An integer and a later position are what number reads, or nothing.
LEMMA NumberOut ==
  ASSUME NEW s \in Seq(Nat), NEW n, n = Len(s) + 1, NEW i \in 1 .. n
  PROVE  ReadNumber(s, i) \in Out(Numbers, i, n)
<1> DEFINE from == NumberFrom(s, i)
           to == NumberTo(s, from)
           ends == NumberEnds(s, from)
           x == Decimal(SubSeq(s, from, to))
           y == IF from > i THEN -x ELSE x
<1>1. from \in Nat \ {0} /\ (from = i \/ from = i + 1) /\ i \in Nat \ {0} /\ Len(s) \in Nat
  BY DEF NumberFrom
<1>2. ReadNumber(s, i) = NumberAt(s, i, from, to)
  BY Zenon, ReadNumberIs
<1> HIDE DEF from
<1>3. ReadNumber(s, i) = IF ends = {} THEN Nothing ELSE Got(<<"number", y>>, to + 1)
  BY Zenon, <1>2 DEF NumberAt
<1>4. CASE ends = {}
  <2>1. ReadNumber(s, i) = Nothing
    BY Zenon, <1>3, <1>4
  <2> QED
    BY <2>1, OutNothing
<1>5. CASE ends # {}
  <2>1. to \in from .. Len(s)
    <3>1. CASE Peek(s, from) = 48
      <4>1. from \in 1 .. Len(s)
        <5>1. Peek(s, from) >= 0 /\ from \in Int
          BY <1>1, <3>1
        <5> QED
          BY <5>1, PeekIs
      <4>2. to = from
        BY Zenon, <3>1 DEF NumberTo
      <4> QED
        BY <1>1, <4>1, <4>2
    <3>2. CASE Peek(s, from) # 48
      <4>1. ends \in SUBSET (0 .. Len(s)) /\ ends \subseteq from .. Len(s)
        BY <1>1 DEF NumberEnds
      <4>2. to = Max(ends)
        BY Zenon, <3>2 DEF NumberTo
      <4> HIDE DEF ends, to
      <4>3. to \in ends
        BY <1>1, <1>5, <4>1, <4>2, MaxIsMost
      <4> QED
        BY <4>1, <4>3
    <3> QED
      BY <3>1, <3>2
  <2> HIDE DEF to
  <2>2. x \in Int
    <3> DEFINE m == to - from + 1
    <3>1. m = to - from + 1 /\ to \in Nat /\ to <= Len(s) /\ from <= to + 1
      BY <1>1, <2>1
    <3> HIDE DEF m
    <3>2. IsSlice(Nat, SubSeq(s, from, to), s, from, m)
      BY <1>1, <3>1, SliceIs
    <3>3. SubSeq(s, from, to) \in Seq(Nat)
      BY Zenon, <3>2 DEF IsSlice
    <3> QED
      BY <3>3, DecimalInt
  <2> HIDE DEF x
  <2>3. y \in Int /\ to + 1 \in i + 1 .. n
    BY <1>1, <2>1, <2>2
  <2> HIDE DEF y, ends
  <2>4. <<"number", y>> \in Numbers
    BY <2>3 DEF Numbers
  <2>5. Got(<<"number", y>>, to + 1) \in Out(Numbers, i, n)
    BY <2>3, <2>4, OutGot
  <2> QED
    BY Zenon, <1>3, <1>5, <2>5
<1> QED
  BY <1>4, <1>5

\* Digits that stand behind l, with no digit behind them, are the ones that number takes.
LEMMA DigitsBack ==
  ASSUME NEW s \in Seq(Nat), NEW l, NEW t, NEW m, Writes(t, m), StandsAfter(s, l, t),
         NEW from, from = l + 1, NEW to, to = l + Len(t), Peek(s, to + 1) \notin Digits
  PROVE  NumberEnds(s, from) # {} /\ NumberTo(s, from) = to /\ Decimal(SubSeq(s, from, to)) = m
<1> DEFINE n == Len(t)
           N == Len(s)
           ends == NumberEnds(s, from)
<1>1. t \in Seq(Digits) /\ n # 0 /\ Decimal(t) = m /\ (m # 0 => t[1] # 48) /\ (m = 0 => n = 1)
  BY DEF Writes
<1>2. t \in Seq(Nat) /\ \A k \in 1 .. n : t[k] \in Digits
  BY <1>1, DigitText
<1>3. l \in Nat /\ n \in Nat /\ l + n <= N /\ \A j \in 1 .. n : s[l + j] = t[j]
  BY DEF StandsAfter
<1>4. n \in Nat \ {0} /\ N \in Nat /\ N = Len(s) /\ to = l + n /\ from = l + 1
  BY <1>1, <1>3
<1> HIDE DEF n, N
<1>5. \A k \in from .. to : s[k] = t[k - l] /\ k - l \in 1 .. n
  <2>1. ASSUME NEW k \in from .. to PROVE s[k] = t[k - l] /\ k - l \in 1 .. n
    <3> DEFINE j == k - l
    <3>1. j \in 1 .. n /\ l + j = k
      BY <1>3, <1>4
    <3> HIDE DEF j
    <3>2. s[l + j] = t[j]
      BY <1>3, <3>1
    <3> QED
      BY <3>1, <3>2 DEF j
  <2> QED
    BY <2>1
<1>6. \A k \in from .. to : s[k] \in Digits
  BY <1>2, <1>5
<1>7. from \in Nat \ {0} /\ to \in from .. N /\ to \in Nat
  BY <1>3, <1>4
<1>8. to \in ends
  BY <1>4, <1>6, <1>7 DEF NumberEnds
<1>9. ASSUME NEW j \in ends PROVE to >= j
  <2>1. j \in from .. N /\ \A k \in from .. j : s[k] \in Digits
    BY <1>4 DEF NumberEnds
  <2>2. SUFFICES ASSUME j > to PROVE FALSE
    BY <1>7, <2>1
  <2> DEFINE k == to + 1
  <2>3. k \in from .. j /\ k \in 1 .. Len(s) /\ k \in Int
    BY <1>4, <1>7, <2>1, <2>2
  <2>4. Peek(s, k) \notin Digits
    OBVIOUS
  <2> HIDE DEF k
  <2>5. Peek(s, k) = s[k] /\ s[k] \in Digits
    BY <2>1, <2>3, PeekIs
  <2> QED
    BY <2>4, <2>5
<1>10. ends \in SUBSET Int
  BY <1>7 DEF NumberEnds
<1>11. Max(ends) = to
  <2> HIDE DEF ends
  <2> QED
    BY <1>8, <1>9, <1>10, MaxIs
<1>12. NumberTo(s, from) = to
  <2>1. CASE Peek(s, from) = 48
    <3>1. from \in 1 .. Len(s) /\ from \in Int /\ from \in from .. to /\ from - l = 1
      BY <1>3, <1>4, <1>7
    <3>2. Peek(s, from) = s[from] /\ s[from] = t[from - l]
      BY <1>5, <3>1, PeekIs
    <3>3. t[1] = 48
      BY <2>1, <3>1, <3>2
    <3>4. n = 1
      BY <1>1, <3>3
    <3>5. from = to
      BY <1>4, <3>4
    <3> QED
      BY Zenon, <2>1, <3>5 DEF NumberTo
  <2>2. CASE Peek(s, from) # 48
    BY Zenon, <1>11, <2>2 DEF NumberTo
  <2> QED
    BY <2>1, <2>2
<1>13. SubSeq(s, from, to) = t
  <2> DEFINE w == SubSeq(s, from, to)
  <2>1. n = to - from + 1 /\ to <= Len(s) /\ from <= to + 1
    BY <1>3, <1>4, <1>7
  <2>2. IsSlice(Nat, w, s, from, n)
    BY <1>7, <2>1, SliceIs
  <2> HIDE DEF w
  <2>3. w \in Seq(Nat) /\ Len(w) = n /\ \A k \in 1 .. n : w[k] = s[from + k - 1]
    BY <2>2 DEF IsSlice
  <2>4. ASSUME NEW k \in 1 .. n PROVE w[k] = t[k]
    <3>1. from + k - 1 = l + k
      BY <1>3, <1>4
    <3>2. w[k] = s[l + k] /\ s[l + k] = t[k]
      BY <1>3, <2>3, <3>1
    <3> QED
      BY <3>2
  <2>5. Len(w) = Len(t)
    BY <2>3 DEF n
  <2>6. \A k \in 1 .. Len(w) : w[k] = t[k]
    BY <2>3, <2>4
  <2>7. w = t
    BY <1>2, <2>3, <2>5, <2>6, SeqEqual
  <2> QED
    BY <2>7 DEF w
<1> QED
  BY Zenon, <1>1, <1>8, <1>12, <1>13

\* An integer that stands in s as it is written, with no digit behind it, is read back.
LEMMA PlainBack ==
  ASSUME NEW s \in Seq(Nat), NEW p \in Nat, NEW x \in Int, NEW w, Writes(w, x), StandsAfter(s, p, w),
         NEW z, z = p + Len(w) + 1, Peek(s, z) \notin Digits
  PROVE  Gives(ReadNumber(s, p + 1), <<"number", x>>, z)
<1> DEFINE i == p + 1
           to == p + Len(w)
<1>1. w \in Seq(Digits) /\ Len(w) # 0
  BY DEF Writes
<1>2. w \in Seq(Nat) /\ Len(w) \in Nat /\ 1 \in 1 .. Len(w) /\ w[1] \in Digits
  BY <1>1, DigitText
<1>3. s[i] = w[1]
  BY <1>2 DEF StandsAfter
<1>4. i \in Nat /\ i = p + 1 /\ to = p + Len(w) /\ to + 1 = z /\ ~ (i > i)
  BY <1>2
<1>5. w[1] # Minus
  BY <1>2 DEF Digits, Minus
<1> HIDE DEF i, to
<1>6. NumberFrom(s, i) = i
  BY Zenon, <1>3, <1>5 DEF NumberFrom
<1>7. Peek(s, to + 1) \notin Digits
  BY <1>4
<1>8. NumberEnds(s, i) # {} /\ NumberTo(s, i) = to /\ Decimal(SubSeq(s, i, to)) = x
  BY <1>4, <1>7, DigitsBack
<1>9. ReadNumber(s, i) = NumberAt(s, i, i, to)
  BY Zenon, <1>6, <1>8, ReadNumberIs
<1>10. ReadNumber(s, i) = Got(<<"number", x>>, z)
  BY Zenon, <1>4, <1>8, <1>9 DEF NumberAt
<1> QED
  BY Zenon, <1>10 DEF Gives, i

LEMMA MinusBack ==
  ASSUME NEW s \in Seq(Nat), NEW p \in Nat, NEW x \in Int, NEW t, Writes(t, -x), StandsAfter(s, p + 1, t),
         Peek(s, p + 1) = Minus, NEW z, z = p + Len(t) + 2, Peek(s, z) \notin Digits
  PROVE  Gives(ReadNumber(s, p + 1), <<"number", x>>, z)
<1> DEFINE i == p + 1
           from == i + 1
           to == i + Len(t)
           m == -x
<1>1. i \in Nat /\ i \in Int /\ from = i + 1 /\ to = i + Len(t) /\ from > i
  OBVIOUS
<1>2. Len(t) \in Nat
  BY DEF StandsAfter
<1>3. to + 1 = z /\ -m = x /\ Writes(t, m) /\ StandsAfter(s, i, t)
  BY <1>1, <1>2
<1>4. s[i] = Minus
  <2>1. Peek(s, i) >= 0 /\ Peek(s, i) = Minus
    BY DEF Minus
  <2> HIDE DEF i
  <2> QED
    BY <1>1, <2>1, PeekIs
<1> HIDE DEF i, from, to, m
<1>5. NumberFrom(s, i) = from
  BY Zenon, <1>1, <1>4 DEF NumberFrom
<1>6. Peek(s, to + 1) \notin Digits
  BY <1>3
<1>7. NumberEnds(s, from) # {} /\ NumberTo(s, from) = to /\ Decimal(SubSeq(s, from, to)) = m
  BY <1>1, <1>3, <1>6, DigitsBack
<1>8. ReadNumber(s, i) = NumberAt(s, i, from, to)
  BY Zenon, <1>5, <1>7, ReadNumberIs
<1>9. ReadNumber(s, i) = Got(<<"number", x>>, z)
  BY Zenon, <1>1, <1>3, <1>7, <1>8 DEF NumberAt
<1> QED
  BY Zenon, <1>9 DEF Gives, i

\* What a written number starts with.
NumberStart == Digits \cup {Minus}

LEMMA NumberBack ==
  ASSUME NEW x \in Int, NEW w, w = WriteNumber(x)
  PROVE  /\ w \in Seq(Nat) /\ Len(w) # 0 /\ w[1] \in NumberStart
         /\ \A s \in Seq(Nat), p \in Nat : StandsAfter(s, p, w) /\ Peek(s, p + Len(w) + 1) \notin Digits =>
              Gives(ReadNumber(s, p + 1), <<"number", x>>, p + Len(w) + 1)
<1>1. CASE ~ (x < 0)
  <2>1. Writes(w, x)
    BY <1>1, WriteNumberIs
  <2>2. w \in Seq(Digits) /\ Len(w) # 0
    BY <2>1 DEF Writes
  <2>3. w \in Seq(Nat) /\ 1 \in 1 .. Len(w) /\ w[1] \in Digits
    BY <2>2, DigitText
  <2>4. ASSUME NEW s \in Seq(Nat), NEW p \in Nat, StandsAfter(s, p, w), Peek(s, p + Len(w) + 1) \notin Digits
        PROVE  Gives(ReadNumber(s, p + 1), <<"number", x>>, p + Len(w) + 1)
    <3> DEFINE z == p + Len(w) + 1
    <3>1. z = p + Len(w) + 1 /\ Peek(s, z) \notin Digits
      BY <2>4
    <3> HIDE DEF z
    <3>2. Gives(ReadNumber(s, p + 1), <<"number", x>>, z)
      BY <2>1, <2>4, <3>1, PlainBack
    <3> QED
      BY Zenon, <3>2 DEF z
  <2> QED
    BY <2>2, <2>3, <2>4 DEF NumberStart
<1>2. CASE x < 0
  <2> DEFINE one == <<Minus>>
  <2>1. PICK t : Writes(t, -x) /\ w = one \o t
    BY <1>2, WriteNumberIs
  <2>2. t \in Seq(Digits)
    BY <2>1 DEF Writes
  <2> DEFINE n == Len(t)
  <2>3. t \in Seq(Nat) /\ n = Len(t) /\ n \in Nat
    BY <2>2, DigitText
  <2>4. one \in Seq(Nat) /\ Len(one) = 1 /\ one[1] = Minus
    BY DEF Minus
  <2> HIDE DEF one, n
  <2>5. IsJoin(Nat, w, one, 1, t, n)
    BY <2>1, <2>3, <2>4, JoinIs
  <2>6. w \in Seq(Nat) /\ Len(w) = 1 + n /\ w[1] = Minus
    <3>1. 1 \in 1 .. 1
      OBVIOUS
    <3> QED
      BY <2>4, <2>5, <3>1 DEF IsJoin
  <2>7. ASSUME NEW s \in Seq(Nat), NEW p \in Nat, StandsAfter(s, p, w), Peek(s, p + Len(w) + 1) \notin Digits
        PROVE  Gives(ReadNumber(s, p + 1), <<"number", x>>, p + Len(w) + 1)
    <3> DEFINE z == p + Len(w) + 1
               l == p + 1
    <3>1. z = p + n + 2 /\ Peek(s, z) \notin Digits /\ l = p + 1
      BY <2>3, <2>6, <2>7
    <3>2. StandsAfter(s, p, one \o t)
      BY <2>1, <2>7
    <3> HIDE DEF z, l
    <3>3. StandsAfter(s, p, one) /\ StandsAfter(s, l, t)
      BY <2>3, <2>4, <3>1, <3>2, StandsJoin
    <3>4. \A j \in 1 .. Len(one) : p + j \in 1 .. Len(s) /\ Peek(s, p + j) = one[j]
      BY <3>3, StandsPeeks
    <3>5. 1 \in 1 .. Len(one)
      BY <2>4
    <3>6. Peek(s, p + 1) = Minus
      BY Zenon, <2>4, <3>4, <3>5
    <3>7. StandsAfter(s, p + 1, t) /\ z = p + Len(t) + 2
      BY Zenon, <2>3, <3>1, <3>3
    <3>8. Gives(ReadNumber(s, p + 1), <<"number", x>>, z)
      BY <2>1, <3>1, <3>6, <3>7, MinusBack
    <3> QED
      BY Zenon, <3>8 DEF z
  <2>8. Len(w) # 0 /\ w[1] \in NumberStart
    BY <2>3, <2>6 DEF NumberStart
  <2> QED
    BY <2>6, <2>7, <2>8
<1> QED
  BY <1>1, <1>2

-----------------------------------------------------------------------------
(***************************************************************************)
(* Arrays, objects and values, where what stands one level deeper is read  *)
(* by some reader.                                                         *)
(***************************************************************************)

\* What reader read makes of the positions of s: values of V, and later positions.
Reading(V, s, read) == \A k \in 1 .. Len(s) + 1 : read[k] \in Out(V, k, Len(s) + 1)

\* A position at which there is a character has a next one.
LEMMA NextIs ==
  ASSUME NEW s \in Seq(Nat), NEW n, n = Len(s) + 1, NEW i \in Nat, NEW a \in i .. n, Peek(s, a) >= 0
  PROVE  a + 1 \in i + 1 .. n
<1>1. a \in Int
  OBVIOUS
<1>2. a \in 1 .. Len(s)
  BY <1>1, PeekIs
<1> QED
  BY <1>2

\* What array makes of s from position i on, when later is what it makes of it from later
\* positions on.
ArrayAt(s, read, later, i) ==
  LET item == read[i]
      rest == later[item.at + 1]
  IN  IF ~item.ok THEN Nothing
      ELSE IF Peek(s, item.at) = CloseArray THEN Got(<<item.value>>, item.at + 1)
      ELSE IF Peek(s, item.at) # Comma THEN Nothing
      ELSE IF rest.ok THEN Got(<<item.value>> \o rest.value, rest.at) ELSE Nothing

ArrayRun(s, read, g, from) == g = [i \in from .. Len(s) + 1 |-> ArrayAt(s, read, g, i)]

LEMMA ArrayLocal ==
  ASSUME NEW V, NEW s \in Seq(Nat), NEW read, Reading(V, s, read), NEW i \in 1 .. Len(s) + 1, NEW g, NEW h,
         \A j \in i + 1 .. Len(s) + 1 : g[j] = h[j]
  PROVE  ArrayAt(s, read, g, i) = ArrayAt(s, read, h, i)
<1> DEFINE item == read[i]
           a == item.at
           n == Len(s) + 1
<1>1. item \in Out(V, i, n) /\ i \in Nat
  BY DEF Reading
<1>2. CASE item.ok /\ Peek(s, a) = Comma
  <2>1. a \in i + 1 .. n
    <3> HIDE DEF item, n
    <3> QED
      BY <1>1, <1>2, OutIs
  <2>2. a \in i .. n /\ Peek(s, a) >= 0
    BY <1>1, <1>2, <2>1 DEF Comma
  <2>3. n = Len(s) + 1
    OBVIOUS
  <2> HIDE DEF a, n
  <2>4. a + 1 \in i + 1 .. n
    BY <1>1, <2>2, <2>3, NextIs
  <2>5. g[a + 1] = h[a + 1]
    BY <2>3, <2>4
  <2> QED
    BY Zenon, <2>5 DEF ArrayAt, a
<1>3. CASE ~ (item.ok /\ Peek(s, a) = Comma)
  BY Zenon, <1>3 DEF ArrayAt
<1> QED
  BY <1>2, <1>3

\* ReadArray is defined: g is what it makes of the positions of s.
ArrayRead(s, read, g) == \A i \in 1 .. Len(s) + 1 : g[i] = ArrayAt(s, read, g, i) /\ ReadArray(s, i, read) = g[i]

LEMMA ArrayRuns ==
  ASSUME NEW V, NEW s \in Seq(Nat), NEW read, Reading(V, s, read)
  PROVE  \E g : ArrayRead(s, read, g)
<1> DEFINE n == Len(s) + 1
           T == {i \in 1 .. n : \E g : ArrayRun(s, read, g, i)}
<1>0. n \in Nat /\ 1 \in 1 .. n
  OBVIOUS
<1>1. ASSUME NEW i \in 1 .. n, \A j \in i + 1 .. n : j \in T PROVE i \in T
  <2>1. \E g : \A k \in i + 1 .. n : g[k] = ArrayAt(s, read, g, k)
    <3>1. CASE i = n
      BY <3>1
    <3>2. CASE i # n
      <4>1. i + 1 \in T
        BY <1>1, <3>2
      <4>2. PICK g : ArrayRun(s, read, g, i + 1)
        BY <4>1
      <4>3. \A k \in i + 1 .. n : g[k] = ArrayAt(s, read, g, k)
        BY <4>2 DEF ArrayRun
      <4> QED
        BY <4>3
    <3> QED
      BY <3>1, <3>2
  <2>2. PICK g : \A k \in i + 1 .. n : g[k] = ArrayAt(s, read, g, k)
    BY <2>1
  <2> DEFINE h == [k \in i .. n |-> IF k = i THEN ArrayAt(s, read, g, i) ELSE g[k]]
  <2>3. \A k \in i + 1 .. n : g[k] = h[k]
    OBVIOUS
  <2>4. ASSUME NEW k \in i .. n PROVE h[k] = ArrayAt(s, read, h, k)
    <3>1. h[k] = ArrayAt(s, read, g, k)
      BY <2>2
    <3>2. k \in 1 .. Len(s) + 1 /\ \A j \in k + 1 .. Len(s) + 1 : j \in i + 1 .. n
      OBVIOUS
    <3> HIDE DEF h
    <3>3. \A j \in k + 1 .. Len(s) + 1 : g[j] = h[j]
      BY <2>3, <3>2
    <3> QED
      BY <3>1, <3>2, <3>3, ArrayLocal
  <2>5. h = [k \in i .. n |-> h[k]]
    OBVIOUS
  <2> HIDE DEF h
  <2>6. ArrayRun(s, read, h, i)
    BY <2>4, <2>5 DEF ArrayRun
  <2> QED
    BY <2>6
<1>2. T = 1 .. n
  <2>1. T \in SUBSET (1 .. n)
    OBVIOUS
  <2> HIDE DEF T, n
  <2> QED
    BY <1>0, <1>1, <2>1, FromTheEnd
<1>3. \E g : ArrayRun(s, read, g, 1)
  BY <1>0, <1>2
<1> DEFINE c == CHOOSE g : ArrayRun(s, read, g, 1)
<1>4. ASSUME NEW i PROVE ReadArray(s, i, read) = c[i]
  BY Zenon DEF ReadArray, ArrayRun, ArrayAt, Followed
<1>5. ArrayRun(s, read, c, 1)
  BY <1>3
<1> HIDE DEF c
<1>6. \A i \in 1 .. Len(s) + 1 : c[i] = ArrayAt(s, read, c, i)
  BY <1>5 DEF ArrayRun
<1> QED
  BY <1>4, <1>6 DEF ArrayRead

\* A sequence of values is what array reads, or nothing.
LEMMA ArrayOut ==
  ASSUME NEW V, NEW s \in Seq(Nat), NEW read, Reading(V, s, read), NEW n, n = Len(s) + 1
  PROVE  \A i \in 1 .. n : ReadArray(s, i, read) \in Out(Seq(V), i, n)
<1>1. PICK g : ArrayRead(s, read, g)
  BY ArrayRuns
<1> DEFINE T == {i \in 1 .. n : g[i] \in Out(Seq(V), i, n)}
<1>2. n \in Nat
  OBVIOUS
<1>3. ASSUME NEW i \in 1 .. n, \A j \in i + 1 .. n : j \in T PROVE i \in T
  <2> DEFINE item == read[i]
             a == item.at
             u == a + 1
             rest == g[u]
             x == item.value
  <2>1. i \in Nat /\ item \in Out(V, i, n)
    BY DEF Reading
  <2>2. g[i] = ArrayAt(s, read, g, i)
    BY <1>1 DEF ArrayRead
  <2>3. g[i] = IF ~item.ok THEN Nothing
               ELSE IF Peek(s, a) = CloseArray THEN Got(<<x>>, u)
               ELSE IF Peek(s, a) # Comma THEN Nothing
               ELSE IF rest.ok THEN Got(<<x>> \o rest.value, rest.at) ELSE Nothing
    BY Zenon, <2>2 DEF ArrayAt
  <2>u. u = a + 1
    OBVIOUS
  <2>t. u \in T => rest \in Out(Seq(V), u, n)
    OBVIOUS
  <2> DEFINE opt == <<x>>
  <2>4. item.ok => a \in i + 1 .. n /\ x \in V
    <3> HIDE DEF item
    <3> QED
      BY <2>1, OutIs
  <2>5. item.ok /\ Peek(s, a) \in {CloseArray, Comma} => u \in i + 1 .. n
    <3> SUFFICES ASSUME item.ok, Peek(s, a) \in {CloseArray, Comma} PROVE u \in i + 1 .. n
      OBVIOUS
    <3>1. a \in i .. n /\ Peek(s, a) >= 0
      BY <2>1, <2>4 DEF CloseArray, Comma
    <3> HIDE DEF a, u
    <3>2. a + 1 \in i + 1 .. n
      BY <2>1, <3>1, NextIs
    <3> QED
      BY <2>u, <3>2
  <2> HIDE DEF item, a, u, rest, x
  <2>6. CASE item.ok /\ Peek(s, a) = CloseArray
    <3>1. x \in V /\ u \in i + 1 .. n
      BY <2>4, <2>5, <2>6
    <3>2. <<x>> \in Seq(V)
      BY <3>1
    <3>3. Got(<<x>>, u) \in Out(Seq(V), i, n)
      BY <3>1, <3>2, OutGot
    <3>4. g[i] = Got(<<x>>, u)
      BY Zenon, <2>3, <2>6
    <3> QED
      BY <3>3, <3>4
  <2>7. CASE item.ok /\ Peek(s, a) # CloseArray /\ Peek(s, a) = Comma /\ rest.ok
    <3>1. x \in V /\ u \in i + 1 .. n
      BY <2>4, <2>5, <2>7
    <3>2. rest \in Out(Seq(V), u, n)
      BY <1>3, <2>t, <3>1
    <3>3. rest.value \in Seq(V) /\ rest.at \in u + 1 .. n
      BY <2>7, <3>2, OutIs
    <3>4. <<x>> \o rest.value \in Seq(V) /\ rest.at \in i + 1 .. n
      BY <1>2, <3>1, <3>3
    <3>5. Got(<<x>> \o rest.value, rest.at) \in Out(Seq(V), i, n)
      BY <3>4, OutGot
    <3>6. g[i] = Got(<<x>> \o rest.value, rest.at)
      BY Zenon, <2>3, <2>7
    <3> QED
      BY <3>5, <3>6
  <2>8. CASE ~item.ok \/ (Peek(s, a) # CloseArray /\ (Peek(s, a) # Comma \/ ~rest.ok))
    <3>1. g[i] = Nothing
      BY Zenon, <2>3, <2>8
    <3> QED
      BY <3>1, OutNothing
  <2> QED
    BY <2>6, <2>7, <2>8
<1>4. T = 1 .. n
  <2>1. T \in SUBSET (1 .. n)
    OBVIOUS
  <2> HIDE DEF T
  <2> QED
    BY <1>2, <1>3, <2>1, FromTheEnd
<1> QED
  BY <1>1, <1>4 DEF ArrayRead

\* An item behind which the array ends, and an item with more behind it.
LEMMA ArrayLast ==
  ASSUME NEW V, NEW s \in Seq(Nat), NEW read, Reading(V, s, read), NEW i \in 1 .. Len(s) + 1,
         NEW v, NEW a, Gives(read[i], v, a), Peek(s, a) = CloseArray
  PROVE  Gives(ReadArray(s, i, read), <<v>>, a + 1)
<1>1. PICK g : ArrayRead(s, read, g)
  BY ArrayRuns
<1>2. ReadArray(s, i, read) = ArrayAt(s, read, g, i)
  BY <1>1 DEF ArrayRead
<1>3. read[i].ok = TRUE /\ read[i].value = v /\ read[i].at = a
  BY GivesIs
<1> QED
  BY Zenon, <1>2, <1>3 DEF ArrayAt, Gives

LEMMA ArrayStep ==
  ASSUME NEW V, NEW s \in Seq(Nat), NEW read, Reading(V, s, read), NEW i \in 1 .. Len(s) + 1,
         NEW v, NEW a, Gives(read[i], v, a), Peek(s, a) = Comma,
         NEW u, u = a + 1, NEW t, NEW z, Gives(ReadArray(s, u, read), t, z)
  PROVE  Gives(ReadArray(s, i, read), <<v>> \o t, z)
<1> DEFINE n == Len(s) + 1
<1>1. PICK g : ArrayRead(s, read, g)
  BY ArrayRuns
<1>2. ReadArray(s, i, read) = ArrayAt(s, read, g, i)
  BY <1>1 DEF ArrayRead
<1>3. read[i].ok = TRUE /\ read[i].value = v /\ read[i].at = a
  BY GivesIs
<1>4. read[i] \in Out(V, i, n) /\ i \in Nat /\ n = Len(s) + 1
  BY DEF Reading
<1> HIDE DEF n
<1>5. a \in i + 1 .. n
  BY <1>3, <1>4, OutIs
<1>6. a \in i .. n /\ Peek(s, a) >= 0
  BY <1>4, <1>5 DEF Comma
<1>7. a + 1 \in i + 1 .. n
  BY <1>4, <1>6, NextIs
<1>8. u \in 1 .. Len(s) + 1
  BY <1>4, <1>7
<1>9. g[u] = ReadArray(s, u, read)
  BY <1>1, <1>8 DEF ArrayRead
<1>10. g[u].ok = TRUE /\ g[u].value = t /\ g[u].at = z
  <2> DEFINE r == g[u]
  <2>1. Gives(r, t, z)
    BY Zenon, <1>9
  <2> HIDE DEF r
  <2>2. r.ok = TRUE /\ r.value = t /\ r.at = z
    BY <2>1, GivesIs
  <2> QED
    BY Zenon, <2>2 DEF r
<1>11. Comma # CloseArray
  BY DEF Comma, CloseArray
<1> QED
  BY Zenon, <1>2, <1>3, <1>10, <1>11 DEF ArrayAt, Gives

\* What object makes of s from position i on, when later is what it makes of it from later
\* positions on.
ObjectAt(s, read, later, k) ==
  LET key == ReadString(s, k + 1)
      v == read[key.at + 1]
      rest == later[v.at + 1]
  IN  IF Peek(s, k) # Quote \/ ~key.ok THEN Nothing
      ELSE IF Peek(s, key.at) # Colon THEN Nothing
      ELSE IF ~v.ok THEN Nothing
      ELSE IF Peek(s, v.at) = CloseObject THEN Got(WithMember(key.value, v.value, <<>>), v.at + 1)
      ELSE IF Peek(s, v.at) # Comma THEN Nothing
      ELSE IF rest.ok THEN Got(WithMember(key.value, v.value, rest.value), rest.at) ELSE Nothing

ObjectRun(s, read, g, from) == g = [k \in from .. Len(s) + 1 |-> ObjectAt(s, read, g, k)]

\* At position k stand a key, up to position b, and a value, up to position a.
IsMember(V, s, read, k, key, b, v, a) ==
  /\ Peek(s, k) = Quote /\ Gives(ReadString(s, k + 1), key, b) /\ Peek(s, b) = Colon
  /\ Gives(read[b + 1], v, a) /\ key \in Seq(Nat) /\ v \in V /\ a \in k + 1 .. Len(s) + 1

NoMember(s, read, k) ==
  LET key == ReadString(s, k + 1)
  IN  Peek(s, k) # Quote \/ ~key.ok \/ Peek(s, key.at) # Colon \/ ~read[key.at + 1].ok

LEMMA MemberOr ==
  ASSUME NEW V, NEW s \in Seq(Nat), NEW read, Reading(V, s, read), NEW k \in 1 .. Len(s) + 1
  PROVE  NoMember(s, read, k) \/ \E key, b, v, a : IsMember(V, s, read, k, key, b, v, a)
<1> DEFINE t == ReadString(s, k + 1)
           key == t.value
           b == t.at
           u == b + 1
           r == read[u]
           v == r.value
           a == r.at
           n == Len(s) + 1
           c == k + 1
<1>1. SUFFICES ASSUME ~NoMember(s, read, k) PROVE IsMember(V, s, read, k, key, b, v, a)
  OBVIOUS
<1>2. Peek(s, k) = Quote /\ t.ok /\ Peek(s, b) = Colon /\ r.ok
  BY Zenon, <1>1 DEF NoMember
<1>3. n = Len(s) + 1 /\ n \in Nat /\ k \in Nat /\ k \in 1 .. n /\ c = k + 1 /\ u = b + 1 /\ k \in Int
  OBVIOUS
<1>4. Peek(s, k) >= 0
  BY <1>2 DEF Quote
<1>5. k \in 1 .. Len(s)
  BY <1>3, <1>4, PeekIs
<1>6. c \in 1 .. n /\ c \in Nat
  BY <1>3, <1>5
<1> HIDE DEF n, c
<1>7. t \in Out(Seq(Nat), c, n)
  <2>1. \A i \in 1 .. n : ReadString(s, i) \in Out(Seq(Nat), i, n)
    BY <1>3, StringOut
  <2>2. t = ReadString(s, c)
    BY DEF c
  <2> HIDE DEF t
  <2> QED
    BY <1>6, <2>1, <2>2
<1> HIDE DEF t
<1>8. key \in Seq(Nat) /\ b \in c + 1 .. n /\ t = Got(key, b)
  BY <1>2, <1>7, OutIs
<1>9. b \in c .. n /\ Peek(s, b) >= 0
  BY <1>2, <1>6, <1>8 DEF Colon
<1> HIDE DEF b, u
<1>10. u \in c + 1 .. n
  BY <1>3, <1>6, <1>9, NextIs
<1>11. u \in 1 .. Len(s) + 1
  BY <1>3, <1>6, <1>10
<1>12. r \in Out(V, u, n)
  BY <1>3, <1>11 DEF Reading
<1> HIDE DEF r
<1>13. v \in V /\ a \in u + 1 .. n /\ r = Got(v, a)
  BY <1>2, <1>12, OutIs
<1>14. a \in k + 1 .. Len(s) + 1
  BY <1>3, <1>6, <1>10, <1>13
<1>15. Gives(ReadString(s, k + 1), key, b)
  BY Zenon, <1>8 DEF Gives, t
<1>16. Gives(read[b + 1], v, a)
  BY Zenon, <1>13 DEF Gives, r, u
<1> HIDE DEF key, v, a
<1> QED
  BY Zenon, <1>2, <1>8, <1>13, <1>14, <1>15, <1>16 DEF IsMember

\* What is made of a key and a value up to position a, and of what is not a member.
ObjectOf(s, g, key, v, a) ==
  IF Peek(s, a) = CloseObject THEN Got(WithMember(key, v, <<>>), a + 1)
  ELSE IF Peek(s, a) # Comma THEN Nothing
  ELSE IF g[a + 1].ok THEN Got(WithMember(key, v, g[a + 1].value), g[a + 1].at) ELSE Nothing

LEMMA ObjectWith ==
  ASSUME NEW V, NEW s, NEW read, NEW g, NEW k, NEW key, NEW b, NEW v, NEW a, IsMember(V, s, read, k, key, b, v, a)
  PROVE  ObjectAt(s, read, g, k) = ObjectOf(s, g, key, v, a)
<1>1. Peek(s, k) = Quote /\ Peek(s, b) = Colon
  BY Zenon DEF IsMember
<1>2. ReadString(s, k + 1).ok = TRUE /\ ReadString(s, k + 1).value = key /\ ReadString(s, k + 1).at = b
  <2>1. Gives(ReadString(s, k + 1), key, b)
    BY Zenon DEF IsMember
  <2> QED
    BY <2>1, GivesIs
<1>3. read[b + 1].ok = TRUE /\ read[b + 1].value = v /\ read[b + 1].at = a
  <2> DEFINE r == read[b + 1]
  <2>1. Gives(r, v, a)
    BY Zenon DEF IsMember
  <2> HIDE DEF r
  <2>2. r.ok = TRUE /\ r.value = v /\ r.at = a
    BY <2>1, GivesIs
  <2> QED
    BY Zenon, <2>2 DEF r
<1> QED
  BY Zenon, <1>1, <1>2, <1>3 DEF ObjectAt, ObjectOf

LEMMA ObjectWithout ==
  ASSUME NEW s, NEW read, NEW g, NEW k, NoMember(s, read, k)
  PROVE  ObjectAt(s, read, g, k) = Nothing
BY Zenon DEF ObjectAt, NoMember

LEMMA ObjectLocal ==
  ASSUME NEW V, NEW s \in Seq(Nat), NEW read, Reading(V, s, read), NEW k \in 1 .. Len(s) + 1, NEW g, NEW h,
         \A j \in k + 1 .. Len(s) + 1 : g[j] = h[j]
  PROVE  ObjectAt(s, read, g, k) = ObjectAt(s, read, h, k)
<1>1. CASE NoMember(s, read, k)
  <2>1. ObjectAt(s, read, g, k) = Nothing /\ ObjectAt(s, read, h, k) = Nothing
    BY <1>1, ObjectWithout
  <2> QED
    BY <2>1
<1>2. CASE ~NoMember(s, read, k)
  <2>1. PICK key, b, v, a : IsMember(V, s, read, k, key, b, v, a)
    BY Zenon, <1>2, MemberOr
  <2> DEFINE n == Len(s) + 1
             u == a + 1
  <2>2. k \in Nat /\ n = Len(s) + 1 /\ a \in k + 1 .. n
    BY <2>1 DEF IsMember
  <2> HIDE DEF n
  <2>o. ObjectAt(s, read, g, k) = ObjectOf(s, g, key, v, a) /\ ObjectAt(s, read, h, k) = ObjectOf(s, h, key, v, a)
    BY <2>1, ObjectWith
  <2>3. CASE Peek(s, a) = Comma
    <3>1. a \in k .. n /\ Peek(s, a) >= 0
      BY <2>2, <2>3 DEF Comma
    <3>2. u \in k + 1 .. n
      BY <2>2, <3>1, NextIs
    <3>3. g[u] = h[u]
      BY <2>2, <3>2
    <3>4. ObjectOf(s, g, key, v, a) = ObjectOf(s, h, key, v, a)
      BY Zenon, <3>3 DEF ObjectOf
    <3> QED
      BY <2>o, <3>4
  <2>4. CASE Peek(s, a) # Comma
    <3>1. ObjectOf(s, g, key, v, a) = ObjectOf(s, h, key, v, a)
      BY Zenon, <2>4 DEF ObjectOf
    <3> QED
      BY <2>o, <3>1
  <2> QED
    BY <2>3, <2>4
<1> QED
  BY <1>1, <1>2

\* ReadObject is defined: g is what it makes of the positions of s.
ObjectRead(s, read, g) == \A i \in 1 .. Len(s) + 1 : g[i] = ObjectAt(s, read, g, i) /\ ReadObject(s, i, read) = g[i]

LEMMA ObjectRuns ==
  ASSUME NEW V, NEW s \in Seq(Nat), NEW read, Reading(V, s, read)
  PROVE  \E g : ObjectRead(s, read, g)
<1> DEFINE n == Len(s) + 1
           T == {i \in 1 .. n : \E g : ObjectRun(s, read, g, i)}
<1>0. n \in Nat /\ 1 \in 1 .. n
  OBVIOUS
<1>1. ASSUME NEW i \in 1 .. n, \A j \in i + 1 .. n : j \in T PROVE i \in T
  <2>1. \E g : \A k \in i + 1 .. n : g[k] = ObjectAt(s, read, g, k)
    <3>1. CASE i = n
      BY <3>1
    <3>2. CASE i # n
      <4>1. i + 1 \in T
        BY <1>1, <3>2
      <4>2. PICK g : ObjectRun(s, read, g, i + 1)
        BY <4>1
      <4>3. \A k \in i + 1 .. n : g[k] = ObjectAt(s, read, g, k)
        BY <4>2 DEF ObjectRun
      <4> QED
        BY <4>3
    <3> QED
      BY <3>1, <3>2
  <2>2. PICK g : \A k \in i + 1 .. n : g[k] = ObjectAt(s, read, g, k)
    BY <2>1
  <2> DEFINE h == [k \in i .. n |-> IF k = i THEN ObjectAt(s, read, g, i) ELSE g[k]]
  <2>3. \A k \in i + 1 .. n : g[k] = h[k]
    OBVIOUS
  <2>4. ASSUME NEW k \in i .. n PROVE h[k] = ObjectAt(s, read, h, k)
    <3>1. h[k] = ObjectAt(s, read, g, k)
      BY <2>2
    <3>2. k \in 1 .. Len(s) + 1 /\ \A j \in k + 1 .. Len(s) + 1 : j \in i + 1 .. n
      OBVIOUS
    <3> HIDE DEF h
    <3>3. \A j \in k + 1 .. Len(s) + 1 : g[j] = h[j]
      BY <2>3, <3>2
    <3> QED
      BY <3>1, <3>2, <3>3, ObjectLocal
  <2>5. h = [k \in i .. n |-> h[k]]
    OBVIOUS
  <2> HIDE DEF h
  <2>6. ObjectRun(s, read, h, i)
    BY <2>4, <2>5 DEF ObjectRun
  <2> QED
    BY <2>6
<1>2. T = 1 .. n
  <2>1. T \in SUBSET (1 .. n)
    OBVIOUS
  <2> HIDE DEF T, n
  <2> QED
    BY <1>0, <1>1, <2>1, FromTheEnd
<1>3. \E g : ObjectRun(s, read, g, 1)
  BY <1>0, <1>2
<1> DEFINE c == CHOOSE g : ObjectRun(s, read, g, 1)
<1>4. ASSUME NEW i PROVE ReadObject(s, i, read) = c[i]
  BY Zenon DEF ReadObject, ObjectRun, ObjectAt, MembersFrom
<1>5. ObjectRun(s, read, c, 1)
  BY <1>3
<1> HIDE DEF c
<1>6. \A i \in 1 .. Len(s) + 1 : c[i] = ObjectAt(s, read, c, i)
  BY <1>5 DEF ObjectRun
<1> QED
  BY <1>4, <1>6 DEF ObjectRead

\* Functions from some strings to values of V.
Keys == {D \in SUBSET Seq(Nat) : IsFiniteSet(D)}
Members(V) == UNION {[D -> V] : D \in Keys}

LEMMA MembersIs ==
  ASSUME NEW V, NEW f
  PROVE  f \in Members(V) <=> \E D \in Keys : f \in [D -> V]
  BY DEF Members

LEMMA NoMembers ==
  ASSUME NEW V
  PROVE  <<>> \in Members(V)
<1>1. {} \in Keys
  <2>1. IsFiniteSet({})
    BY FS_EmptySet
  <2> QED
    BY <2>1 DEF Keys
<1>2. <<>> \in [{} -> V]
  OBVIOUS
<1> QED
  BY <1>1, <1>2, MembersIs

LEMMA WithMemberIs ==
  ASSUME NEW V, NEW key \in Seq(Nat), NEW v \in V, NEW f \in Members(V)
  PROVE  WithMember(key, v, f) \in Members(V)
<1> DEFINE w == WithMember(key, v, f)
           S == Seq(Nat)
<1>1. PICK D \in Keys : f \in [D -> V]
  BY MembersIs
<1>2. D \in SUBSET S /\ IsFiniteSet(D)
  BY <1>1 DEF Keys
<1>3. w = [x \in {key} \cup D |-> IF x \in D THEN f[x] ELSE v]
  <2>1. DOMAIN f = D
    BY <1>1
  <2> QED
    BY Zenon, <2>1 DEF WithMember
<1> HIDE DEF w
<1> DEFINE E == {key} \cup D
<1>4. E \in Keys
  <2>1. IsFiniteSet(D \cup {key})
    BY <1>2, FS_AddElement
  <2>2. E = D \cup {key}
    OBVIOUS
  <2>3. E \in SUBSET S /\ IsFiniteSet(E)
    BY <1>2, <2>1, <2>2
  <2> HIDE DEF E
  <2> QED
    BY <2>3 DEF Keys
<1>5. w \in [E -> V]
  BY <1>1, <1>3
<1> HIDE DEF E
<1>6. w \in Members(V)
  BY <1>4, <1>5, MembersIs
<1> QED
  BY <1>6 DEF w

\* A function from strings to values is what object reads, or nothing.
LEMMA ObjectOut ==
  ASSUME NEW V, NEW s \in Seq(Nat), NEW read, Reading(V, s, read), NEW n, n = Len(s) + 1
  PROVE  \A k \in 1 .. n : ReadObject(s, k, read) \in Out(Members(V), k, n)
<1>1. PICK g : ObjectRead(s, read, g)
  BY ObjectRuns
<1> DEFINE M == Members(V)
           T == {k \in 1 .. n : g[k] \in Out(M, k, n)}
<1>2. n \in Nat
  OBVIOUS
<1>3. ASSUME NEW k \in 1 .. n, \A j \in k + 1 .. n : j \in T PROVE k \in T
  <2>1. g[k] = ObjectAt(s, read, g, k)
    BY <1>1 DEF ObjectRead
  <2>2. CASE NoMember(s, read, k)
    <3>1. g[k] = Nothing
      BY <2>1, <2>2, ObjectWithout
    <3> QED
      BY <3>1, OutNothing
  <2>3. CASE ~NoMember(s, read, k)
    <3>1. PICK key, b, v, a : IsMember(V, s, read, k, key, b, v, a)
      BY Zenon, <2>3, MemberOr
    <3> DEFINE u == a + 1
               rest == g[u]
               one == WithMember(key, v, <<>>)
               all == WithMember(key, v, rest.value)
    <3>2. g[k] = IF Peek(s, a) = CloseObject THEN Got(one, u)
                 ELSE IF Peek(s, a) # Comma THEN Nothing
                 ELSE IF rest.ok THEN Got(all, rest.at) ELSE Nothing
      <4>1. ObjectAt(s, read, g, k) = ObjectOf(s, g, key, v, a)
        BY <3>1, ObjectWith
      <4> QED
        BY Zenon, <2>1, <4>1 DEF ObjectOf
    <3>3. key \in Seq(Nat) /\ v \in V /\ a \in k + 1 .. n /\ k \in Nat
      BY <3>1 DEF IsMember
    <3>4. u \in T => rest \in Out(M, u, n)
      OBVIOUS
    <3>5. one \in M
      BY <3>3, NoMembers, WithMemberIs
    <3>6. rest.value \in M => all \in M
      BY <3>3, WithMemberIs
    <3>7. Peek(s, a) \in {CloseObject, Comma} => u \in k + 1 .. n
      <4> SUFFICES ASSUME Peek(s, a) \in {CloseObject, Comma} PROVE u \in k + 1 .. n
        OBVIOUS
      <4>1. a \in k .. n /\ Peek(s, a) >= 0
        BY <3>3 DEF CloseObject, Comma
      <4>2. a + 1 \in k + 1 .. n
        BY <3>3, <4>1, NextIs
      <4> QED
        BY <4>2
    <3> HIDE DEF u, rest, one, all, M
    <3>8. CASE Peek(s, a) = CloseObject
      <4>1. u \in k + 1 .. n
        BY <3>7, <3>8
      <4>2. g[k] = Got(one, u)
        BY Zenon, <3>2, <3>8
      <4>3. Got(one, u) \in Out(M, k, n)
        BY <3>5, <4>1, OutGot
      <4> QED
        BY <4>2, <4>3
    <3>9. CASE Peek(s, a) # CloseObject /\ Peek(s, a) = Comma /\ rest.ok
      <4>1. u \in k + 1 .. n
        BY <3>7, <3>9
      <4>2. rest \in Out(M, u, n)
        BY <1>3, <3>4, <4>1
      <4>3. rest.value \in M /\ rest.at \in u + 1 .. n
        BY <3>9, <4>2, OutIs
      <4>4. all \in M /\ rest.at \in k + 1 .. n
        BY <1>2, <3>3, <3>6, <4>1, <4>3
      <4>5. Got(all, rest.at) \in Out(M, k, n)
        BY <4>4, OutGot
      <4>6. g[k] = Got(all, rest.at)
        BY Zenon, <3>2, <3>9
      <4> QED
        BY <4>5, <4>6
    <3>10. CASE Peek(s, a) # CloseObject /\ (Peek(s, a) # Comma \/ ~rest.ok)
      <4>1. g[k] = Nothing
        BY Zenon, <3>2, <3>10
      <4> QED
        BY <4>1, OutNothing
    <3> QED
      BY <3>8, <3>9, <3>10
  <2> QED
    BY <2>2, <2>3
<1>4. T = 1 .. n
  <2>1. T \in SUBSET (1 .. n)
    OBVIOUS
  <2> HIDE DEF T
  <2> QED
    BY <1>2, <1>3, <2>1, FromTheEnd
<1>5. \A k \in 1 .. n : g[k] \in Out(M, k, n)
  BY <1>4
<1> HIDE DEF T
<1>6. \A k \in 1 .. n : g[k] = ReadObject(s, k, read)
  BY <1>1 DEF ObjectRead
<1> QED
  BY <1>5, <1>6

\* A member behind which the object ends, and a member with more behind it.
LEMMA ObjectLast ==
  ASSUME NEW V, NEW s \in Seq(Nat), NEW read, Reading(V, s, read), NEW k \in 1 .. Len(s) + 1,
         NEW key, NEW b, NEW v, NEW a, IsMember(V, s, read, k, key, b, v, a), Peek(s, a) = CloseObject
  PROVE  Gives(ReadObject(s, k, read), WithMember(key, v, <<>>), a + 1)
<1>1. PICK g : ObjectRead(s, read, g)
  BY ObjectRuns
<1>2. ReadObject(s, k, read) = ObjectAt(s, read, g, k)
  BY <1>1 DEF ObjectRead
<1>o. ObjectAt(s, read, g, k) = ObjectOf(s, g, key, v, a)
  BY ObjectWith
<1>3. ReadObject(s, k, read) = Got(WithMember(key, v, <<>>), a + 1)
  BY Zenon, <1>2, <1>o DEF ObjectOf
<1> QED
  BY Zenon, <1>3 DEF Gives

LEMMA ObjectStep ==
  ASSUME NEW V, NEW s \in Seq(Nat), NEW read, Reading(V, s, read), NEW k \in 1 .. Len(s) + 1,
         NEW key, NEW b, NEW v, NEW a, IsMember(V, s, read, k, key, b, v, a), Peek(s, a) = Comma,
         NEW u, u = a + 1, NEW f, NEW z, Gives(ReadObject(s, u, read), f, z)
  PROVE  Gives(ReadObject(s, k, read), WithMember(key, v, f), z)
<1> DEFINE n == Len(s) + 1
<1>1. PICK g : ObjectRead(s, read, g)
  BY ObjectRuns
<1>2. ReadObject(s, k, read) = ObjectAt(s, read, g, k)
  BY <1>1 DEF ObjectRead
<1>3. a \in k + 1 .. n /\ k \in Nat /\ n = Len(s) + 1
  BY DEF IsMember
<1> HIDE DEF n
<1>4. a \in k .. n /\ Peek(s, a) >= 0
  BY <1>3 DEF Comma
<1>5. a + 1 \in k + 1 .. n
  BY <1>3, <1>4, NextIs
<1>6. u \in 1 .. Len(s) + 1
  BY <1>3, <1>5
<1>7. g[u] = ReadObject(s, u, read)
  BY <1>1, <1>6 DEF ObjectRead
<1>8. g[u].ok = TRUE /\ g[u].value = f /\ g[u].at = z
  <2> DEFINE r == g[u]
  <2>1. Gives(r, f, z)
    BY Zenon, <1>7
  <2> HIDE DEF r
  <2>2. r.ok = TRUE /\ r.value = f /\ r.at = z
    BY <2>1, GivesIs
  <2> QED
    BY Zenon, <2>2 DEF r
<1>9. Comma # CloseObject
  BY DEF Comma, CloseObject
<1>o. ObjectAt(s, read, g, k) = ObjectOf(s, g, key, v, a)
  BY ObjectWith
<1>10. ReadObject(s, k, read) = Got(WithMember(key, v, g[u].value), g[u].at)
  BY Zenon, <1>2, <1>8, <1>9, <1>o DEF ObjectOf
<1>11. ReadObject(s, k, read) = Got(WithMember(key, v, f), z)
  BY Zenon, <1>8, <1>10
<1> QED
  BY Zenon, <1>11 DEF Gives

Words == {NullText, True, False}
Literals == {<<"literal", w>> : w \in Words}
Strings == {<<"string", t>> : t \in Seq(Nat)}
Arrays(V) == {<<"array", a>> : a \in Seq(V)}
Objects(V) == {<<"object", f>> : f \in Members(V)}

\* The values that value_at makes of what stands in a text, of which those within it are of V.
Values(V) == Literals \cup Numbers \cup Strings \cup Arrays(V) \cup Objects(V)

\* The literal that starts with c.
WordOf(c) == CHOOSE w \in Words : w[1] = c

LEMMA WordIs ==
  ASSUME NEW c \in {110, 116, 102}
  PROVE  WordOf(c) \in Words /\ WordOf(c)[1] = c
<1>1. \E w \in Words : w[1] = c
  BY DEF Words, NullText, True, False
<1> QED
  BY <1>1 DEF WordOf

LEMMA WordText ==
  ASSUME NEW w \in Words
  PROVE  w \in Seq(Nat) /\ Len(w) \in Nat /\ Len(w) # 0 /\ w[1] \in {110, 116, 102} /\ w = WordOf(w[1])
<1>1. w \in Seq(Nat) /\ Len(w) \in {4, 5} /\ w[1] \in {110, 116, 102}
  <2>1. NullText \in Seq(Nat) /\ Len(NullText) = 4 /\ NullText[1] = 110
    BY DEF NullText
  <2>2. True \in Seq(Nat) /\ Len(True) = 4 /\ True[1] = 116
    BY DEF True
  <2>3. False \in Seq(Nat) /\ Len(False) = 5 /\ False[1] = 102
    BY DEF False
  <2> QED
    BY <2>1, <2>2, <2>3 DEF Words
<1>2. ASSUME NEW u \in Words, u[1] = w[1] PROVE u = w
  BY <1>2 DEF Words, NullText, True, False
<1>3. WordOf(w[1]) \in Words /\ WordOf(w[1])[1] = w[1]
  BY <1>1, WordIs
<1> QED
  BY <1>1, <1>2, <1>3

LEMMA LiteralOut ==
  ASSUME NEW s \in Seq(Nat), NEW n, n = Len(s) + 1, NEW i \in 1 .. n, NEW w \in Words
  PROVE  Literal(s, i, w) \in Out(Literals, i, n)
<1> DEFINE m == Len(w)
           a == i + m
<1>1. m \in Nat /\ m # 0 /\ w \in Seq(Nat)
  BY WordText
<1>2. DOMAIN w = 1 .. m /\ \A k \in 1 .. m : w[k] >= 0
  BY <1>1
<1>3. Literal(s, i, w) = IF \A k \in DOMAIN w : Peek(s, i + k - 1) = w[k] THEN Got(<<"literal", w>>, a) ELSE Nothing
  BY Zenon DEF Literal
<1>4. CASE \A k \in DOMAIN w : Peek(s, i + k - 1) = w[k]
  <2> DEFINE j == i + m - 1
  <2>1. j \in Int /\ m \in 1 .. m /\ a = j + 1
    BY <1>1
  <2>2. Peek(s, j) = w[m] /\ w[m] >= 0
    BY <1>2, <1>4, <2>1
  <2> HIDE DEF j
  <2>3. j \in 1 .. Len(s)
    BY <2>1, <2>2, PeekIs
  <2>4. a \in i + 1 .. n
    BY <1>1, <2>1, <2>3
  <2> HIDE DEF a
  <2>5. <<"literal", w>> \in Literals
    BY DEF Literals
  <2>6. Got(<<"literal", w>>, a) \in Out(Literals, i, n)
    BY <2>4, <2>5, OutGot
  <2> QED
    BY Zenon, <1>3, <1>4, <2>6
<1>5. CASE ~ \A k \in DOMAIN w : Peek(s, i + k - 1) = w[k]
  <2>1. Literal(s, i, w) = Nothing
    BY Zenon, <1>3, <1>5
  <2> QED
    BY <2>1, OutNothing
<1> QED
  BY <1>4, <1>5

\* What holds of a set holds of a greater one.
LEMMA OutGrows ==
  ASSUME NEW U, NEW V, U \subseteq V, NEW k, NEW n, NEW r \in Out(U, k, n)
  PROVE  r \in Out(V, k, n)
  BY DEF Out

LEMMA ValuesGrow ==
  ASSUME NEW V
  PROVE  /\ Literals \subseteq Values(V) /\ Numbers \subseteq Values(V) /\ Strings \subseteq Values(V)
         /\ Arrays(V) \subseteq Values(V) /\ Objects(V) \subseteq Values(V)
  BY DEF Values

\* What stands between brackets is read behind the bracket.
LEMMA InnerOut ==
  ASSUME NEW U, NEW W, NEW kind, \A x \in U : <<kind, x>> \in W, NEW i \in Nat, NEW c, c = i + 1,
         NEW n \in Nat, NEW r \in Out(U, c, n)
  PROVE  Enclosed(kind, r) \in Out(W, i, n)
<1>1. CASE r.ok
  <2> DEFINE x == r.value
             a == r.at
  <2>1. x \in U /\ a \in c + 1 .. n
    BY <1>1, OutIs
  <2>2. Enclosed(kind, r) = Got(<<kind, x>>, a)
    BY Zenon, <1>1 DEF Enclosed
  <2> HIDE DEF x, a
  <2>3. <<kind, x>> \in W /\ a \in i + 1 .. n
    BY <2>1
  <2>4. Got(<<kind, x>>, a) \in Out(W, i, n)
    BY <2>3, OutGot
  <2> QED
    BY <2>2, <2>4
<1>2. CASE ~r.ok
  <2>1. Enclosed(kind, r) = Nothing
    BY Zenon, <1>2 DEF Enclosed
  <2> QED
    BY <2>1, OutNothing
<1> QED
  BY <1>1, <1>2

\* A value is what value_at reads, or nothing.
LEMMA ValueOut ==
  ASSUME NEW V, NEW s \in Seq(Nat), NEW read, Reading(V, s, read), NEW n, n = Len(s) + 1, NEW i \in 1 .. n
  PROVE  ReadValue(s, i, read) \in Out(Values(V), i, n)
<1> DEFINE c == Peek(s, i)
           u == i + 1
           W == Values(V)
           v == ReadValue(s, i, read)
           text == ReadString(s, u)
           array == ReadArray(s, u, read)
           object == ReadObject(s, u, read)
<1>0. i \in Int /\ i \in Nat /\ n \in Nat /\ u = i + 1
  OBVIOUS
<1>v. v = IF c \in {110, 116, 102} THEN Literal(s, i, WordOf(c))
          ELSE IF c = Quote THEN Enclosed("string", text)
          ELSE IF c = OpenArray
            THEN (IF Peek(s, u) = CloseArray THEN Got(<<"array", <<>>>>, i + 2) ELSE Enclosed("array", array))
          ELSE IF c = OpenObject
            THEN (IF Peek(s, u) = CloseObject THEN Got(<<"object", <<>>>>, i + 2) ELSE Enclosed("object", object))
          ELSE IF c = Minus \/ c \in Digits THEN ReadNumber(s, i) ELSE Nothing
  BY Zenon DEF ReadValue, Enclosed, WordOf, Words
<1>u. c >= 0 => u \in 1 .. n
  <2> SUFFICES ASSUME c >= 0 PROVE u \in 1 .. n
    OBVIOUS
  <2>1. i \in 1 .. Len(s)
    BY <1>0, PeekIs
  <2> QED
    BY <2>1
<1>p. ASSUME NEW q \in {CloseArray, CloseObject}, Peek(s, u) = q PROVE i + 2 \in i + 1 .. n
  <2>1. u \in Int /\ Peek(s, u) >= 0
    BY <1>p DEF CloseArray, CloseObject
  <2> HIDE DEF u
  <2>2. u \in 1 .. Len(s)
    BY <2>1, PeekIs
  <2> QED
    BY <1>0, <2>2
<1> HIDE DEF v, W, c, u
<1>1. CASE c \in {110, 116, 102}
  <2>1. v = Literal(s, i, WordOf(c))
    BY Zenon, <1>1, <1>v
  <2>2. WordOf(c) \in Words
    BY <1>1, WordIs
  <2>3. v \in Out(Literals, i, n)
    BY <2>1, <2>2, LiteralOut
  <2>4. Literals \subseteq W
    BY ValuesGrow DEF W
  <2>5. v \in Out(W, i, n)
    BY <2>3, <2>4, OutGrows
  <2> QED
    BY <2>5 DEF v, W
<1>2. CASE c \notin {110, 116, 102} /\ c = Quote
  <2>1. v = Enclosed("string", text)
    BY Zenon, <1>2, <1>v
  <2>2. u \in 1 .. n
    BY <1>2, <1>u DEF Quote
  <2> HIDE DEF text
  <2>3. text \in Out(Seq(Nat), u, n)
    BY <2>2, StringOut DEF text
  <2>4. \A x \in Seq(Nat) : <<"string", x>> \in W
    BY DEF Values, Strings, W
  <2>5. v \in Out(W, i, n)
    BY <1>0, <2>1, <2>3, <2>4, InnerOut
  <2> QED
    BY <2>5 DEF v, W
<1>3. CASE c \notin {110, 116, 102} /\ c # Quote /\ c = OpenArray
  <2>1. u \in 1 .. n
    BY <1>3, <1>u DEF OpenArray
  <2>2. CASE Peek(s, u) = CloseArray
    <3>1. v = Got(<<"array", <<>>>>, i + 2)
      BY Zenon, <1>3, <1>v, <2>2
    <3>2. i + 2 \in i + 1 .. n
      BY <1>p, <2>2
    <3>3. <<>> \in Seq(V)
      OBVIOUS
    <3>4. <<"array", <<>>>> \in W
      BY <3>3 DEF Values, Arrays, W
    <3>5. v \in Out(W, i, n)
      BY <3>1, <3>2, <3>4, OutGot
    <3> QED
      BY <3>5 DEF v, W
  <2>3. CASE Peek(s, u) # CloseArray
    <3>1. v = Enclosed("array", array)
      BY Zenon, <1>3, <1>v, <2>3
    <3> HIDE DEF array
    <3>2. array \in Out(Seq(V), u, n)
      BY <2>1, ArrayOut DEF array
    <3>3. \A x \in Seq(V) : <<"array", x>> \in W
      BY DEF Values, Arrays, W
    <3>4. v \in Out(W, i, n)
      BY <1>0, <3>1, <3>2, <3>3, InnerOut
    <3> QED
      BY <3>4 DEF v, W
  <2> QED
    BY <2>2, <2>3
<1>4. CASE c \notin {110, 116, 102} /\ c # Quote /\ c # OpenArray /\ c = OpenObject
  <2>1. u \in 1 .. n
    BY <1>4, <1>u DEF OpenObject
  <2>2. CASE Peek(s, u) = CloseObject
    <3>1. v = Got(<<"object", <<>>>>, i + 2)
      BY Zenon, <1>4, <1>v, <2>2
    <3>2. i + 2 \in i + 1 .. n
      BY <1>p, <2>2
    <3>3. <<>> \in Members(V)
      BY NoMembers
    <3>4. <<"object", <<>>>> \in W
      BY <3>3 DEF Values, Objects, W
    <3>5. v \in Out(W, i, n)
      BY <3>1, <3>2, <3>4, OutGot
    <3> QED
      BY <3>5 DEF v, W
  <2>3. CASE Peek(s, u) # CloseObject
    <3>1. v = Enclosed("object", object)
      BY Zenon, <1>4, <1>v, <2>3
    <3> HIDE DEF object
    <3>2. object \in Out(Members(V), u, n)
      BY <2>1, ObjectOut DEF object
    <3>3. \A x \in Members(V) : <<"object", x>> \in W
      BY DEF Values, Objects, W
    <3>4. v \in Out(W, i, n)
      BY <1>0, <3>1, <3>2, <3>3, InnerOut
    <3> QED
      BY <3>4 DEF v, W
  <2> QED
    BY <2>2, <2>3
<1>5. CASE c \notin {110, 116, 102} /\ c # Quote /\ c # OpenArray /\ c # OpenObject /\ (c = Minus \/ c \in Digits)
  <2>1. v = ReadNumber(s, i)
    BY Zenon, <1>5, <1>v
  <2>2. v \in Out(Numbers, i, n)
    BY <2>1, NumberOut
  <2>3. Numbers \subseteq W
    BY ValuesGrow DEF W
  <2>4. v \in Out(W, i, n)
    BY <2>2, <2>3, OutGrows
  <2> QED
    BY <2>4 DEF v, W
<1>6. CASE c \notin {110, 116, 102} /\ c # Quote /\ c # OpenArray /\ c # OpenObject /\ ~ (c = Minus \/ c \in Digits)
  <2>1. v = Nothing
    BY Zenon, <1>6, <1>v
  <2>2. v \in Out(W, i, n)
    BY <2>1, OutNothing
  <2> QED
    BY <2>2 DEF v, W
<1> QED
  BY Zenon, <1>1, <1>2, <1>3, <1>4, <1>5, <1>6

-----------------------------------------------------------------------------
(***************************************************************************)
(* What is written for a value is read back as it, if what is written for  *)
(* the values in it is.                                                    *)
(***************************************************************************)

\* The texts q, each but the first behind a comma.
WithCommas(q) == [k \in DOMAIN q |-> IF k = 1 THEN q[k] ELSE <<Comma>> \o q[k]]

LEMMA CommaFirst ==
  ASSUME NEW t \in Seq(Nat), NEW r, r = <<Comma>> \o t
  PROVE  /\ r \in Seq(Nat) /\ Len(r) = 1 + Len(t)
         /\ \A s \in Seq(Nat), b \in Nat : StandsAfter(s, b, r) => Peek(s, b + 1) = Comma /\ StandsAfter(s, b + 1, t)
<1> DEFINE one == <<Comma>>
           n == Len(t)
<1>1. one \in Seq(Nat) /\ Len(one) = 1 /\ one[1] = Comma /\ r = one \o t
  BY DEF Comma
<1>2. n \in Nat /\ n = Len(t)
  OBVIOUS
<1> HIDE DEF one, n
<1>3. IsJoin(Nat, r, one, 1, t, n)
  BY <1>1, <1>2, JoinIs
<1>4. r \in Seq(Nat) /\ Len(r) = 1 + Len(t)
  BY <1>2, <1>3 DEF IsJoin
<1>5. ASSUME NEW s \in Seq(Nat), NEW b \in Nat, StandsAfter(s, b, r)
      PROVE  Peek(s, b + 1) = Comma /\ StandsAfter(s, b + 1, t)
  <2> DEFINE l == b + 1
  <2>1. l = b + 1 /\ StandsAfter(s, b, one \o t)
    BY <1>1, <1>5
  <2> HIDE DEF l
  <2>2. StandsAfter(s, b, one) /\ StandsAfter(s, l, t)
    BY <1>1, <2>1, StandsJoin
  <2>3. \A j \in 1 .. Len(one) : b + j \in 1 .. Len(s) /\ Peek(s, b + j) = one[j]
    BY <2>2, StandsPeeks
  <2>4. 1 \in 1 .. Len(one)
    BY <1>1
  <2> QED
    BY Zenon, <1>1, <2>1, <2>2, <2>3, <2>4
<1> QED
  BY <1>4, <1>5

LEMMA WithCommasIs ==
  ASSUME NEW q \in Seq(Seq(Nat))
  PROVE  /\ WithCommas(q) \in Seq(Seq(Nat)) /\ Len(WithCommas(q)) = Len(q)
         /\ \A k \in 1 .. Len(q) : WithCommas(q)[k] = IF k = 1 THEN q[k] ELSE <<Comma>> \o q[k]
<1> DEFINE C == Seq(Nat)
           n == Len(q)
           r == WithCommas(q)
<1>1. n \in Nat /\ DOMAIN q = 1 .. n /\ \A k \in 1 .. n : q[k] \in C
  OBVIOUS
<1>2. r = [k \in 1 .. n |-> IF k = 1 THEN q[k] ELSE <<Comma>> \o q[k]]
  BY <1>1 DEF WithCommas
<1>3. \A k \in 1 .. n : <<Comma>> \o q[k] \in C
  BY <1>1, CommaFirst
<1> HIDE DEF C, n, r
<1>4. r \in [1 .. n -> C] /\ \A k \in 1 .. n : r[k] = IF k = 1 THEN q[k] ELSE <<Comma>> \o q[k]
  BY <1>1, <1>2, <1>3
<1>5. r \in Seq(C) /\ Len(r) = n
  BY <1>1, <1>4, FunctionIsSeq
<1> QED
  BY Zenon, <1>4, <1>5 DEF C, n, r

\* The texts q stand in s behind the positions at, the first behind l, with a comma between
\* them, and end before z.
ListedAt(s, l, q, z, at) ==
  /\ at[1] = l
  /\ \A k \in 1 .. Len(q) : at[k] \in Nat /\ StandsAfter(s, at[k], q[k])
  /\ \A k \in 1 .. Len(q) : k # Len(q) =>
       Peek(s, at[k] + Len(q[k]) + 1) = Comma /\ at[k + 1] = at[k] + Len(q[k]) + 1
  /\ at[Len(q)] + Len(q[Len(q)]) + 1 = z

LEMMA ListedStands ==
  ASSUME NEW q \in Seq(Seq(Nat)), Len(q) # 0, NEW body, body = Listed(q)
  PROVE  /\ body \in Seq(Nat)
         /\ \A s \in Seq(Nat), l \in Nat : StandsAfter(s, l, body) =>
              \E at : ListedAt(s, l, q, l + Len(body) + 1, at)
<1> DEFINE r == WithCommas(q)
           K == Len(q)
<1>1. body = FlattenSeq(r)
  BY Zenon DEF Listed, WithCommas
<1>2. r \in Seq(Seq(Nat)) /\ Len(r) = K /\ \A k \in 1 .. K : r[k] = IF k = 1 THEN q[k] ELSE <<Comma>> \o q[k]
  BY WithCommasIs
<1>3. K \in Nat /\ K # 0 /\ \A k \in 1 .. K : q[k] \in Seq(Nat)
  OBVIOUS
<1> HIDE DEF r
<1>4. body \in Seq(Nat) /\ \E ends : Flattened(r, body, ends)
  BY <1>1, <1>2, FlattenIs
<1>5. ASSUME NEW s \in Seq(Nat), NEW l \in Nat, StandsAfter(s, l, body)
      PROVE  \E at : ListedAt(s, l, q, l + Len(body) + 1, at)
  <2>1. PICK ends : Flattened(r, body, ends)
    BY <1>4
  <2>2. ends \in [0 .. K -> Nat] /\ ends[0] = 0 /\ Len(body) = ends[K]
    BY <1>2, <2>1 DEF Flattened
  <2>3. \A k \in 1 .. K : ends[k] = ends[k - 1] + Len(r[k])
    BY <1>2, <2>1 DEF Flattened
  <2> DEFINE at == [k \in 1 .. K |-> IF k = 1 THEN l ELSE l + ends[k - 1] + 1]
             z == l + Len(body) + 1
  <2> HIDE DEF K
  <2>4. ASSUME NEW k \in 1 .. K
        PROVE  /\ at[k] \in Nat /\ StandsAfter(s, at[k], q[k]) /\ at[k] + Len(q[k]) = l + ends[k]
               /\ k # 1 => Peek(s, at[k]) = Comma /\ at[k] = l + ends[k - 1] + 1
    <3> DEFINE e == ends[k - 1]
               f == ends[k]
               t == q[k]
               b == l + e
               m == Len(r[k])
    <3>1. k - 1 \in 0 .. K /\ k \in 0 .. K
      BY <1>3
    <3>2. e \in Nat /\ f \in Nat /\ f = e + m /\ b \in Nat
      <4>1. e \in Nat /\ f \in Nat
        BY <2>2, <3>1
      <4>2. f = e + m
        BY Zenon, <2>3
      <4> HIDE DEF e, f
      <4> QED
        BY <4>1, <4>2
    <3>3. StandsAfter(s, l + ends[k - 1], r[k])
      BY <1>2, <1>5, <2>1, StandsPiece
    <3>4. t \in Seq(Nat) /\ r[k] = IF k = 1 THEN t ELSE <<Comma>> \o t
      BY <1>2, <1>3
    <3>5. at[k] = IF k = 1 THEN l ELSE b + 1
      OBVIOUS
    <3>6. b = l + e
      OBVIOUS
    <3> HIDE DEF at
    <3>7. CASE k = 1
      <4>1. e = 0 /\ b = l
        BY <2>2, <3>7
      <4>2. r[k] = t /\ at[k] = l
        BY <3>4, <3>5, <3>7
      <4>3. StandsAfter(s, l, t)
        BY Zenon, <3>3, <4>1, <4>2
      <4> HIDE DEF e, f, b
      <4>4. m = Len(t)
        BY <4>2
      <4>5. at[k] + Len(t) = l + f
        BY <3>2, <4>1, <4>2, <4>4
      <4> QED
        BY <3>7, <4>2, <4>3, <4>5 DEF f
    <3>8. CASE k # 1
      <4>1. r[k] = <<Comma>> \o t /\ at[k] = b + 1
        BY <3>4, <3>5, <3>8
      <4>2. StandsAfter(s, b, r[k])
        BY Zenon, <3>3
      <4> DEFINE v == r[k]
      <4>3. v = <<Comma>> \o t /\ StandsAfter(s, b, v)
        BY <4>1, <4>2
      <4> HIDE DEF e, f, b, t, v
      <4>4. Len(v) = 1 + Len(t) /\ Peek(s, b + 1) = Comma /\ StandsAfter(s, b + 1, t)
        BY <3>2, <3>4, <4>3, CommaFirst
      <4>5. m = 1 + Len(t)
        BY <4>4 DEF v
      <4>6. Len(t) \in Nat
        BY <3>4
      <4> HIDE DEF m
      <4>7. at[k] + Len(t) = l + f /\ at[k] \in Nat
        BY <3>2, <3>6, <4>1, <4>5, <4>6
      <4>8. at[k] = l + e + 1
        BY <3>6, <4>1
      <4>9. StandsAfter(s, at[k], t) /\ Peek(s, at[k]) = Comma
        BY <4>1, <4>4
      <4> QED
        BY <4>7, <4>8, <4>9 DEF t, f, e
    <3> QED
      BY <3>7, <3>8
  <2>5. at[1] = l
    BY <1>3
  <2> HIDE DEF at
  <2>6. ASSUME NEW k \in 1 .. K, k # K
        PROVE  Peek(s, at[k] + Len(q[k]) + 1) = Comma /\ at[k + 1] = at[k] + Len(q[k]) + 1
    <3> DEFINE j == k + 1
    <3>1. j \in 1 .. K /\ j # 1 /\ j - 1 = k
      BY <1>3, <2>6
    <3> HIDE DEF j
    <3>2. Peek(s, at[j]) = Comma /\ at[j] = l + ends[k] + 1
      BY <2>4, <3>1
    <3>3. at[k] + Len(q[k]) = l + ends[k]
      BY <2>4
    <3>4. at[j] = at[k] + Len(q[k]) + 1
      BY <3>2, <3>3
    <3> QED
      BY <3>2, <3>4 DEF j
  <2>7. at[K] + Len(q[K]) + 1 = z
    <3>1. K \in 1 .. K
      BY <1>3
    <3>2. at[K] + Len(q[K]) = l + ends[K]
      BY <2>4, <3>1
    <3> QED
      BY <2>2, <3>2
  <2> HIDE DEF z
  <2>8. ListedAt(s, l, q, z, at)
    BY <2>4, <2>5, <2>6, <2>7 DEF ListedAt, K
  <2> QED
    BY <2>8 DEF z
<1> QED
  BY <1>4, <1>5

\* No text, and none between commas.
LEMMA ListedNone ==
  ASSUME NEW q \in Seq(Seq(Nat)), Len(q) = 0
  PROVE  Listed(q) = <<>>
<1> DEFINE r == WithCommas(q)
<1>1. Listed(q) = FlattenSeq(r)
  BY Zenon DEF Listed, WithCommas
<1>2. r \in Seq(Seq(Nat)) /\ Len(r) = 0
  BY WithCommasIs
<1> HIDE DEF r
<1>3. FlattenSeq(r) \in Seq(Nat) /\ \E ends : Flattened(r, FlattenSeq(r), ends)
  BY <1>2, FlattenIs
<1>4. PICK ends : Flattened(r, FlattenSeq(r), ends)
  BY <1>3
<1>5. Len(FlattenSeq(r)) = 0
  BY <1>2, <1>4 DEF Flattened
<1>6. FlattenSeq(r) = <<>>
  BY <1>3, <1>5
<1> QED
  BY <1>1, <1>6

\* Text t, wherever it stands in s with no digit behind it, is read as x.
ReadsBack(s, read, t, x) ==
  \A p \in Nat : StandsAfter(s, p, t) /\ Peek(s, p + Len(t) + 1) \notin Digits => Gives(read[p + 1], x, p + Len(t) + 1)

LEMMA ReadsBackAt ==
  ASSUME NEW s, NEW read, NEW t, NEW x, ReadsBack(s, read, t, x), NEW p \in Nat, StandsAfter(s, p, t),
         NEW i, i = p + 1, NEW e, e = p + Len(t) + 1, Peek(s, e) \notin Digits
  PROVE  Gives(read[i], x, e)
  BY Zenon DEF ReadsBack

LEMMA SignsDiffer ==
  /\ Comma \notin Digits /\ CloseArray \notin Digits /\ CloseObject \notin Digits
  /\ Comma # CloseArray /\ Comma # CloseObject
  BY DEF Comma, CloseArray, CloseObject, Digits

LEMMA StandsPositions ==
  ASSUME NEW s \in Seq(Nat), NEW p, NEW t, StandsAfter(s, p, t)
  PROVE  p + 1 \in 1 .. Len(s) + 1 /\ p \in Nat /\ Len(t) \in Nat /\ p + Len(t) + 1 \in 1 .. Len(s) + 1
<1>1. p \in Nat /\ Len(t) \in Nat /\ p + Len(t) <= Len(s)
  BY DEF StandsAfter
<1> QED
  BY <1>1

\* Texts that are each read as an item are read as the array of the items.
LEMMA ArrayBack ==
  ASSUME NEW V, NEW s \in Seq(Nat), NEW read, Reading(V, s, read), NEW a \in Seq(V), Len(a) # 0, NEW q,
         Len(q) = Len(a), NEW l, NEW z, NEW at, ListedAt(s, l, q, z, at), Peek(s, z) = CloseArray,
         \A k \in 1 .. Len(a) : ReadsBack(s, read, q[k], a[k])
  PROVE  Gives(ReadArray(s, l + 1, read), a, z + 1)
<1> DEFINE K == Len(a)
           T == {k \in 1 .. K : Gives(ReadArray(s, at[k] + 1, read), Rest(a, k), z + 1)}
<1>1. K \in Nat /\ K # 0 /\ K = Len(q) /\ \A k \in 1 .. K : a[k] \in V
  OBVIOUS
<1>2. \A k \in 1 .. K : <<a[k]>> \o Rest(a, k + 1) = Rest(a, k)
  BY RestIs
<1>3. Rest(a, K + 1) = <<>> /\ Rest(a, 1) = a
  BY RestIs
<1> HIDE DEF K
<1>4. /\ at[1] = l /\ at[K] + Len(q[K]) + 1 = z
      /\ \A k \in 1 .. K : StandsAfter(s, at[k], q[k])
      /\ \A k \in 1 .. K : k # K => Peek(s, at[k] + Len(q[k]) + 1) = Comma /\ at[k + 1] = at[k] + Len(q[k]) + 1
  BY Zenon, <1>1 DEF ListedAt
<1>5. ASSUME NEW k \in 1 .. K, \A j \in k + 1 .. K : j \in T PROVE k \in T
  <2> DEFINE p == at[k]
             t == q[k]
             v == a[k]
             e == p + Len(t) + 1
             i == p + 1
  <2>1. StandsAfter(s, p, t) /\ ReadsBack(s, read, t, v)
    BY <1>4 DEF K
  <2>2. i \in 1 .. Len(s) + 1 /\ p \in Nat /\ i = p + 1 /\ e = p + Len(t) + 1
    BY <2>1, StandsPositions
  <2>3. Peek(s, e) = IF k = K THEN CloseArray ELSE Comma
    BY <1>4
  <2>4. k = K => e = z
    BY <1>4
  <2>5. k # K => at[k + 1] = e
    BY <1>4
  <2>6. <<v>> \o Rest(a, k + 1) = Rest(a, k) /\ (k = K => <<v>> = Rest(a, k))
    <3>1. <<v>> \o Rest(a, k + 1) = Rest(a, k)
      BY <1>2
    <3>2. CASE k = K
      <4>1. <<v>> \o <<>> = Rest(a, k)
        BY <1>3, <3>1, <3>2
      <4>2. <<v>> \o <<>> = <<v>>
        OBVIOUS
      <4> QED
        BY <3>1, <4>1, <4>2
    <3> QED
      BY <3>1, <3>2
  <2> HIDE DEF T, p, t, v, e, i
  <2>7. Gives(read[i], v, e)
    <3>1. Peek(s, e) \notin Digits
      BY <2>3, SignsDiffer
    <3> QED
      BY <2>1, <2>2, <3>1, ReadsBackAt
  <2>8. CASE k = K
    <3>1. Peek(s, e) = CloseArray
      BY <2>3, <2>8
    <3>2. Gives(ReadArray(s, i, read), <<v>>, e + 1)
      BY <2>2, <2>7, <3>1, ArrayLast
    <3>3. Gives(ReadArray(s, at[k] + 1, read), Rest(a, k), z + 1)
      BY Zenon, <2>4, <2>6, <2>8, <3>2 DEF i, p
    <3> QED
      BY <3>3 DEF T
  <2>9. CASE k # K
    <3> DEFINE u == e + 1
    <3>1. Peek(s, e) = Comma /\ u = e + 1
      BY <2>3, <2>9
    <3>2. k + 1 \in k + 1 .. K
      BY <1>1, <2>9
    <3>3. k + 1 \in T
      BY <1>5, <3>2
    <3>4. Gives(ReadArray(s, at[k + 1] + 1, read), Rest(a, k + 1), z + 1)
      BY <3>3 DEF T
    <3>5. Gives(ReadArray(s, u, read), Rest(a, k + 1), z + 1)
      BY Zenon, <2>5, <2>9, <3>4
    <3> HIDE DEF u
    <3>6. Gives(ReadArray(s, i, read), <<v>> \o Rest(a, k + 1), z + 1)
      BY <2>2, <2>7, <3>1, <3>5, ArrayStep
    <3>7. Gives(ReadArray(s, at[k] + 1, read), Rest(a, k), z + 1)
      BY Zenon, <2>6, <3>6 DEF i, p
    <3> QED
      BY <3>7 DEF T
  <2> QED
    BY <2>8, <2>9
<1>6. T = 1 .. K
  <2>1. T \in SUBSET (1 .. K)
    OBVIOUS
  <2> HIDE DEF T
  <2> QED
    BY <1>1, <1>5, <2>1, FromTheEnd
<1>7. 1 \in T
  BY <1>1, <1>6
<1>8. Gives(ReadArray(s, at[1] + 1, read), Rest(a, 1), z + 1)
  BY <1>7
<1> QED
  BY Zenon, <1>3, <1>4, <1>8

\* A key and a value as write_value writes them.
MemberText(key, t) == WriteString(key) \o <<Colon>> \o t

MemberStands(u, w, t) ==
  \A s \in Seq(Nat), p \in Nat : \A b : StandsAfter(s, p, u) /\ b = p + Len(w) + 1 =>
    StandsAfter(s, p, w) /\ Peek(s, b) = Colon /\ StandsAfter(s, b, t)

LEMMA MemberTextIs ==
  ASSUME NEW key \in Seq(Nat), NEW t \in Seq(Nat), NEW u, u = MemberText(key, t)
  PROVE  /\ u \in Seq(Nat) /\ Len(u) # 0 /\ u[1] = Quote
         /\ Len(u) = Len(WriteString(key)) + 1 + Len(t)
         /\ MemberStands(u, WriteString(key), t)
<1> DEFINE w == WriteString(key)
           one == <<Colon>>
           c == w \o one
           m == Len(w)
           n == Len(t)
           mm == m + 1
<1>1. w \in Seq(Nat) /\ m # 0 /\ w[1] = Quote
  BY StringBack
<1>2. one \in Seq(Nat) /\ Len(one) = 1 /\ one[1] = Colon
  BY DEF Colon
<1>3. u = c \o t /\ c = w \o one
  BY Zenon DEF MemberText
<1> HIDE DEF w, one, c
<1>4. m \in Nat /\ n \in Nat /\ m = Len(w) /\ n = Len(t) /\ mm = m + 1
  BY <1>1
<1> HIDE DEF m, n, mm
<1>5. IsJoin(Nat, c, w, m, one, 1)
  BY <1>1, <1>2, <1>3, <1>4, JoinIs
<1>6. c \in Seq(Nat) /\ Len(c) = mm /\ c[1] = w[1]
  <2>1. 1 \in 1 .. m
    BY <1>1, <1>4
  <2> QED
    BY <1>4, <1>5, <2>1 DEF IsJoin
<1>7. IsJoin(Nat, u, c, mm, t, n)
  BY <1>3, <1>4, <1>6, JoinIs
<1>8. u \in Seq(Nat) /\ Len(u) = mm + n /\ u[1] = c[1]
  <2>1. 1 \in 1 .. mm
    BY <1>4
  <2> QED
    BY <1>7, <2>1 DEF IsJoin
<1>9. ASSUME NEW s \in Seq(Nat), NEW p \in Nat, NEW b, StandsAfter(s, p, u), b = p + m + 1
      PROVE  StandsAfter(s, p, w) /\ Peek(s, b) = Colon /\ StandsAfter(s, b, t)
  <2> DEFINE l == p + m
  <2>1. l = p + m /\ b = p + mm /\ b = l + 1 /\ l \in Nat
    BY <1>4, <1>9
  <2> HIDE DEF l
  <2>2. StandsAfter(s, p, c \o t)
    BY <1>3, <1>9
  <2>3. StandsAfter(s, p, c) /\ StandsAfter(s, b, t)
    BY <1>6, <2>1, <2>2, StandsJoin
  <2>4. StandsAfter(s, p, w \o one)
    BY <1>3, <2>3
  <2>5. StandsAfter(s, p, w) /\ StandsAfter(s, l, one)
    BY <1>1, <1>2, <1>4, <2>1, <2>4, StandsJoin
  <2>6. \A j \in 1 .. Len(one) : l + j \in 1 .. Len(s) /\ Peek(s, l + j) = one[j]
    BY <2>5, StandsPeeks
  <2>7. 1 \in 1 .. Len(one)
    BY <1>2
  <2>8. Peek(s, l + 1) = Colon
    BY Zenon, <1>2, <2>6, <2>7
  <2> QED
    BY <2>1, <2>3, <2>5, <2>8
<1>10. \A s \in Seq(Nat), p \in Nat : \A b : StandsAfter(s, p, u) /\ b = p + m + 1 =>
         StandsAfter(s, p, w) /\ Peek(s, b) = Colon /\ StandsAfter(s, b, t)
  BY <1>9
<1>11. Len(u) # 0 /\ u[1] = Quote /\ Len(u) = m + 1 + n
  BY <1>1, <1>4, <1>6, <1>8
<1>12. MemberStands(u, w, t)
  BY Zenon, <1>10 DEF MemberStands, m
<1> QED
  BY Zenon, <1>8, <1>11, <1>12 DEF m, n, w

LEMMA MemberBack ==
  ASSUME NEW V, NEW s \in Seq(Nat), NEW read, NEW key \in Seq(Nat), NEW t \in Seq(Nat), NEW v \in V,
         ReadsBack(s, read, t, v), NEW u, u = MemberText(key, t), NEW p \in Nat, StandsAfter(s, p, u),
         NEW k, k = p + 1, NEW e, e = p + Len(u) + 1, Peek(s, e) \notin Digits
  PROVE  \E b : IsMember(V, s, read, k, key, b, v, e)
<1> DEFINE w == WriteString(key)
           b == p + Len(w) + 1
           c == b + 1
<1>1. b = p + Len(w) + 1 /\ c = b + 1
  OBVIOUS
<1>2. w \in Seq(Nat)
  BY StringBack
<1>3. Len(w) \in Nat /\ Len(t) \in Nat /\ b \in Nat
  BY <1>2
<1>4. MemberStands(u, w, t)
  BY MemberTextIs
<1>5. StandsAfter(s, p, w) /\ Peek(s, b) = Colon /\ StandsAfter(s, b, t)
  BY Zenon, <1>1, <1>4 DEF MemberStands
<1>6. Len(u) = Len(w) + 1 + Len(t)
  BY MemberTextIs
<1>7. e = b + Len(t) + 1
  BY <1>1, <1>3, <1>6
<1>8. \A ss \in Seq(Nat), pp \in Nat : StandsAfter(ss, pp, w) =>
        Peek(ss, pp + 1) = Quote /\ Gives(ReadString(ss, pp + 2), key, pp + Len(w) + 1)
  BY StringBack
<1>9. Peek(s, p + 1) = Quote /\ Gives(ReadString(s, p + 2), key, p + Len(w) + 1)
  BY Zenon, <1>5, <1>8
<1> HIDE DEF w, b, c
<1>10. Gives(read[c], v, e)
  BY <1>1, <1>3, <1>5, <1>7, ReadsBackAt
<1>11. k + 1 = p + 2
  OBVIOUS
<1>12. e \in k + 1 .. Len(s) + 1
  <2>1. b + Len(t) + 1 \in 1 .. Len(s) + 1
    BY <1>5, StandsPositions
  <2> QED
    BY <1>1, <1>3, <1>7, <2>1
<1>13. Peek(s, k) = Quote /\ Gives(ReadString(s, k + 1), key, b) /\ Gives(read[b + 1], v, e)
  BY Zenon, <1>1, <1>9, <1>10, <1>11
<1>14. IsMember(V, s, read, k, key, b, v, e)
  BY Zenon, <1>5, <1>12, <1>13 DEF IsMember
<1> QED
  BY <1>14

\* The members of f from the k-th key on.
From(f, keys, k) == [x \in {keys[j] : j \in k .. Len(keys)} |-> f[x]]

LEMMA FromIs ==
  ASSUME NEW f, NEW keys, Len(keys) \in Nat, NEW k \in 1 .. Len(keys)
  PROVE  /\ WithMember(keys[k], f[keys[k]], From(f, keys, k + 1)) = From(f, keys, k)
         /\ k = Len(keys) => WithMember(keys[k], f[keys[k]], <<>>) = From(f, keys, k)
<1> DEFINE K == Len(keys)
           rest == {keys[j] : j \in k + 1 .. K}
           all == {keys[j] : j \in k .. K}
           g == From(f, keys, k + 1)
           h == From(f, keys, k)
           x == keys[k]
           w == WithMember(x, f[x], g)
<1>1. K \in Nat /\ k \in 1 .. K
  OBVIOUS
<1>2. g = [y \in rest |-> f[y]] /\ h = [y \in all |-> f[y]]
  BY DEF From
<1> HIDE DEF K, g, h
<1>3. all = {x} \cup rest
  <2>1. ASSUME NEW y \in all PROVE y \in {x} \cup rest
    <3>1. PICK j \in k .. K : y = keys[j]
      OBVIOUS
    <3>2. j = k \/ j \in k + 1 .. K
      BY <1>1
    <3> QED
      BY <3>1, <3>2
  <2>2. x \in all
    BY <1>1
  <2>3. \A j \in k + 1 .. K : j \in k .. K
    BY <1>1
  <2>4. \A y \in rest : y \in all
    BY <2>3
  <2> QED
    BY <2>1, <2>2, <2>4
<1> HIDE DEF rest, all
<1>4. w = [y \in {x} \cup DOMAIN g |-> IF y \in DOMAIN g THEN g[y] ELSE f[x]]
  BY Zenon DEF WithMember
<1> HIDE DEF w, x
<1>5. DOMAIN g = rest /\ \A y \in rest : g[y] = f[y]
  BY <1>2
<1>6. w = [y \in all |-> IF y \in rest THEN g[y] ELSE f[x]]
  BY Zenon, <1>3, <1>4, <1>5
<1>7. \A y \in all : w[y] = f[y]
  <2>1. ASSUME NEW y \in all PROVE w[y] = f[y]
    <3>1. w[y] = IF y \in rest THEN g[y] ELSE f[x]
      BY <1>6
    <3>2. y \in rest \/ y = x
      BY <1>3
    <3> QED
      BY Zenon, <1>5, <3>1, <3>2
  <2> QED
    BY <2>1
<1>8. w = h
  BY <1>2, <1>6, <1>7
<1>9. ASSUME k = K PROVE g = <<>>
  <2>1. rest = {}
    BY <1>1, <1>9 DEF rest
  <2> QED
    BY <1>2, <2>1
<1> QED
  BY Zenon, <1>8, <1>9 DEF w, g, h, x, K

\* Texts that are each a key and a text that is read as its value are read as the object.
LEMMA ObjectBack ==
  ASSUME NEW V, NEW s \in Seq(Nat), NEW read, Reading(V, s, read), NEW keys \in Seq(Seq(Nat)), Len(keys) # 0,
         NEW f, NEW q, NEW text, Len(q) = Len(keys), NEW l, NEW z, NEW at, ListedAt(s, l, q, z, at),
         Peek(s, z) = CloseObject,
         \A k \in 1 .. Len(keys) : /\ q[k] = MemberText(keys[k], text[k]) /\ text[k] \in Seq(Nat)
                                   /\ ReadsBack(s, read, text[k], f[keys[k]]) /\ f[keys[k]] \in V
  PROVE  Gives(ReadObject(s, l + 1, read), From(f, keys, 1), z + 1)
<1> DEFINE K == Len(keys)
           T == {k \in 1 .. K : Gives(ReadObject(s, at[k] + 1, read), From(f, keys, k), z + 1)}
<1>1. K \in Nat /\ K # 0 /\ K = Len(q) /\ \A k \in 1 .. K : keys[k] \in Seq(Nat)
  OBVIOUS
<1>2. \A k \in 1 .. K : /\ WithMember(keys[k], f[keys[k]], From(f, keys, k + 1)) = From(f, keys, k)
                        /\ k = K => WithMember(keys[k], f[keys[k]], <<>>) = From(f, keys, k)
  BY <1>1, FromIs
<1> HIDE DEF K
<1>4. /\ at[1] = l /\ at[K] + Len(q[K]) + 1 = z
      /\ \A k \in 1 .. K : StandsAfter(s, at[k], q[k])
      /\ \A k \in 1 .. K : k # K => Peek(s, at[k] + Len(q[k]) + 1) = Comma /\ at[k + 1] = at[k] + Len(q[k]) + 1
  BY Zenon, <1>1 DEF ListedAt
<1>5. ASSUME NEW k \in 1 .. K, \A j \in k + 1 .. K : j \in T PROVE k \in T
  <2> DEFINE p == at[k]
             u == q[k]
             t == text[k]
             key == keys[k]
             v == f[key]
             e == p + Len(u) + 1
             i == p + 1
  <2>1. StandsAfter(s, p, u) /\ u = MemberText(key, t) /\ t \in Seq(Nat) /\ ReadsBack(s, read, t, v) /\ v \in V
    BY <1>4 DEF K
  <2>2. i \in 1 .. Len(s) + 1 /\ p \in Nat /\ i = p + 1 /\ e = p + Len(u) + 1
    BY <2>1, StandsPositions
  <2>3. Peek(s, e) = IF k = K THEN CloseObject ELSE Comma
    BY <1>4
  <2>4. k = K => e = z
    BY <1>4
  <2>5. k # K => at[k + 1] = e
    BY <1>4
  <2>6. WithMember(key, v, From(f, keys, k + 1)) = From(f, keys, k) /\ (k = K => WithMember(key, v, <<>>) = From(f, keys, k))
    BY <1>2
  <2>k. key \in Seq(Nat)
    BY <1>1
  <2> HIDE DEF T, p, t, u, v, e, i, key
  <2>7. PICK b : IsMember(V, s, read, i, key, b, v, e)
    <3>1. Peek(s, e) \notin Digits
      BY <2>3, SignsDiffer
    <3> QED
      BY <2>1, <2>2, <2>k, <3>1, MemberBack
  <2>8. CASE k = K
    <3>1. Peek(s, e) = CloseObject
      BY <2>3, <2>8
    <3>2. Gives(ReadObject(s, i, read), WithMember(key, v, <<>>), e + 1)
      BY <2>2, <2>7, <3>1, ObjectLast
    <3>3. Gives(ReadObject(s, at[k] + 1, read), From(f, keys, k), z + 1)
      BY Zenon, <2>4, <2>6, <2>8, <3>2 DEF i, p
    <3> QED
      BY <3>3 DEF T
  <2>9. CASE k # K
    <3> DEFINE n == e + 1
    <3>1. Peek(s, e) = Comma /\ n = e + 1
      BY <2>3, <2>9
    <3>2. k + 1 \in k + 1 .. K
      BY <1>1, <2>9
    <3>3. k + 1 \in T
      BY <1>5, <3>2
    <3>4. Gives(ReadObject(s, at[k + 1] + 1, read), From(f, keys, k + 1), z + 1)
      BY <3>3 DEF T
    <3>5. Gives(ReadObject(s, n, read), From(f, keys, k + 1), z + 1)
      BY Zenon, <2>5, <2>9, <3>4
    <3> HIDE DEF n
    <3>6. Gives(ReadObject(s, i, read), WithMember(key, v, From(f, keys, k + 1)), z + 1)
      BY <2>2, <2>7, <3>1, <3>5, ObjectStep
    <3>7. Gives(ReadObject(s, at[k] + 1, read), From(f, keys, k), z + 1)
      BY Zenon, <2>6, <3>6 DEF i, p
    <3> QED
      BY <3>7 DEF T
  <2> QED
    BY <2>8, <2>9
<1>6. T = 1 .. K
  <2>1. T \in SUBSET (1 .. K)
    OBVIOUS
  <2> HIDE DEF T
  <2> QED
    BY <1>1, <1>5, <2>1, FromTheEnd
<1>7. 1 \in T
  BY <1>1, <1>6
<1>8. Gives(ReadObject(s, at[1] + 1, read), From(f, keys, 1), z + 1)
  BY <1>7
<1> QED
  BY Zenon, <1>4, <1>8

\* The elements of a finite set in some order.
LEMMA SetToSeqIs ==
  ASSUME NEW S, IsFiniteSet(S), NEW f, f = SetToSeq(S)
  PROVE  f \in Seq(S) /\ {f[j] : j \in 1 .. Len(f)} = S
<1> DEFINE n == Cardinality(S)
           D == 1 .. n
           one(g) == IsInjective(g)
<1>1. n \in Nat /\ ExistsBijection(D, S)
  BY FS_CardinalityType
<1>2. Bijection(D, S) # {}
  BY <1>1, Fun_ExistsBij
<1>3. \E g \in [D -> S] : one(g)
  <2>1. PICK g : g \in Bijection(D, S)
    BY <1>2
  <2>2. g \in Injection(D, S)
    BY <2>1 DEF Bijection
  <2>3. g \in [D -> S] /\ one(g)
    BY <2>2 DEF Injection
  <2> QED
    BY <2>3
<1>4. f = CHOOSE g \in [D -> S] : one(g)
  BY Zenon DEF SetToSeq
<1>d. Cardinality(D) = n /\ D = 1 .. n
  BY <1>1, FS_Interval
<1>n. n = Cardinality(S)
  OBVIOUS
<1> HIDE DEF one, D, n
<1>5. f \in [D -> S] /\ one(f)
  BY <1>3, <1>4
<1>6. f \in Injection(D, S)
  BY <1>5 DEF Injection, one
<1>7. f \in Surjection(D, S)
  BY <1>d, <1>6, <1>n, FS_Injection
<1>8. \A x \in S : \E j \in D : f[j] = x
  BY <1>7 DEF Surjection
<1>9. f \in Seq(S) /\ Len(f) = n
  BY <1>1, <1>5, <1>d, FunctionIsSeq
<1>10. {f[j] : j \in 1 .. Len(f)} = S
  <2>1. \A j \in D : f[j] \in S
    BY <1>5
  <2> QED
    BY <1>8, <1>9, <1>d, <2>1
<1> QED
  BY <1>9, <1>10

-----------------------------------------------------------------------------
\* What value_at does, by the sign that it finds.
LEMMA FindsLiteral ==
  ASSUME NEW s, NEW i, NEW read, Peek(s, i) \in {110, 116, 102}
  PROVE  ReadValue(s, i, read) = Literal(s, i, WordOf(Peek(s, i)))
  BY Zenon DEF ReadValue, WordOf, Words

LEMMA StartsDiffer ==
  /\ Quote \notin {110, 116, 102} /\ OpenArray \notin {110, 116, 102} /\ OpenObject \notin {110, 116, 102}
  /\ OpenArray # Quote /\ OpenObject # Quote /\ OpenObject # OpenArray
  BY DEF Quote, OpenArray, OpenObject

LEMMA FindsNumber ==
  ASSUME NEW s, NEW i, NEW read, Peek(s, i) \in NumberStart
  PROVE  ReadValue(s, i, read) = ReadNumber(s, i)
<1> DEFINE c == Peek(s, i)
<1>1. c = Minus \/ c \in Digits
  BY DEF NumberStart
<1> HIDE DEF c
<1>2. c \notin {110, 116, 102} /\ c # Quote /\ c # OpenArray /\ c # OpenObject
  BY <1>1 DEF Minus, Digits, Quote, OpenArray, OpenObject
<1> QED
  BY Zenon, <1>1, <1>2 DEF ReadValue, c

LEMMA FindsString ==
  ASSUME NEW s, NEW i, NEW read, Peek(s, i) = Quote, NEW t, NEW z, Gives(ReadString(s, i + 1), t, z)
  PROVE  Gives(ReadValue(s, i, read), <<"string", t>>, z)
<1>1. ReadString(s, i + 1).ok = TRUE /\ ReadString(s, i + 1).value = t /\ ReadString(s, i + 1).at = z
  BY GivesIs
<1>2. Peek(s, i) \notin {110, 116, 102}
  BY StartsDiffer
<1> QED
  BY Zenon, <1>1, <1>2 DEF ReadValue, Gives, Enclosed

LEMMA FindsArray ==
  ASSUME NEW s, NEW i, NEW read, Peek(s, i) = OpenArray
  PROVE  /\ Peek(s, i + 1) = CloseArray => Gives(ReadValue(s, i, read), <<"array", <<>>>>, i + 2)
         /\ \A a, z : Peek(s, i + 1) # CloseArray /\ Gives(ReadArray(s, i + 1, read), a, z) =>
              Gives(ReadValue(s, i, read), <<"array", a>>, z)
<1>1. Peek(s, i) \notin {110, 116, 102} /\ Peek(s, i) # Quote
  BY StartsDiffer
<1>2. Peek(s, i + 1) = CloseArray => Gives(ReadValue(s, i, read), <<"array", <<>>>>, i + 2)
  BY Zenon, <1>1 DEF ReadValue, Gives
<1>3. ASSUME NEW a, NEW z, Peek(s, i + 1) # CloseArray, Gives(ReadArray(s, i + 1, read), a, z)
      PROVE  Gives(ReadValue(s, i, read), <<"array", a>>, z)
  <2>1. ReadArray(s, i + 1, read).ok = TRUE /\ ReadArray(s, i + 1, read).value = a /\ ReadArray(s, i + 1, read).at = z
    BY <1>3, GivesIs
  <2> QED
    BY Zenon, <1>1, <1>3, <2>1 DEF ReadValue, Gives, Enclosed
<1> QED
  BY Zenon, <1>2, <1>3

LEMMA FindsObject ==
  ASSUME NEW s, NEW i, NEW read, Peek(s, i) = OpenObject
  PROVE  /\ Peek(s, i + 1) = CloseObject => Gives(ReadValue(s, i, read), <<"object", <<>>>>, i + 2)
         /\ \A f, z : Peek(s, i + 1) # CloseObject /\ Gives(ReadObject(s, i + 1, read), f, z) =>
              Gives(ReadValue(s, i, read), <<"object", f>>, z)
<1>1. Peek(s, i) \notin {110, 116, 102} /\ Peek(s, i) # Quote /\ Peek(s, i) # OpenArray
  BY StartsDiffer
<1>2. Peek(s, i + 1) = CloseObject => Gives(ReadValue(s, i, read), <<"object", <<>>>>, i + 2)
  BY Zenon, <1>1 DEF ReadValue, Gives
<1>3. ASSUME NEW f, NEW z, Peek(s, i + 1) # CloseObject, Gives(ReadObject(s, i + 1, read), f, z)
      PROVE  Gives(ReadValue(s, i, read), <<"object", f>>, z)
  <2>1. ReadObject(s, i + 1, read).ok = TRUE /\ ReadObject(s, i + 1, read).value = f /\ ReadObject(s, i + 1, read).at = z
    BY <1>3, GivesIs
  <2> QED
    BY Zenon, <1>1, <1>3, <2>1 DEF ReadValue, Gives, Enclosed
<1> QED
  BY Zenon, <1>2, <1>3

-----------------------------------------------------------------------------
\* Text u, wherever it stands in s with no digit behind it, value_at reads as w.
FindsBack(s, read, u, w) ==
  \A p \in Nat : StandsAfter(s, p, u) /\ Peek(s, p + Len(u) + 1) \notin Digits =>
    Gives(ReadValue(s, p + 1, read), w, p + Len(u) + 1)

\* Text t can stand where a value is expected.
ValueText(t) == t \in Seq(Nat) /\ Len(t) # 0 /\ t[1] \notin {CloseArray, CloseObject}

LEMMA LiteralBack ==
  ASSUME NEW u \in Words
  PROVE  ValueText(u) /\ \A s \in Seq(Nat) : \A read : FindsBack(s, read, u, <<"literal", u>>)
<1>1. u \in Seq(Nat) /\ Len(u) \in Nat /\ Len(u) # 0 /\ u[1] \in {110, 116, 102} /\ u = WordOf(u[1])
  BY WordText
<1>2. ValueText(u)
  BY <1>1 DEF ValueText, CloseArray, CloseObject
<1>3. ASSUME NEW s \in Seq(Nat), NEW read, NEW p \in Nat, StandsAfter(s, p, u)
      PROVE  Gives(ReadValue(s, p + 1, read), <<"literal", u>>, p + Len(u) + 1)
  <2> DEFINE i == p + 1
             n == Len(u)
  <2>1. n \in Nat /\ 1 \in 1 .. n /\ DOMAIN u = 1 .. n /\ n = Len(u)
    BY <1>1
  <2>2. \A k \in 1 .. n : Peek(s, p + k) = u[k]
    BY <1>3, StandsPeeks
  <2>3. \A k \in 1 .. n : i + k - 1 = p + k
    OBVIOUS
  <2>4. Peek(s, i) = u[1]
    BY <2>1, <2>2
  <2>5. i + n = p + n + 1
    BY <2>1
  <2> HIDE DEF i
  <2>6. ReadValue(s, i, read) = Literal(s, i, u)
    BY <1>1, <2>4, FindsLiteral
  <2>7. \A k \in DOMAIN u : Peek(s, i + k - 1) = u[k]
    BY <2>1, <2>2, <2>3
  <2>8. Literal(s, i, u) = Got(<<"literal", u>>, i + n)
    BY Zenon, <2>7 DEF Literal
  <2> QED
    BY Zenon, <2>5, <2>6, <2>8 DEF Gives, i
<1>4. \A s \in Seq(Nat) : \A read : FindsBack(s, read, u, <<"literal", u>>)
  BY <1>3 DEF FindsBack
<1> QED
  BY <1>2, <1>4

LEMMA IntegerBack ==
  ASSUME NEW x \in Int, NEW u, u = WriteNumber(x)
  PROVE  ValueText(u) /\ \A s \in Seq(Nat) : \A read : FindsBack(s, read, u, <<"number", x>>)
<1>1. u \in Seq(Nat) /\ Len(u) # 0 /\ u[1] \in NumberStart
  BY NumberBack
<1>2. ValueText(u)
  BY <1>1 DEF ValueText, CloseArray, CloseObject, NumberStart, Digits, Minus
<1>3. ASSUME NEW s \in Seq(Nat), NEW read, NEW p \in Nat, StandsAfter(s, p, u), Peek(s, p + Len(u) + 1) \notin Digits
      PROVE  Gives(ReadValue(s, p + 1, read), <<"number", x>>, p + Len(u) + 1)
  <2>1. Gives(ReadNumber(s, p + 1), <<"number", x>>, p + Len(u) + 1)
    BY <1>3, NumberBack
  <2>2. 1 \in 1 .. Len(u)
    BY <1>1
  <2>3. \A k \in 1 .. Len(u) : p + k \in 1 .. Len(s) /\ Peek(s, p + k) = u[k]
    BY <1>3, StandsPeeks
  <2>4. Peek(s, p + 1) = u[1]
    BY Zenon, <2>2, <2>3
  <2>5. Peek(s, p + 1) \in NumberStart
    BY <1>1, <2>4
  <2>6. ReadValue(s, p + 1, read) = ReadNumber(s, p + 1)
    BY <2>5, FindsNumber
  <2> QED
    BY <2>1, <2>6
<1>4. \A s \in Seq(Nat) : \A read : FindsBack(s, read, u, <<"number", x>>)
  BY <1>3 DEF FindsBack
<1> QED
  BY <1>2, <1>4

LEMMA TextBack ==
  ASSUME NEW t \in Seq(Nat), NEW u, u = WriteString(t)
  PROVE  ValueText(u) /\ \A s \in Seq(Nat) : \A read : FindsBack(s, read, u, <<"string", t>>)
<1>1. u \in Seq(Nat) /\ Len(u) # 0 /\ u[1] = Quote
  BY StringBack
<1>2. ValueText(u)
  BY <1>1 DEF ValueText, CloseArray, CloseObject, Quote
<1>3. ASSUME NEW s \in Seq(Nat), NEW read, NEW p \in Nat, StandsAfter(s, p, u)
      PROVE  Gives(ReadValue(s, p + 1, read), <<"string", t>>, p + Len(u) + 1)
  <2> DEFINE i == p + 1
             z == p + Len(u) + 1
  <2>1. Peek(s, p + 1) = Quote /\ Gives(ReadString(s, p + 2), t, p + Len(u) + 1)
    BY <1>3, StringBack
  <2>2. i + 1 = p + 2
    OBVIOUS
  <2>3. Peek(s, i) = Quote /\ Gives(ReadString(s, i + 1), t, z)
    BY Zenon, <2>1, <2>2
  <2> HIDE DEF i, z
  <2>4. Gives(ReadValue(s, i, read), <<"string", t>>, z)
    BY <2>3, FindsString
  <2> QED
    BY Zenon, <2>4 DEF i, z
<1>4. \A s \in Seq(Nat) : \A read : FindsBack(s, read, u, <<"string", t>>)
  BY <1>3 DEF FindsBack
<1> QED
  BY <1>2, <1>4

\* Text u is body between the signs a and z.
Between(u, a, body, z) == u = <<a>> \o body \o <<z>>

BetweenStands(u, a, body, z) ==
  \A s \in Seq(Nat), p \in Nat : StandsAfter(s, p, u) =>
    Peek(s, p + 1) = a /\ StandsAfter(s, p + 1, body) /\ Peek(s, p + 1 + Len(body) + 1) = z

LEMMA BetweenIs ==
  ASSUME NEW a \in Nat, NEW z \in Nat, NEW body \in Seq(Nat), NEW u, Between(u, a, body, z)
  PROVE  /\ u \in Seq(Nat) /\ Len(u) = Len(body) + 2 /\ u[1] = a
         /\ BetweenStands(u, a, body, z)
<1> DEFINE first == <<a>>
           last == <<z>>
           c == first \o body
           n == Len(body)
           m == 1 + n
<1>1. first \in Seq(Nat) /\ Len(first) = 1 /\ first[1] = a
  OBVIOUS
<1>2. last \in Seq(Nat) /\ Len(last) = 1 /\ last[1] = z
  OBVIOUS
<1>3. u = c \o last /\ c = first \o body
  BY Zenon DEF Between
<1>4. n \in Nat /\ n = Len(body) /\ m = 1 + n
  OBVIOUS
<1> HIDE DEF first, last, c, n, m
<1>5. IsJoin(Nat, c, first, 1, body, n)
  BY <1>1, <1>3, <1>4, JoinIs
<1>6. c \in Seq(Nat) /\ Len(c) = m /\ c[1] = first[1]
  <2>1. 1 \in 1 .. 1
    OBVIOUS
  <2> QED
    BY <1>4, <1>5, <2>1 DEF IsJoin
<1>7. IsJoin(Nat, u, c, m, last, 1)
  BY <1>2, <1>3, <1>6, JoinIs
<1>8. u \in Seq(Nat) /\ Len(u) = m + 1 /\ u[1] = c[1]
  <2>1. 1 \in 1 .. m
    BY <1>4
  <2> QED
    BY <1>7, <2>1 DEF IsJoin
<1>9. ASSUME NEW s \in Seq(Nat), NEW p \in Nat, StandsAfter(s, p, u)
      PROVE  Peek(s, p + 1) = a /\ StandsAfter(s, p + 1, body) /\ Peek(s, p + 1 + Len(body) + 1) = z
  <2> DEFINE l == p + m
             i == p + 1
  <2>1. l = p + m /\ i = p + 1 /\ l + 1 = p + 1 + Len(body) + 1
    BY <1>4
  <2> HIDE DEF l, i
  <2>2. StandsAfter(s, p, c \o last)
    BY <1>3, <1>9
  <2>3. StandsAfter(s, p, c) /\ StandsAfter(s, l, last)
    BY <1>2, <1>6, <2>1, <2>2, StandsJoin
  <2>4. StandsAfter(s, p, first \o body)
    BY <1>3, <2>3
  <2>5. StandsAfter(s, p, first) /\ StandsAfter(s, i, body)
    BY <1>1, <2>1, <2>4, StandsJoin
  <2>6. \A j \in 1 .. Len(first) : p + j \in 1 .. Len(s) /\ Peek(s, p + j) = first[j]
    BY <2>5, StandsPeeks
  <2>7. \A j \in 1 .. Len(last) : l + j \in 1 .. Len(s) /\ Peek(s, l + j) = last[j]
    BY <2>3, StandsPeeks
  <2>8. 1 \in 1 .. Len(first) /\ 1 \in 1 .. Len(last)
    BY <1>1, <1>2
  <2>9. Peek(s, p + 1) = a
    BY Zenon, <1>1, <2>6, <2>8
  <2>10. Peek(s, l + 1) = z
    BY Zenon, <1>2, <2>7, <2>8
  <2> QED
    BY Zenon, <2>1, <2>5, <2>9, <2>10
<1>10. BetweenStands(u, a, body, z)
  BY <1>9 DEF BetweenStands
<1>11. Len(u) = Len(body) + 2 /\ u[1] = a
  BY <1>1, <1>4, <1>6, <1>8
<1> QED
  BY <1>8, <1>10, <1>11

LEMMA SignsAre ==
  /\ OpenArray \in Nat /\ CloseArray \in Nat /\ OpenObject \in Nat /\ CloseObject \in Nat
  /\ OpenArray \notin {CloseArray, CloseObject} /\ OpenObject \notin {CloseArray, CloseObject}
  /\ Quote # CloseObject
  BY DEF OpenArray, CloseArray, OpenObject, CloseObject, Quote

\* The first sign of texts in a row.
LEMMA FirstStands ==
  ASSUME NEW s \in Seq(Nat), NEW l, NEW q, NEW z, NEW at, ListedAt(s, l, q, z, at), Len(q) \in Nat, Len(q) # 0,
         q[1] \in Seq(Nat), Len(q[1]) # 0
  PROVE  Peek(s, l + 1) = q[1][1]
<1>1. 1 \in 1 .. Len(q)
  OBVIOUS
<1>2. at[1] = l /\ StandsAfter(s, at[1], q[1])
  BY Zenon, <1>1 DEF ListedAt
<1>3. StandsAfter(s, l, q[1])
  BY Zenon, <1>2
<1> DEFINE t == q[1]
<1>4. StandsAfter(s, l, t) /\ 1 \in 1 .. Len(t)
  BY <1>3
<1> HIDE DEF t
<1>5. \A j \in 1 .. Len(t) : l + j \in 1 .. Len(s) /\ Peek(s, l + j) = t[j]
  BY <1>4, StandsPeeks
<1> QED
  BY Zenon, <1>4, <1>5 DEF t

\* An array that is written with texts that are read as its items is read as it was.
LEMMA ItemsBack ==
  ASSUME NEW V, NEW a \in Seq(V), NEW q \in Seq(Seq(Nat)), Len(q) = Len(a), \A k \in 1 .. Len(a) : ValueText(q[k]),
         NEW u, Between(u, OpenArray, Listed(q), CloseArray)
  PROVE  /\ ValueText(u)
         /\ \A s \in Seq(Nat) : \A read :
              Reading(V, s, read) /\ (\A k \in 1 .. Len(a) : ReadsBack(s, read, q[k], a[k])) =>
                FindsBack(s, read, u, <<"array", a>>)
<1> DEFINE body == Listed(q)
           K == Len(a)
<1>1. K \in Nat /\ K = Len(a)
  OBVIOUS
<1>2. body \in Seq(Nat)
  <2>1. CASE Len(q) = 0
    <3>1. body = <<>>
      BY <2>1, ListedNone
    <3> QED
      BY <3>1
  <2>2. CASE Len(q) # 0
    BY <2>2, ListedStands
  <2> QED
    BY <2>1, <2>2
<1> HIDE DEF body, K
<1>3. Between(u, OpenArray, body, CloseArray)
  BY DEF body
<1>4. u \in Seq(Nat) /\ Len(u) = Len(body) + 2 /\ u[1] = OpenArray /\ BetweenStands(u, OpenArray, body, CloseArray)
  BY <1>2, <1>3, SignsAre, BetweenIs
<1>5. Len(body) \in Nat
  BY <1>2
<1>6. ValueText(u)
  BY <1>4, <1>5, SignsAre DEF ValueText
<1>7. ASSUME NEW s \in Seq(Nat), NEW read, Reading(V, s, read), \A k \in 1 .. K : ReadsBack(s, read, q[k], a[k]),
             NEW p \in Nat, StandsAfter(s, p, u)
      PROVE  Gives(ReadValue(s, p + 1, read), <<"array", a>>, p + Len(u) + 1)
  <2> DEFINE i == p + 1
             z == i + Len(body) + 1
             e == p + Len(u) + 1
  <2>1. i \in Nat /\ z = i + Len(body) + 1 /\ e = z + 1
    BY <1>4, <1>5
  <2>2. Peek(s, i) = OpenArray /\ StandsAfter(s, i, body) /\ Peek(s, z) = CloseArray
    BY Zenon, <1>4, <1>7 DEF BetweenStands
  <2>i. i = p + 1 /\ e = p + Len(u) + 1
    OBVIOUS
  <2>3. CASE K = 0
    <3>1. Len(q) = 0 /\ a = <<>>
      <4>1. Len(a) = 0 /\ Len(q) = 0
        BY Zenon, <1>1, <2>3
      <4> QED
        BY <4>1
    <3>2. body = <<>>
      BY <3>1, ListedNone DEF body
    <3>3. z = i + 1 /\ e = i + 2
      BY <2>1, <3>2
    <3> HIDE DEF i, z, e
    <3>4. Peek(s, i + 1) = CloseArray
      BY <2>2, <3>3
    <3>5. Gives(ReadValue(s, i, read), <<"array", <<>>>>, i + 2)
      BY <2>2, <3>4, FindsArray
    <3> QED
      BY Zenon, <2>i, <3>1, <3>3, <3>5
  <2>4. CASE K # 0
    <3> HIDE DEF i, z, e
    <3>1. Len(q) # 0 /\ Len(q) \in Nat /\ 1 \in 1 .. K
      BY <1>1, <2>4
    <3>2. \E at : ListedAt(s, i, q, i + Len(body) + 1, at)
      BY <2>1, <2>2, <3>1, ListedStands DEF body
    <3>3. PICK at : ListedAt(s, i, q, z, at)
      BY <2>1, <3>2
    <3>4. Gives(ReadArray(s, i + 1, read), a, z + 1)
      BY <1>1, <1>7, <2>2, <2>4, <3>3, ArrayBack
    <3>5. q[1] \in Seq(Nat) /\ Len(q[1]) # 0 /\ q[1][1] # CloseArray
      BY <1>1, <3>1 DEF ValueText
    <3>6. Peek(s, i + 1) = q[1][1]
      BY <3>1, <3>3, <3>5, FirstStands
    <3>7. Peek(s, i + 1) # CloseArray
      BY <3>5, <3>6
    <3>8. Gives(ReadValue(s, i, read), <<"array", a>>, z + 1)
      BY <2>2, <3>4, <3>7, FindsArray
    <3> QED
      BY Zenon, <2>1, <2>i, <3>8
  <2> QED
    BY <2>3, <2>4
<1>8. \A s \in Seq(Nat) : \A read : Reading(V, s, read) /\ (\A k \in 1 .. K : ReadsBack(s, read, q[k], a[k])) =>
                FindsBack(s, read, u, <<"array", a>>)
  BY <1>7 DEF FindsBack
<1> QED
  BY <1>6, <1>8 DEF K

\* The keys of f in some order; f holds values of V; the texts q are those of its members.
InOrder(keys, f) == keys \in Seq(Seq(Nat)) /\ {keys[j] : j \in 1 .. Len(keys)} = DOMAIN f
MapsTo(f, V) == f = [x \in DOMAIN f |-> f[x]] /\ \A x \in DOMAIN f : f[x] \in V
MemberTexts(q, keys, text) ==
  /\ q \in Seq(Seq(Nat)) /\ Len(q) = Len(keys)
  /\ \A k \in 1 .. Len(keys) : q[k] = MemberText(keys[k], text[k]) /\ text[k] \in Seq(Nat)

LEMMA InOrderIs ==
  ASSUME NEW V, NEW f, NEW keys, InOrder(keys, f), MapsTo(f, V)
  PROVE  /\ keys \in Seq(Seq(Nat)) /\ Len(keys) \in Nat /\ From(f, keys, 1) = f
         /\ \A k \in 1 .. Len(keys) : keys[k] \in Seq(Nat) /\ f[keys[k]] \in V
         /\ Len(keys) = 0 => f = <<>>
<1>1. keys \in Seq(Seq(Nat)) /\ {keys[j] : j \in 1 .. Len(keys)} = DOMAIN f
  BY DEF InOrder
<1>2. f = [x \in DOMAIN f |-> f[x]] /\ \A x \in DOMAIN f : f[x] \in V
  BY DEF MapsTo
<1>3. From(f, keys, 1) = f
  BY Zenon, <1>1, <1>2 DEF From
<1>4. Len(keys) \in Nat /\ \A k \in 1 .. Len(keys) : keys[k] \in Seq(Nat)
  BY <1>1
<1>5. \A k \in 1 .. Len(keys) : f[keys[k]] \in V
  BY <1>1, <1>2
<1>6. ASSUME Len(keys) = 0 PROVE f = <<>>
  <2>1. DOMAIN f = {}
    BY <1>1, <1>6
  <2> QED
    BY <1>2, <2>1
<1> QED
  BY <1>1, <1>3, <1>4, <1>5, <1>6

LEMMA MemberTextsAre ==
  ASSUME NEW keys, NEW q, NEW text, MemberTexts(q, keys, text), NEW k \in 1 .. Len(keys), keys[k] \in Seq(Nat)
  PROVE  q[k] \in Seq(Nat) /\ Len(q[k]) # 0 /\ q[k][1] = Quote
<1> DEFINE key == keys[k]
           t == text[k]
           u == q[k]
<1>1. key \in Seq(Nat) /\ t \in Seq(Nat) /\ u = MemberText(key, t)
  BY Zenon DEF MemberTexts
<1> HIDE DEF key, t, u
<1>2. u \in Seq(Nat) /\ Len(u) # 0 /\ u[1] = Quote
  BY <1>1, MemberTextIs
<1> QED
  BY <1>2 DEF u

\* The same of an object.
LEMMA MembersBack ==
  ASSUME NEW V, NEW f, NEW keys, InOrder(keys, f), MapsTo(f, V), NEW q, NEW text, MemberTexts(q, keys, text),
         NEW u, Between(u, OpenObject, Listed(q), CloseObject)
  PROVE  /\ ValueText(u)
         /\ \A s \in Seq(Nat) : \A read :
              Reading(V, s, read) /\ (\A k \in 1 .. Len(keys) : ReadsBack(s, read, text[k], f[keys[k]])) =>
                FindsBack(s, read, u, <<"object", f>>)
<1> DEFINE body == Listed(q)
           K == Len(keys)
<1>1. K \in Nat /\ K = Len(keys)
  BY InOrderIs
<1>q. q \in Seq(Seq(Nat)) /\ Len(q) = K
  BY DEF MemberTexts
<1>k. keys \in Seq(Seq(Nat)) /\ From(f, keys, 1) = f /\ (Len(keys) = 0 => f = <<>>)
  BY InOrderIs
<1>v. \A k \in 1 .. Len(keys) : keys[k] \in Seq(Nat) /\ f[keys[k]] \in V
  BY InOrderIs
<1>2. body \in Seq(Nat)
  <2>1. CASE Len(q) = 0
    <3>1. body = <<>>
      BY <1>q, <2>1, ListedNone
    <3> QED
      BY <3>1
  <2>2. CASE Len(q) # 0
    BY <1>q, <2>2, ListedStands
  <2> QED
    BY <2>1, <2>2
<1> HIDE DEF body, K
<1>3. Between(u, OpenObject, body, CloseObject)
  BY DEF body
<1>4. u \in Seq(Nat) /\ Len(u) = Len(body) + 2 /\ u[1] = OpenObject /\ BetweenStands(u, OpenObject, body, CloseObject)
  BY <1>2, <1>3, SignsAre, BetweenIs
<1>5. Len(body) \in Nat
  BY <1>2
<1>6. ValueText(u)
  BY <1>4, <1>5, SignsAre DEF ValueText
<1>7. ASSUME NEW s \in Seq(Nat), NEW read, Reading(V, s, read),
             \A k \in 1 .. K : ReadsBack(s, read, text[k], f[keys[k]]), NEW p \in Nat, StandsAfter(s, p, u)
      PROVE  Gives(ReadValue(s, p + 1, read), <<"object", f>>, p + Len(u) + 1)
  <2> DEFINE i == p + 1
             z == i + Len(body) + 1
             e == p + Len(u) + 1
  <2>1. i \in Nat /\ z = i + Len(body) + 1 /\ e = z + 1
    BY <1>4, <1>5
  <2>2. Peek(s, i) = OpenObject /\ StandsAfter(s, i, body) /\ Peek(s, z) = CloseObject
    BY Zenon, <1>4, <1>7 DEF BetweenStands
  <2>i. i = p + 1 /\ e = p + Len(u) + 1
    OBVIOUS
  <2>3. CASE K = 0
    <3>1. Len(q) = 0 /\ f = <<>>
      BY Zenon, <1>1, <1>k, <1>q, <2>3
    <3>2. body = <<>>
      BY <1>q, <3>1, ListedNone DEF body
    <3>3. z = i + 1 /\ e = i + 2
      BY <2>1, <3>2
    <3> HIDE DEF i, z, e
    <3>4. Peek(s, i + 1) = CloseObject
      BY <2>2, <3>3
    <3>5. Gives(ReadValue(s, i, read), <<"object", <<>>>>, i + 2)
      BY <2>2, <3>4, FindsObject
    <3> QED
      BY Zenon, <2>i, <3>1, <3>3, <3>5
  <2>4. CASE K # 0
    <3> HIDE DEF i, z, e
    <3>1. Len(q) # 0 /\ Len(q) \in Nat /\ 1 \in 1 .. K
      BY <1>1, <1>q, <2>4
    <3>2. \E at : ListedAt(s, i, q, i + Len(body) + 1, at)
      BY <1>q, <2>1, <2>2, <3>1, ListedStands DEF body
    <3>3. PICK at : ListedAt(s, i, q, z, at)
      BY <2>1, <3>2
    <3>m. \A k \in 1 .. Len(keys) : /\ q[k] = MemberText(keys[k], text[k]) /\ text[k] \in Seq(Nat)
                                    /\ ReadsBack(s, read, text[k], f[keys[k]]) /\ f[keys[k]] \in V
      BY Zenon, <1>1, <1>7, <1>v DEF MemberTexts
    <3>4. Gives(ReadObject(s, i + 1, read), From(f, keys, 1), z + 1)
      BY <1>1, <1>7, <1>k, <1>q, <2>2, <2>4, <3>3, <3>m, ObjectBack
    <3>5. q[1] \in Seq(Nat) /\ Len(q[1]) # 0 /\ q[1][1] = Quote
      <4>1. 1 \in 1 .. Len(keys) /\ keys[1] \in Seq(Nat)
        BY <1>1, <1>v, <3>1
      <4> QED
        BY <4>1, MemberTextsAre
    <3>6. Peek(s, i + 1) = q[1][1]
      BY <3>1, <3>3, <3>5, FirstStands
    <3>7. Peek(s, i + 1) # CloseObject
      BY <3>5, <3>6, SignsAre
    <3>8. Gives(ReadObject(s, i + 1, read), f, z + 1)
      BY Zenon, <1>k, <3>4
    <3>9. Gives(ReadValue(s, i, read), <<"object", f>>, z + 1)
      BY <2>2, <3>7, <3>8, FindsObject
    <3> QED
      BY Zenon, <2>1, <2>i, <3>9
  <2> QED
    BY <2>3, <2>4
<1>8. \A s \in Seq(Nat) : \A read : Reading(V, s, read) /\ (\A k \in 1 .. K : ReadsBack(s, read, text[k], f[keys[k]])) =>
                FindsBack(s, read, u, <<"object", f>>)
  BY <1>7 DEF FindsBack
<1> QED
  BY <1>6, <1>8 DEF K

\* What write_value does, by the kind of value.
ItemTexts(a, text) == [k \in DOMAIN a |-> text[a[k]]]
ValueTexts(keys, f, text) == [k \in DOMAIN keys |-> text[f[keys[k]]]]
PairTexts(keys, f, text) == [k \in DOMAIN keys |-> WriteString(keys[k]) \o <<Colon>> \o text[f[keys[k]]]]

LEMMA Writes1 ==
  ASSUME NEW x, NEW text
  PROVE  /\ WriteValue(<<"literal", x>>, text) = x
         /\ WriteValue(<<"number", x>>, text) = WriteNumber(x)
         /\ WriteValue(<<"string", x>>, text) = WriteString(x)
<1>1. WriteValue(<<"literal", x>>, text) = x
  BY Zenon DEF WriteValue
<1>2. WriteValue(<<"number", x>>, text) = WriteNumber(x)
  BY Zenon DEF WriteValue
<1>3. WriteValue(<<"string", x>>, text) = WriteString(x)
  BY Zenon DEF WriteValue
<1> QED
  BY <1>1, <1>2, <1>3

LEMMA WritesArray ==
  ASSUME NEW a, NEW text
  PROVE  Between(WriteValue(<<"array", a>>, text), OpenArray, Listed(ItemTexts(a, text)), CloseArray)
  BY Zenon DEF WriteValue, Between, ItemTexts

LEMMA WritesObject ==
  ASSUME NEW f, NEW text
  PROVE  Between(WriteValue(<<"object", f>>, text), OpenObject,
                 Listed(PairTexts(SetToSeq(DOMAIN f), f, text)), CloseObject)
  BY Zenon DEF WriteValue, Between, PairTexts

LEMMA HeldIs ==
  ASSUME NEW a, NEW k \in DOMAIN a
  PROVE  a[k] \in Held(<<"array", a>>) /\ a[k] \in Held(<<"object", a>>)
<1>1. Held(<<"array", a>>) = {a[j] : j \in DOMAIN a}
  BY DEF Held
<1>2. Held(<<"object", a>>) = {a[j] : j \in DOMAIN a}
  BY DEF Held
<1> QED
  BY <1>1, <1>2

\* How the values that stand in w are written.
HeldTexts(w, text) == \A x \in Held(w) : ValueText(text[x])
HeldBack(s, read, w, text) == \A x \in Held(w) : ReadsBack(s, read, text[x], x)

\* Text u of w is a value's, and is read as w where the texts of the values in w are read as these.
WrittenBack(V, w, text, u) ==
  /\ ValueText(u)
  /\ \A s \in Seq(Nat) : \A read : Reading(V, s, read) /\ HeldBack(s, read, w, text) => FindsBack(s, read, u, w)

LEMMA ArrayWritten ==
  ASSUME NEW V, NEW a \in Seq(V), NEW w, w = <<"array", a>>, NEW text, HeldTexts(w, text), NEW u, u = WriteValue(w, text)
  PROVE  WrittenBack(V, w, text, u)
<1> DEFINE q == ItemTexts(a, text)
           K == Len(a)
           C == Seq(Nat)
<1>1. K \in Nat /\ K = Len(a) /\ DOMAIN a = 1 .. K
  OBVIOUS
<1>2. Between(u, OpenArray, Listed(q), CloseArray)
  BY Zenon, WritesArray
<1>3. q = [k \in 1 .. K |-> text[a[k]]]
  BY Zenon, <1>1 DEF ItemTexts
<1> HIDE DEF q, K, C
<1>4. \A k \in 1 .. K : a[k] \in Held(w)
  BY <1>1, HeldIs
<1>5. \A k \in 1 .. K : ValueText(text[a[k]])
  BY <1>4 DEF HeldTexts
<1>6. \A k \in 1 .. K : text[a[k]] \in C
  BY <1>5 DEF ValueText, C
<1>7. q \in [1 .. K -> C] /\ \A k \in 1 .. K : q[k] = text[a[k]]
  BY <1>3, <1>6
<1>8. q \in Seq(C) /\ Len(q) = K
  BY <1>1, <1>7, FunctionIsSeq
<1>9. q \in Seq(Seq(Nat)) /\ Len(q) = Len(a) /\ \A k \in 1 .. Len(a) : ValueText(q[k])
  BY Zenon, <1>1, <1>5, <1>7, <1>8 DEF C
<1>10. /\ ValueText(u)
       /\ \A s \in Seq(Nat) : \A read :
            Reading(V, s, read) /\ (\A k \in 1 .. Len(a) : ReadsBack(s, read, q[k], a[k])) =>
              FindsBack(s, read, u, <<"array", a>>)
  BY <1>2, <1>9, ItemsBack
<1>11. ASSUME NEW s \in Seq(Nat), NEW read, Reading(V, s, read), HeldBack(s, read, w, text)
       PROVE  FindsBack(s, read, u, w)
  <2>1. \A k \in 1 .. Len(a) : ReadsBack(s, read, q[k], a[k])
    <3>1. \A k \in 1 .. K : ReadsBack(s, read, text[a[k]], a[k])
      BY <1>4, <1>11 DEF HeldBack
    <3> QED
      BY Zenon, <1>1, <1>7, <3>1
  <2> QED
    BY Zenon, <1>10, <1>11, <2>1
<1>12. ValueText(u)
  BY Zenon, <1>10
<1> QED
  BY Zenon, <1>11, <1>12 DEF WrittenBack

LEMMA MembersAre ==
  ASSUME NEW V, NEW f \in Members(V)
  PROVE  MapsTo(f, V) /\ InOrder(SetToSeq(DOMAIN f), f)
<1> DEFINE S == Seq(Nat)
           keys == SetToSeq(DOMAIN f)
           E == DOMAIN f
<1>1. PICK D \in Keys : f \in [D -> V]
  BY MembersIs
<1>2. D \in SUBSET S /\ IsFiniteSet(D)
  BY <1>1 DEF Keys
<1>3. E = D
  BY <1>1
<1>4. MapsTo(f, V)
  BY <1>1 DEF MapsTo
<1>5. keys \in Seq(E) /\ {keys[j] : j \in 1 .. Len(keys)} = E
  <2>1. IsFiniteSet(E) /\ keys = SetToSeq(E)
    BY <1>2, <1>3
  <2> HIDE DEF keys, E
  <2> QED
    BY <2>1, SetToSeqIs
<1> HIDE DEF keys, S, E
<1>6. keys \in Seq(S)
  <2>1. \A j \in 1 .. Len(keys) : keys[j] \in S
    BY <1>2, <1>3, <1>5
  <2> QED
    BY <1>5, <2>1
<1>7. InOrder(keys, f)
  BY Zenon, <1>5, <1>6 DEF InOrder, S, E
<1> QED
  BY <1>4, <1>7 DEF keys

LEMMA ObjectWritten ==
  ASSUME NEW V, NEW f \in Members(V), NEW w, w = <<"object", f>>, NEW text, HeldTexts(w, text),
         NEW u, u = WriteValue(w, text)
  PROVE  WrittenBack(V, w, text, u)
<1> DEFINE keys == SetToSeq(DOMAIN f)
           q == PairTexts(keys, f, text)
           t == ValueTexts(keys, f, text)
           K == Len(keys)
           C == Seq(Nat)
<1>1. MapsTo(f, V) /\ InOrder(keys, f)
  BY MembersAre
<1>2. Between(u, OpenObject, Listed(q), CloseObject)
  BY Zenon, WritesObject
<1> HIDE DEF keys
<1>3. K \in Nat /\ K = Len(keys) /\ keys \in Seq(Seq(Nat))
  BY <1>1, InOrderIs
<1>4. DOMAIN keys = 1 .. K /\ \A k \in 1 .. K : keys[k] \in DOMAIN f /\ keys[k] \in C
  BY <1>1, <1>3 DEF InOrder
<1>5. q = [k \in 1 .. K |-> WriteString(keys[k]) \o <<Colon>> \o text[f[keys[k]]]]
  BY Zenon, <1>4 DEF PairTexts
<1>6. t = [k \in 1 .. K |-> text[f[keys[k]]]]
  BY Zenon, <1>4 DEF ValueTexts
<1> HIDE DEF K, q, t, C
<1>7. \A k \in 1 .. K : f[keys[k]] \in Held(w)
  BY <1>4, HeldIs
<1>8. \A k \in 1 .. K : ValueText(text[f[keys[k]]])
  BY <1>7 DEF HeldTexts
<1>9. ASSUME NEW k \in 1 .. K
      PROVE  /\ t[k] \in C /\ q[k] = MemberText(keys[k], t[k]) /\ q[k] \in C /\ t[k] = text[f[keys[k]]]
  <2>1. t[k] = text[f[keys[k]]]
    BY <1>6
  <2>2. t[k] \in C
    BY <1>8, <2>1 DEF ValueText, C
  <2>3. q[k] = WriteString(keys[k]) \o <<Colon>> \o text[f[keys[k]]]
    BY Zenon, <1>5
  <2>4. q[k] = MemberText(keys[k], t[k])
    BY Zenon, <2>1, <2>3 DEF MemberText
  <2>5. keys[k] \in C
    BY <1>4
  <2> DEFINE key == keys[k]
             tk == t[k]
             qk == q[k]
  <2>6. key \in Seq(Nat) /\ tk \in Seq(Nat) /\ qk = MemberText(key, tk)
    BY Zenon, <2>2, <2>4, <2>5 DEF C
  <2> HIDE DEF key, tk, qk
  <2>7. qk \in Seq(Nat)
    BY <2>6, MemberTextIs
  <2> QED
    BY Zenon, <2>1, <2>2, <2>4, <2>7 DEF C, qk
<1>10. q \in [1 .. K -> C]
  <2>1. \A k \in 1 .. K : q[k] \in C
    BY <1>9
  <2>2. DOMAIN q = 1 .. K /\ q = [k \in 1 .. K |-> q[k]]
    BY <1>5
  <2> QED
    BY <2>1, <2>2
<1>11. q \in Seq(C) /\ Len(q) = K
  BY <1>3, <1>10, FunctionIsSeq
<1>12. MemberTexts(q, keys, t)
  <2>1. \A k \in 1 .. K : q[k] = MemberText(keys[k], t[k]) /\ t[k] \in C
    BY <1>9
  <2> QED
    BY Zenon, <1>3, <1>11, <2>1 DEF MemberTexts, C
<1>13. /\ ValueText(u)
       /\ \A s \in Seq(Nat) : \A read :
            Reading(V, s, read) /\ (\A k \in 1 .. Len(keys) : ReadsBack(s, read, t[k], f[keys[k]])) =>
              FindsBack(s, read, u, <<"object", f>>)
  BY <1>1, <1>2, <1>12, MembersBack
<1>14. ASSUME NEW s \in Seq(Nat), NEW read, Reading(V, s, read), HeldBack(s, read, w, text)
       PROVE  FindsBack(s, read, u, w)
  <2>1. \A k \in 1 .. K : ReadsBack(s, read, text[f[keys[k]]], f[keys[k]])
    BY <1>7, <1>14 DEF HeldBack
  <2>2. \A k \in 1 .. Len(keys) : ReadsBack(s, read, t[k], f[keys[k]])
    BY Zenon, <1>3, <1>9, <2>1
  <2> QED
    BY Zenon, <1>13, <1>14, <2>2
<1>15. ValueText(u)
  BY Zenon, <1>13
<1> QED
  BY Zenon, <1>14, <1>15 DEF WrittenBack

\* A value is written so that it is read as it was, if the values in it are.
LEMMA ValueBack ==
  ASSUME NEW V, NEW w \in Values(V), NEW text, HeldTexts(w, text), NEW u, u = WriteValue(w, text)
  PROVE  WrittenBack(V, w, text, u)
<1>1. CASE w \in Literals
  <2>1. PICK t \in Words : w = <<"literal", t>>
    BY <1>1 DEF Literals
  <2>2. u = t
    BY Zenon, <2>1, Writes1
  <2>3. ValueText(u) /\ \A s \in Seq(Nat) : \A read : FindsBack(s, read, u, w)
    BY <2>1, <2>2, LiteralBack
  <2> QED
    BY Zenon, <2>3 DEF WrittenBack
<1>2. CASE w \in Numbers
  <2>1. PICK x \in Int : w = <<"number", x>>
    BY <1>2 DEF Numbers
  <2>2. u = WriteNumber(x)
    BY Zenon, <2>1, Writes1
  <2>3. ValueText(u) /\ \A s \in Seq(Nat) : \A read : FindsBack(s, read, u, w)
    BY <2>1, <2>2, IntegerBack
  <2> QED
    BY Zenon, <2>3 DEF WrittenBack
<1>3. CASE w \in Strings
  <2>1. PICK t \in Seq(Nat) : w = <<"string", t>>
    BY <1>3 DEF Strings
  <2>2. u = WriteString(t)
    BY Zenon, <2>1, Writes1
  <2>3. ValueText(u) /\ \A s \in Seq(Nat) : \A read : FindsBack(s, read, u, w)
    BY <2>1, <2>2, TextBack
  <2> QED
    BY Zenon, <2>3 DEF WrittenBack
<1>4. CASE w \in Arrays(V)
  <2>1. PICK a \in Seq(V) : w = <<"array", a>>
    BY <1>4 DEF Arrays
  <2> QED
    BY <2>1, ArrayWritten
<1>5. CASE w \in Objects(V)
  <2>1. PICK f \in Members(V) : w = <<"object", f>>
    BY <1>5 DEF Objects
  <2> QED
    BY <2>1, ObjectWritten
<1> QED
  BY <1>1, <1>2, <1>3, <1>4, <1>5 DEF Values

-----------------------------------------------------------------------------
(***************************************************************************)
(* The levels of parse and of stringify.                                   *)
(***************************************************************************)

Top == MaxDepth + 1

\* The values that a text may hold, by the levels they may be nested.
NestedAt(g, k) == IF k = 0 THEN {} ELSE Values(g[k - 1])
NestedRun(g, n) == g = [k \in 0 .. n |-> NestedAt(g, k)]

LEMMA NestedLocal ==
  ASSUME NEW g, NEW h, NEW k, k = 0 \/ g[k - 1] = h[k - 1]
  PROVE  NestedAt(g, k) = NestedAt(h, k)
  BY Zenon DEF NestedAt

\* There are the sets of values up to each level.
LEMMA NestedRuns ==
  ASSUME NEW n \in Nat
  PROVE  \E g : NestedRun(g, n)
<1> DEFINE T == {k \in Nat : \E g : NestedRun(g, k)}
<1>1. 0 \in T
  <2> DEFINE g == [k \in 0 .. 0 |-> NestedAt(<<>>, k)]
  <2>1. \A k \in 0 .. 0 : k = 0
    OBVIOUS
  <2>2. \A k \in 0 .. 0 : NestedAt(<<>>, k) = NestedAt(g, k)
    <3> HIDE DEF g
    <3> QED
      BY <2>1, NestedLocal
  <2>3. g = [k \in 0 .. 0 |-> NestedAt(g, k)]
    BY Zenon, <2>2
  <2> HIDE DEF g
  <2>4. NestedRun(g, 0)
    BY Zenon, <2>3 DEF NestedRun
  <2> QED
    BY <2>4
<1>2. ASSUME NEW k \in T PROVE k + 1 \in T
  <2>1. k \in Nat
    OBVIOUS
  <2>2. PICK g : NestedRun(g, k)
    OBVIOUS
  <2>3. \A m \in 0 .. k : g[m] = NestedAt(g, m)
    BY <2>2 DEF NestedRun
  <2> DEFINE h == [m \in 0 .. k + 1 |-> IF m <= k THEN g[m] ELSE NestedAt(g, m)]
  <2>4. ASSUME NEW m \in 0 .. k + 1 PROVE h[m] = NestedAt(h, m)
    <3>1. h[m] = NestedAt(g, m)
      BY <2>1, <2>3
    <3>2. m = 0 \/ g[m - 1] = h[m - 1]
      BY <2>1
    <3> HIDE DEF h
    <3>3. NestedAt(g, m) = NestedAt(h, m)
      BY Zenon, <3>2, NestedLocal
    <3> QED
      BY <3>1, <3>3
  <2>5. h = [m \in 0 .. k + 1 |-> h[m]]
    OBVIOUS
  <2> HIDE DEF h
  <2>6. NestedRun(h, k + 1)
    BY <2>4, <2>5 DEF NestedRun
  <2> QED
    BY <2>1, <2>6
<1>3. T = Nat
  <2>1. T \in SUBSET Nat
    OBVIOUS
  <2> HIDE DEF T
  <2> QED
    BY <1>1, <1>2, <2>1, NatSet
<1> QED
  BY <1>3

\* What parse makes of the positions of a text, by the levels it may go down.
ParseAt(s, g, k) == [i \in 1 .. Len(s) + 1 |-> IF k = 0 THEN Nothing ELSE ReadValue(s, i, g[k - 1])]
ParseRun(s, g, n) == g = [k \in 0 .. n |-> ParseAt(s, g, k)]

LEMMA ParseLocal ==
  ASSUME NEW s, NEW g, NEW h, NEW k, k = 0 \/ g[k - 1] = h[k - 1]
  PROVE  ParseAt(s, g, k) = ParseAt(s, h, k)
  BY Zenon DEF ParseAt

\* Parse is defined.
LEMMA ParseRuns ==
  ASSUME NEW s, NEW n \in Nat
  PROVE  \E g : ParseRun(s, g, n)
<1> DEFINE T == {k \in Nat : \E g : ParseRun(s, g, k)}
<1>1. 0 \in T
  <2> DEFINE g == [k \in 0 .. 0 |-> ParseAt(s, <<>>, k)]
  <2>1. \A k \in 0 .. 0 : k = 0
    OBVIOUS
  <2>2. \A k \in 0 .. 0 : ParseAt(s, <<>>, k) = ParseAt(s, g, k)
    <3> HIDE DEF g
    <3> QED
      BY <2>1, ParseLocal
  <2>3. g = [k \in 0 .. 0 |-> ParseAt(s, g, k)]
    BY Zenon, <2>2
  <2> HIDE DEF g
  <2>4. ParseRun(s, g, 0)
    BY Zenon, <2>3 DEF ParseRun
  <2> QED
    BY <2>4
<1>2. ASSUME NEW k \in T PROVE k + 1 \in T
  <2>1. k \in Nat
    OBVIOUS
  <2>2. PICK g : ParseRun(s, g, k)
    OBVIOUS
  <2>3. \A m \in 0 .. k : g[m] = ParseAt(s, g, m)
    BY <2>2 DEF ParseRun
  <2> DEFINE h == [m \in 0 .. k + 1 |-> IF m <= k THEN g[m] ELSE ParseAt(s, g, m)]
  <2>4. ASSUME NEW m \in 0 .. k + 1 PROVE h[m] = ParseAt(s, h, m)
    <3>1. h[m] = ParseAt(s, g, m)
      BY <2>1, <2>3
    <3>2. m = 0 \/ g[m - 1] = h[m - 1]
      BY <2>1
    <3> HIDE DEF h
    <3>3. ParseAt(s, g, m) = ParseAt(s, h, m)
      BY Zenon, <3>2, ParseLocal
    <3> QED
      BY <3>1, <3>3
  <2>5. h = [m \in 0 .. k + 1 |-> h[m]]
    OBVIOUS
  <2> HIDE DEF h
  <2>6. ParseRun(s, h, k + 1)
    BY <2>4, <2>5 DEF ParseRun
  <2> QED
    BY <2>1, <2>6
<1>3. T = Nat
  <2>1. T \in SUBSET Nat
    OBVIOUS
  <2> HIDE DEF T
  <2> QED
    BY <1>1, <1>2, <2>1, NatSet
<1> QED
  BY <1>3

\* The values in a value, by how deep they stand in it.
LevelAt(v, g, k) == IF k = 0 THEN {v} ELSE UNION {Held(w) : w \in g[k - 1]}
LevelRun(v, g, n) == g = [k \in 0 .. n |-> LevelAt(v, g, k)]

LEMMA LevelLocal ==
  ASSUME NEW v, NEW g, NEW h, NEW k, k = 0 \/ g[k - 1] = h[k - 1]
  PROVE  LevelAt(v, g, k) = LevelAt(v, h, k)
  BY Zenon DEF LevelAt

\* Within is defined.
LEMMA LevelRuns ==
  ASSUME NEW v, NEW n \in Nat
  PROVE  \E g : LevelRun(v, g, n)
<1> DEFINE T == {k \in Nat : \E g : LevelRun(v, g, k)}
<1>1. 0 \in T
  <2> DEFINE g == [k \in 0 .. 0 |-> LevelAt(v, <<>>, k)]
  <2>1. \A k \in 0 .. 0 : k = 0
    OBVIOUS
  <2>2. \A k \in 0 .. 0 : LevelAt(v, <<>>, k) = LevelAt(v, g, k)
    <3> HIDE DEF g
    <3> QED
      BY <2>1, LevelLocal
  <2>3. g = [k \in 0 .. 0 |-> LevelAt(v, g, k)]
    BY Zenon, <2>2
  <2> HIDE DEF g
  <2>4. LevelRun(v, g, 0)
    BY Zenon, <2>3 DEF LevelRun
  <2> QED
    BY <2>4
<1>2. ASSUME NEW k \in T PROVE k + 1 \in T
  <2>1. k \in Nat
    OBVIOUS
  <2>2. PICK g : LevelRun(v, g, k)
    OBVIOUS
  <2>3. \A m \in 0 .. k : g[m] = LevelAt(v, g, m)
    BY <2>2 DEF LevelRun
  <2> DEFINE h == [m \in 0 .. k + 1 |-> IF m <= k THEN g[m] ELSE LevelAt(v, g, m)]
  <2>4. ASSUME NEW m \in 0 .. k + 1 PROVE h[m] = LevelAt(v, h, m)
    <3>1. h[m] = LevelAt(v, g, m)
      BY <2>1, <2>3
    <3>2. m = 0 \/ g[m - 1] = h[m - 1]
      BY <2>1
    <3> HIDE DEF h
    <3>3. LevelAt(v, g, m) = LevelAt(v, h, m)
      BY Zenon, <3>2, LevelLocal
    <3> QED
      BY <3>1, <3>3
  <2>5. h = [m \in 0 .. k + 1 |-> h[m]]
    OBVIOUS
  <2> HIDE DEF h
  <2>6. LevelRun(v, h, k + 1)
    BY <2>4, <2>5 DEF LevelRun
  <2> QED
    BY <2>1, <2>6
<1>3. T = Nat
  <2>1. T \in SUBSET Nat
    OBVIOUS
  <2> HIDE DEF T
  <2> QED
    BY <1>1, <1>2, <2>1, NatSet
<1> QED
  BY <1>3

\* How the values in a value are written, by the levels that are written.
WriteAt(v, g, k) == [w \in Within(v) |-> IF k = 0 THEN <<>> ELSE WriteValue(w, g[k - 1])]
WriteRun(v, g, n) == g = [k \in 0 .. n |-> WriteAt(v, g, k)]

LEMMA WriteLocal ==
  ASSUME NEW v, NEW g, NEW h, NEW k, k = 0 \/ g[k - 1] = h[k - 1]
  PROVE  WriteAt(v, g, k) = WriteAt(v, h, k)
  BY Zenon DEF WriteAt

\* Stringify is defined.
LEMMA WriteRuns ==
  ASSUME NEW v, NEW n \in Nat
  PROVE  \E g : WriteRun(v, g, n)
<1> DEFINE T == {k \in Nat : \E g : WriteRun(v, g, k)}
<1>1. 0 \in T
  <2> DEFINE g == [k \in 0 .. 0 |-> WriteAt(v, <<>>, k)]
  <2>1. \A k \in 0 .. 0 : k = 0
    OBVIOUS
  <2>2. \A k \in 0 .. 0 : WriteAt(v, <<>>, k) = WriteAt(v, g, k)
    <3> HIDE DEF g
    <3> QED
      BY <2>1, WriteLocal
  <2>3. g = [k \in 0 .. 0 |-> WriteAt(v, g, k)]
    BY Zenon, <2>2
  <2> HIDE DEF g
  <2>4. WriteRun(v, g, 0)
    BY Zenon, <2>3 DEF WriteRun
  <2> QED
    BY <2>4
<1>2. ASSUME NEW k \in T PROVE k + 1 \in T
  <2>1. k \in Nat
    OBVIOUS
  <2>2. PICK g : WriteRun(v, g, k)
    OBVIOUS
  <2>3. \A m \in 0 .. k : g[m] = WriteAt(v, g, m)
    BY <2>2 DEF WriteRun
  <2> DEFINE h == [m \in 0 .. k + 1 |-> IF m <= k THEN g[m] ELSE WriteAt(v, g, m)]
  <2>4. ASSUME NEW m \in 0 .. k + 1 PROVE h[m] = WriteAt(v, h, m)
    <3>1. h[m] = WriteAt(v, g, m)
      BY <2>1, <2>3
    <3>2. m = 0 \/ g[m - 1] = h[m - 1]
      BY <2>1
    <3> HIDE DEF h
    <3>3. WriteAt(v, g, m) = WriteAt(v, h, m)
      BY Zenon, <3>2, WriteLocal
    <3> QED
      BY <3>1, <3>3
  <2>5. h = [m \in 0 .. k + 1 |-> h[m]]
    OBVIOUS
  <2> HIDE DEF h
  <2>6. WriteRun(v, h, k + 1)
    BY <2>4, <2>5 DEF WriteRun
  <2> QED
    BY <2>1, <2>6
<1>3. T = Nat
  <2>1. T \in SUBSET Nat
    OBVIOUS
  <2> HIDE DEF T
  <2> QED
    BY <1>1, <1>2, <2>1, NatSet
<1> QED
  BY <1>3

\* The functions by which these are defined.
NestedSets == CHOOSE g : NestedRun(g, Top)
Reader(s) == CHOOSE g : ParseRun(s, g, Top)
Levels(v) == CHOOSE g : LevelRun(v, g, MaxDepth)
Writer(v) == CHOOSE g : WriteRun(v, g, Top)

LEMMA ParseIs ==
  ASSUME NEW s, NEW r, r = Reader(s)[Top][1]
  PROVE  Parse(s) = IF r.ok THEN (IF r.at = Len(s) + 1 THEN r ELSE Nothing) ELSE Nothing
<1>1. r = Reader(s)[MaxDepth + 1][1]
  BY Zenon DEF Top
<1>2. Reader(s) = CHOOSE g : g = [k \in 0 .. MaxDepth + 1 |-> [i \in 1 .. Len(s) + 1 |-> IF k = 0 THEN Nothing ELSE ReadValue(s, i, g[k - 1])]]
  BY Zenon DEF Reader, ParseRun, ParseAt, Top
<1> QED
  BY Zenon, <1>1, <1>2 DEF Parse, Whole

LEMMA WithinIs ==
  ASSUME NEW v
  PROVE  Within(v) = UNION {Levels(v)[n] : n \in 0 .. MaxDepth}
  BY Zenon DEF Within, Levels, LevelRun, LevelAt

LEMMA StringifyIs ==
  ASSUME NEW v
  PROVE  Stringify(v) = Writer(v)[Top][v]
  BY Zenon DEF Stringify, Writer, WriteRun, WriteAt, Top

LEMMA RunsAre ==
  ASSUME MaxDepth \in Nat
  PROVE  /\ Top \in Nat /\ Top = MaxDepth + 1
         /\ \A k \in 0 .. Top : NestedSets[k] = NestedAt(NestedSets, k)
         /\ \A s : \A k \in 0 .. Top : Reader(s)[k] = ParseAt(s, Reader(s), k)
         /\ \A v : \A k \in 0 .. MaxDepth : Levels(v)[k] = LevelAt(v, Levels(v), k)
         /\ \A v : \A k \in 0 .. Top : Writer(v)[k] = WriteAt(v, Writer(v), k)
<1>1. Top \in Nat /\ Top = MaxDepth + 1
  BY DEF Top
<1>2. NestedRun(NestedSets, Top)
  <2>1. \E g : NestedRun(g, Top)
    BY <1>1, NestedRuns
  <2> QED
    BY Zenon, <2>1 DEF NestedSets
<1>3. ASSUME NEW s PROVE ParseRun(s, Reader(s), Top)
  <2>1. \E g : ParseRun(s, g, Top)
    BY <1>1, ParseRuns
  <2> QED
    BY Zenon, <2>1 DEF Reader
<1>4. ASSUME NEW v PROVE LevelRun(v, Levels(v), MaxDepth)
  <2>1. \E g : LevelRun(v, g, MaxDepth)
    BY LevelRuns
  <2> QED
    BY Zenon, <2>1 DEF Levels
<1>5. ASSUME NEW v PROVE WriteRun(v, Writer(v), Top)
  <2>1. \E g : WriteRun(v, g, Top)
    BY <1>1, WriteRuns
  <2> QED
    BY Zenon, <2>1 DEF Writer
<1>6. \A k \in 0 .. Top : NestedSets[k] = NestedAt(NestedSets, k)
  <2> DEFINE g == NestedSets
  <2>1. NestedRun(g, Top)
    BY <1>2
  <2> HIDE DEF g
  <2>2. \A k \in 0 .. Top : g[k] = NestedAt(g, k)
    BY <2>1 DEF NestedRun
  <2> QED
    BY <2>2 DEF g
<1>7. ASSUME NEW s PROVE \A k \in 0 .. Top : Reader(s)[k] = ParseAt(s, Reader(s), k)
  <2> DEFINE g == Reader(s)
  <2>1. ParseRun(s, g, Top)
    BY <1>3
  <2> HIDE DEF g
  <2>2. \A k \in 0 .. Top : g[k] = ParseAt(s, g, k)
    BY <2>1 DEF ParseRun
  <2> QED
    BY <2>2 DEF g
<1>8. ASSUME NEW v PROVE \A k \in 0 .. MaxDepth : Levels(v)[k] = LevelAt(v, Levels(v), k)
  <2> DEFINE g == Levels(v)
  <2>1. LevelRun(v, g, MaxDepth)
    BY <1>4
  <2> HIDE DEF g
  <2>2. \A k \in 0 .. MaxDepth : g[k] = LevelAt(v, g, k)
    BY <2>1 DEF LevelRun
  <2> QED
    BY <2>2 DEF g
<1>9. ASSUME NEW v PROVE \A k \in 0 .. Top : Writer(v)[k] = WriteAt(v, Writer(v), k)
  <2> DEFINE g == Writer(v)
  <2>1. WriteRun(v, g, Top)
    BY <1>5
  <2> HIDE DEF g
  <2>2. \A k \in 0 .. Top : g[k] = WriteAt(v, g, k)
    BY <2>1 DEF WriteRun
  <2> QED
    BY <2>2 DEF g
<1> QED
  BY <1>1, <1>6, <1>7, <1>8, <1>9

\* The values in a value of a level are of the level below.
LEMMA HeldIn ==
  ASSUME NEW V, NEW w \in Values(V)
  PROVE  Held(w) \subseteq V
<1>1. CASE w \in Literals \cup Numbers \cup Strings
  <2>1. w[1] \notin {"array", "object"}
    BY <1>1 DEF Literals, Numbers, Strings
  <2>2. Held(w) = {}
    BY Zenon, <2>1 DEF Held
  <2> QED
    BY <2>2
<1>2. CASE w \in Arrays(V)
  <2>1. PICK a \in Seq(V) : w = <<"array", a>>
    BY <1>2 DEF Arrays
  <2>2. Held(w) = {a[k] : k \in DOMAIN a}
    BY <2>1 DEF Held
  <2>3. \A k \in DOMAIN a : a[k] \in V
    OBVIOUS
  <2> QED
    BY <2>2, <2>3
<1>3. CASE w \in Objects(V)
  <2>1. PICK f \in Members(V) : w = <<"object", f>>
    BY <1>3 DEF Objects
  <2>2. Held(w) = {f[k] : k \in DOMAIN f}
    BY <2>1 DEF Held
  <2>3. \A k \in DOMAIN f : f[k] \in V
    BY MembersAre DEF MapsTo
  <2> QED
    BY <2>2, <2>3
<1> QED
  BY <1>1, <1>2, <1>3 DEF Values

LEMMA ValuesMore ==
  ASSUME NEW U, NEW V, U \subseteq V
  PROVE  Values(U) \subseteq Values(V)
<1>1. ASSUME NEW w \in Arrays(U) PROVE w \in Arrays(V)
  <2>1. PICK a \in Seq(U) : w = <<"array", a>>
    BY DEF Arrays
  <2>2. a \in Seq(V)
    <3>1. \A k \in 1 .. Len(a) : a[k] \in V
      OBVIOUS
    <3> QED
      BY <3>1
  <2> QED
    BY <2>1, <2>2 DEF Arrays
<1>2. ASSUME NEW w \in Objects(U) PROVE w \in Objects(V)
  <2>1. PICK f \in Members(U) : w = <<"object", f>>
    BY DEF Objects
  <2>2. PICK D \in Keys : f \in [D -> U]
    BY MembersIs
  <2>3. f \in [D -> V]
    BY <2>2
  <2>4. f \in Members(V)
    BY <2>3, MembersIs
  <2> QED
    BY <2>1, <2>4 DEF Objects
<1> QED
  BY <1>1, <1>2 DEF Values

LEMMA NestedIs ==
  ASSUME MaxDepth \in Nat
  PROVE  NestedSets[0] = {} /\ \A k \in 0 .. MaxDepth : NestedSets[k + 1] = Values(NestedSets[k])
<1>1. Top \in Nat /\ Top = MaxDepth + 1 /\ \A k \in 0 .. Top : NestedSets[k] = NestedAt(NestedSets, k)
  BY RunsAre
<1>2. NestedSets[0] = {}
  <2>1. 0 \in 0 .. Top
    BY <1>1
  <2>2. NestedSets[0] = NestedAt(NestedSets, 0)
    BY <1>1, <2>1
  <2> QED
    BY Zenon, <2>2 DEF NestedAt
<1>3. ASSUME NEW k \in 0 .. MaxDepth PROVE NestedSets[k + 1] = Values(NestedSets[k])
  <2> DEFINE m == k + 1
  <2>1. m \in 0 .. Top /\ m # 0 /\ m - 1 = k
    BY <1>1
  <2> HIDE DEF m
  <2>2. NestedSets[m] = NestedAt(NestedSets, m)
    BY <1>1, <2>1
  <2>3. NestedSets[m] = Values(NestedSets[k])
    BY Zenon, <2>1, <2>2 DEF NestedAt
  <2> QED
    BY <2>3 DEF m
<1> QED
  BY <1>2, <1>3

\* A step of an induction up to a bound.
LEMMA UpTo ==
  ASSUME NEW n \in Nat, NEW T \in SUBSET (0 .. n), 0 \in T, \A k \in 0 .. n - 1 : k \in T => k + 1 \in T
  PROVE  T = 0 .. n
<1> DEFINE S == {k \in Nat : k <= n => k \in T}
<1>1. 0 \in S
  OBVIOUS
<1>2. ASSUME NEW k \in S PROVE k + 1 \in S
  <2>1. CASE k + 1 <= n
    <3>1. k \in Nat /\ k \in 0 .. n - 1 /\ k \in T
      BY <2>1
    <3>2. k + 1 \in T /\ k + 1 \in Nat
      BY <3>1
    <3> QED
      BY <3>2
  <2>2. CASE ~ (k + 1 <= n)
    BY <2>2
  <2> QED
    BY <2>1, <2>2
<1>3. S \in SUBSET Nat
  OBVIOUS
<1>4. S = Nat
  <2> HIDE DEF S
  <2> QED
    BY <1>1, <1>2, <1>3, NatSet
<1>5. ASSUME NEW k \in 0 .. n PROVE k \in T
  <2>1. k \in S
    BY <1>4
  <2> QED
    BY <2>1
<1> QED
  BY <1>5

\* A value of fewer levels is one of more.
LEMMA NestedGrow ==
  ASSUME MaxDepth \in Nat
  PROVE  \A k \in 0 .. Top : NestedSets[k] \subseteq NestedSets[Top]
<1> DEFINE c(k) == NestedSets[k]
           T == {k \in 0 .. MaxDepth : c(k) \subseteq c(k + 1)}
           U == {k \in 0 .. Top : c(Top - k) \subseteq c(Top)}
<1>1. Top \in Nat /\ Top = MaxDepth + 1
  BY RunsAre
<1>2. c(0) = {} /\ \A k \in 0 .. MaxDepth : c(k + 1) = Values(c(k))
  BY NestedIs
<1> HIDE DEF c
<1>3. 0 \in T
  BY <1>2
<1>4. ASSUME NEW k \in 0 .. MaxDepth - 1, k \in T PROVE k + 1 \in T
  <2> DEFINE m == k + 1
  <2>1. m \in 0 .. MaxDepth /\ m = k + 1 /\ k \in 0 .. MaxDepth
    OBVIOUS
  <2>2. c(k) \subseteq c(m)
    BY <1>4
  <2>3. c(m) = Values(c(k)) /\ c(m + 1) = Values(c(m))
    BY <1>2, <2>1
  <2> HIDE DEF m
  <2>4. c(m) \subseteq c(m + 1)
    BY <2>2, <2>3, ValuesMore
  <2>5. m \in T
    BY <2>1, <2>4
  <2> QED
    BY <2>5 DEF m
<1>5. T = 0 .. MaxDepth
  <2>1. T \in SUBSET (0 .. MaxDepth)
    OBVIOUS
  <2> HIDE DEF T
  <2> QED
    BY <1>3, <1>4, <2>1, UpTo
<1>6. 0 \in U
  <2>1. Top - 0 = Top /\ 0 \in 0 .. Top
    BY <1>1
  <2> QED
    BY <2>1
<1>7. ASSUME NEW k \in 0 .. Top - 1, k \in U PROVE k + 1 \in U
  <2> DEFINE m == Top - (k + 1)
  <2>1. m \in 0 .. MaxDepth /\ m + 1 = Top - k /\ k + 1 \in 0 .. Top
    BY <1>1
  <2>2. m \in T
    BY <1>5, <2>1
  <2>3. c(m) \subseteq c(Top - k)
    BY <2>1, <2>2
  <2>4. c(Top - k) \subseteq c(Top)
    BY <1>7
  <2> QED
    BY <2>1, <2>3, <2>4
<1>8. U = 0 .. Top
  <2>1. U \in SUBSET (0 .. Top)
    OBVIOUS
  <2> HIDE DEF U, T
  <2> QED
    BY <1>1, <1>6, <1>7, <2>1, UpTo
<1>9. ASSUME NEW k \in 0 .. Top PROVE c(k) \subseteq c(Top)
  <2> DEFINE m == Top - k
  <2>1. m \in 0 .. Top /\ Top - m = k
    BY <1>1
  <2> HIDE DEF m
  <2>2. c(Top - m) \subseteq c(Top)
    BY <1>8, <2>1
  <2> QED
    BY <2>1, <2>2
<1> QED
  BY <1>9 DEF c

\* What parse reads at each level is a value of the level.
LEMMA ReaderIs ==
  ASSUME MaxDepth \in Nat, NEW s \in Seq(Nat)
  PROVE  /\ \A k \in 0 .. Top : Reading(NestedSets[k], s, Reader(s)[k])
         /\ \A k \in 0 .. MaxDepth : \A i \in 1 .. Len(s) + 1 : Reader(s)[k + 1][i] = ReadValue(s, i, Reader(s)[k])
<1> DEFINE c(k) == NestedSets[k]
           g(k) == Reader(s)[k]
           n == Len(s) + 1
           T == {k \in 0 .. Top : Reading(c(k), s, g(k))}
<1>1. Top \in Nat /\ Top = MaxDepth + 1 /\ n = Len(s) + 1
  BY RunsAre
<1>2. \A k \in 0 .. MaxDepth : c(k + 1) = Values(c(k))
  BY NestedIs
<1>3. \A k \in 0 .. Top : g(k) = ParseAt(s, Reader(s), k)
  BY RunsAre
<1>4. ASSUME NEW k \in 0 .. MaxDepth PROVE \A i \in 1 .. n : g(k + 1)[i] = ReadValue(s, i, g(k))
  <2> DEFINE m == k + 1
  <2>1. m \in 0 .. Top /\ m # 0 /\ m - 1 = k
    BY <1>1
  <2>2. g(m) = ParseAt(s, Reader(s), m)
    BY <1>3, <2>1
  <2> HIDE DEF m
  <2>3. g(m) = [i \in 1 .. n |-> ReadValue(s, i, Reader(s)[k])]
    BY Zenon, <1>1, <2>1, <2>2 DEF ParseAt
  <2>4. \A i \in 1 .. n : g(m)[i] = ReadValue(s, i, g(k))
    BY Zenon, <2>3
  <2> QED
    BY Zenon, <2>4 DEF m
<1>5. \A i \in 1 .. n : g(0)[i] = Nothing
  <2>1. 0 \in 0 .. Top
    BY <1>1
  <2>2. g(0) = ParseAt(s, Reader(s), 0)
    BY <1>3, <2>1
  <2>3. g(0) = [i \in 1 .. n |-> Nothing]
    BY Zenon, <1>1, <2>2 DEF ParseAt
  <2> QED
    BY Zenon, <2>3
<1> HIDE DEF c, g, n
<1>6. 0 \in T
  <2>1. \A i \in 1 .. n : g(0)[i] \in Out(c(0), i, n)
    BY <1>5, OutNothing
  <2>2. Reading(c(0), s, g(0))
    BY Zenon, <1>1, <2>1 DEF Reading
  <2> QED
    BY <1>1, <2>2
<1>7. ASSUME NEW k \in 0 .. Top - 1, k \in T PROVE k + 1 \in T
  <2> DEFINE r == g(k)
             V == c(k)
             m == k + 1
  <2>1. k \in 0 .. MaxDepth /\ m \in 0 .. Top
    BY <1>1
  <2>2. Reading(V, s, r)
    BY <1>7
  <2>3. c(m) = Values(V) /\ \A i \in 1 .. n : g(m)[i] = ReadValue(s, i, r)
    BY <1>2, <1>4, <2>1
  <2> HIDE DEF r, V, m
  <2>4. \A i \in 1 .. n : ReadValue(s, i, r) \in Out(Values(V), i, n)
    BY <1>1, <2>2, ValueOut
  <2>5. \A i \in 1 .. n : g(m)[i] \in Out(c(m), i, n)
    BY <2>3, <2>4
  <2>6. Reading(c(m), s, g(m))
    BY Zenon, <1>1, <2>5 DEF Reading
  <2>7. m \in T
    BY <2>1, <2>6
  <2> QED
    BY <2>7 DEF m
<1>8. T = 0 .. Top
  <2>1. T \in SUBSET (0 .. Top)
    OBVIOUS
  <2> HIDE DEF T
  <2> QED
    BY <1>1, <1>6, <1>7, <2>1, UpTo
<1>9. \A k \in 0 .. Top : Reading(c(k), s, g(k))
  BY <1>8
<1> QED
  BY Zenon, <1>1, <1>4, <1>9 DEF c, g

\* What parse makes of a text is a value.
LEMMA ParsedIs ==
  ASSUME MaxDepth \in Nat, NEW s \in Seq(Nat), Parse(s).ok
  PROVE  Parse(s).value \in NestedSets[Top]
<1> DEFINE r == Reader(s)[Top][1]
           V == NestedSets[Top]
           read == Reader(s)[Top]
           n == Len(s) + 1
<1>1. Top \in Nat
  BY RunsAre
<1>2. Reading(V, s, read)
  <2>1. Top \in 0 .. Top
    BY <1>1
  <2> QED
    BY <2>1, ReaderIs
<1>3. 1 \in 1 .. n /\ n = Len(s) + 1
  OBVIOUS
<1>4. r \in Out(V, 1, n)
  <2> HIDE DEF V, read, n
  <2>1. read[1] \in Out(V, 1, n)
    BY <1>2, <1>3 DEF Reading
  <2> QED
    BY Zenon, <2>1 DEF read
<1>5. Parse(s) = IF r.ok THEN (IF r.at = n THEN r ELSE Nothing) ELSE Nothing
  BY Zenon, ParseIs
<1>6. Nothing.ok = FALSE
  BY GotIs
<1> HIDE DEF r, V, n
<1>7. Parse(s) = r /\ r.ok
  BY <1>5, <1>6
<1>8. r.value \in V
  BY <1>4, <1>7, OutIs
<1> QED
  BY <1>7, <1>8 DEF V

\* The values that stand in a value k levels deep are of that many levels less.
LEMMA LevelsIn ==
  ASSUME MaxDepth \in Nat, NEW v \in NestedSets[Top]
  PROVE  /\ \A k \in 0 .. MaxDepth : Levels(v)[k] \subseteq NestedSets[Top - k] /\ Levels(v)[k] \subseteq Within(v)
         /\ v \in Levels(v)[0]
         /\ \A k \in 0 .. MaxDepth - 1 : \A w \in Levels(v)[k] : Held(w) \subseteq Levels(v)[k + 1]
         /\ Within(v) \subseteq NestedSets[Top]
<1> DEFINE c(k) == NestedSets[k]
           l(k) == Levels(v)[k]
           T == {k \in 0 .. MaxDepth : l(k) \subseteq c(Top - k)}
<1>1. Top \in Nat /\ Top = MaxDepth + 1
  BY RunsAre
<1>2. \A k \in 0 .. MaxDepth : c(k + 1) = Values(c(k))
  BY NestedIs
<1>3. \A k \in 0 .. MaxDepth : l(k) = LevelAt(v, Levels(v), k)
  BY RunsAre
<1>4. l(0) = {v}
  <2>1. 0 \in 0 .. MaxDepth
    OBVIOUS
  <2>2. l(0) = LevelAt(v, Levels(v), 0)
    BY <1>3, <2>1
  <2> QED
    BY Zenon, <2>2 DEF LevelAt
<1>5. ASSUME NEW k \in 0 .. MaxDepth - 1 PROVE l(k + 1) = UNION {Held(w) : w \in l(k)}
  <2> DEFINE m == k + 1
  <2>1. m \in 0 .. MaxDepth /\ m # 0 /\ m - 1 = k
    OBVIOUS
  <2>2. l(m) = LevelAt(v, Levels(v), m)
    BY <1>3, <2>1
  <2> HIDE DEF m
  <2>3. l(m) = UNION {Held(w) : w \in l(k)}
    BY Zenon, <2>1, <2>2 DEF LevelAt
  <2> QED
    BY Zenon, <2>3 DEF m
<1>6. Within(v) = UNION {l(k) : k \in 0 .. MaxDepth}
  BY Zenon, WithinIs
<1>7. \A k \in 0 .. Top : c(k) \subseteq c(Top)
  BY NestedGrow
<1>8. v \in c(Top)
  OBVIOUS
<1> HIDE DEF c, l
<1>9. 0 \in T
  <2>1. Top - 0 = Top
    BY <1>1
  <2> QED
    BY <1>4, <1>8, <2>1
<1>10. ASSUME NEW k \in 0 .. MaxDepth - 1, k \in T PROVE k + 1 \in T
  <2> DEFINE m == Top - (k + 1)
  <2>1. m \in 0 .. MaxDepth /\ m + 1 = Top - k /\ k + 1 \in 0 .. MaxDepth
    BY <1>1
  <2>2. c(Top - k) = Values(c(m))
    BY <1>2, <2>1
  <2>3. l(k) \subseteq Values(c(m))
    BY <1>10, <2>2
  <2>4. \A w \in l(k) : Held(w) \subseteq c(m)
    BY <2>3, HeldIn
  <2>5. l(k + 1) \subseteq c(m)
    BY <1>5, <2>4
  <2> QED
    BY <2>1, <2>5
<1>11. T = 0 .. MaxDepth
  <2>1. T \in SUBSET (0 .. MaxDepth)
    OBVIOUS
  <2> HIDE DEF T
  <2> QED
    BY <1>9, <1>10, <2>1, UpTo
<1>12. \A k \in 0 .. MaxDepth : l(k) \subseteq c(Top - k)
  BY <1>11
<1>13. \A k \in 0 .. MaxDepth : l(k) \subseteq Within(v)
  BY Zenon, <1>6
<1>14. Within(v) \subseteq c(Top)
  <2>1. ASSUME NEW k \in 0 .. MaxDepth PROVE l(k) \subseteq c(Top)
    <3>1. Top - k \in 0 .. Top
      BY <1>1
    <3> QED
      BY <1>7, <1>12, <3>1
  <2> QED
    BY <1>6, <2>1
<1>15. \A k \in 0 .. MaxDepth - 1 : \A w \in l(k) : Held(w) \subseteq l(k + 1)
  BY <1>5
<1> QED
  BY <1>4, <1>12, <1>13, <1>14, <1>15 DEF c, l

\* How the values in a value are written, level by level.
LEMMA WriterIs ==
  ASSUME MaxDepth \in Nat, NEW v
  PROVE  \A k \in 0 .. MaxDepth : \A w \in Within(v) : Writer(v)[k + 1][w] = WriteValue(w, Writer(v)[k])
<1>1. Top = MaxDepth + 1 /\ \A k \in 0 .. Top : Writer(v)[k] = WriteAt(v, Writer(v), k)
  BY RunsAre
<1> SUFFICES ASSUME NEW k \in 0 .. MaxDepth, NEW w \in Within(v)
             PROVE  Writer(v)[k + 1][w] = WriteValue(w, Writer(v)[k])
  OBVIOUS
<1> DEFINE m == k + 1
<1>2. m \in 0 .. Top /\ m # 0 /\ m - 1 = k
  BY <1>1
<1>3. Writer(v)[m] = WriteAt(v, Writer(v), m)
  BY <1>1, <1>2
<1> HIDE DEF m
<1>4. Writer(v)[m] = [x \in Within(v) |-> WriteValue(x, Writer(v)[k])]
  BY Zenon, <1>2, <1>3 DEF WriteAt
<1>5. Writer(v)[m][w] = WriteValue(w, Writer(v)[k])
  BY Zenon, <1>4
<1> QED
  BY Zenon, <1>5 DEF m

\* Of the values of k levels in v, those that stand so deep that k levels are left: how each is
\* written, and read.
LevelBack(v, k, w) ==
  /\ ValueText(Writer(v)[k][w])
  /\ \A s \in Seq(Nat) : ReadsBack(s, Reader(s)[k], Writer(v)[k][w], w)

\* What value_at finds at a position, parse does at the level above.
LEMMA FoundIsRead ==
  ASSUME NEW s \in Seq(Nat), NEW read, NEW above, NEW u, NEW w, FindsBack(s, read, u, w),
         \A i \in 1 .. Len(s) + 1 : above[i] = ReadValue(s, i, read)
  PROVE  ReadsBack(s, above, u, w)
<1>1. ASSUME NEW p \in Nat, StandsAfter(s, p, u), Peek(s, p + Len(u) + 1) \notin Digits
      PROVE  Gives(above[p + 1], w, p + Len(u) + 1)
  <2>1. p + 1 \in 1 .. Len(s) + 1
    BY <1>1, StandsPositions
  <2>2. Gives(ReadValue(s, p + 1, read), w, p + Len(u) + 1)
    BY Zenon, <1>1 DEF FindsBack
  <2>3. above[p + 1] = ReadValue(s, p + 1, read)
    BY <2>1
  <2> QED
    BY Zenon, <2>2, <2>3
<1> QED
  BY Zenon, <1>1 DEF ReadsBack

LEMMA LevelStep ==
  ASSUME MaxDepth \in Nat, NEW v, NEW k \in 0 .. MaxDepth, NEW w \in NestedSets[k + 1], w \in Within(v),
         \A x \in Held(w) : LevelBack(v, k, x)
  PROVE  LevelBack(v, k + 1, w)
<1> DEFINE V == NestedSets[k]
           text == Writer(v)[k]
           u == Writer(v)[k + 1][w]
<1>1. w \in Values(V)
  BY NestedIs
<1>2. u = WriteValue(w, text)
  BY WriterIs
<1>3. HeldTexts(w, text)
  BY Zenon DEF HeldTexts, LevelBack
<1>4. WrittenBack(V, w, text, u)
  <2> HIDE DEF V, text, u
  <2> QED
    BY <1>1, <1>2, <1>3, ValueBack
<1>5. ASSUME NEW s \in Seq(Nat) PROVE ReadsBack(s, Reader(s)[k + 1], u, w)
  <2> DEFINE read == Reader(s)[k]
             above == Reader(s)[k + 1]
  <2>1. \A i \in 1 .. Len(s) + 1 : above[i] = ReadValue(s, i, read)
    BY ReaderIs
  <2>2. Reading(V, s, read)
    <3>1. k \in 0 .. Top
      BY RunsAre
    <3> QED
      BY <3>1, ReaderIs
  <2>3. HeldBack(s, read, w, text)
    BY Zenon DEF HeldBack, LevelBack
  <2>4. FindsBack(s, read, u, w)
    BY Zenon, <1>4, <2>2, <2>3 DEF WrittenBack
  <2> HIDE DEF read, above, u, V, text
  <2>5. ReadsBack(s, above, u, w)
    BY <2>1, <2>4, FoundIsRead
  <2> QED
    BY Zenon, <2>5 DEF above
<1>6. ValueText(u)
  BY Zenon, <1>4 DEF WrittenBack
<1> QED
  BY Zenon, <1>5, <1>6 DEF LevelBack

LEMMA LevelsBack ==
  ASSUME MaxDepth \in Nat, NEW v \in NestedSets[Top]
  PROVE  LevelBack(v, Top, v)
<1> DEFINE l(k) == Levels(v)[k]
           T == {k \in 0 .. MaxDepth : \A w \in l(MaxDepth - k) : LevelBack(v, k + 1, w)}
<1>1. Top = MaxDepth + 1
  BY RunsAre
<1>2. /\ \A k \in 0 .. MaxDepth : l(k) \subseteq NestedSets[Top - k] /\ l(k) \subseteq Within(v)
      /\ v \in l(0)
      /\ \A k \in 0 .. MaxDepth - 1 : \A w \in l(k) : Held(w) \subseteq l(k + 1)
  BY LevelsIn
<1>3. NestedSets[0] = {}
  BY NestedIs
<1> HIDE DEF l
<1>4. ASSUME NEW k \in 0 .. MaxDepth, NEW w \in l(MaxDepth - k), \A x \in Held(w) : LevelBack(v, k, x)
      PROVE  LevelBack(v, k + 1, w)
  <2> DEFINE m == MaxDepth - k
  <2>1. m \in 0 .. MaxDepth /\ Top - m = k + 1
    BY <1>1
  <2>2. w \in NestedSets[k + 1] /\ w \in Within(v)
    BY <1>2, <2>1
  <2> QED
    BY <1>4, <2>2, LevelStep
<1>5. 0 \in T
  <2>1. ASSUME NEW w \in l(MaxDepth - 0) PROVE LevelBack(v, 0 + 1, w)
    <3>1. w \in NestedSets[1]
      <4>1. MaxDepth - 0 \in 0 .. MaxDepth /\ Top - (MaxDepth - 0) = 1
        BY <1>1
      <4> QED
        BY <1>2, <4>1
    <3>2. w \in Values(NestedSets[0])
      <4>1. 0 \in 0 .. MaxDepth /\ 0 + 1 = 1
        OBVIOUS
      <4> QED
        BY <3>1, <4>1, NestedIs
    <3>3. Held(w) \subseteq {}
      BY <1>3, <3>2, HeldIn
    <3>4. 0 \in 0 .. MaxDepth
      OBVIOUS
    <3> QED
      BY <1>4, <3>3, <3>4
  <2> QED
    BY <2>1
<1>6. ASSUME NEW k \in 0 .. MaxDepth - 1, k \in T PROVE k + 1 \in T
  <2> DEFINE j == k + 1
             m == MaxDepth - j
  <2>1. j \in 0 .. MaxDepth /\ m \in 0 .. MaxDepth - 1 /\ m + 1 = MaxDepth - k
    OBVIOUS
  <2>2. \A x \in l(m + 1) : LevelBack(v, j, x)
    BY <1>6, <2>1
  <2>3. \A w \in l(m) : Held(w) \subseteq l(m + 1)
    BY <1>2, <2>1
  <2>4. \A w \in l(m) : LevelBack(v, j + 1, w)
    BY <1>4, <2>1, <2>2, <2>3
  <2>5. j \in T
    BY <2>1, <2>4
  <2> QED
    BY <2>5
<1>7. T = 0 .. MaxDepth
  <2>1. T \in SUBSET (0 .. MaxDepth)
    OBVIOUS
  <2> HIDE DEF T
  <2> QED
    BY <1>5, <1>6, <2>1, UpTo
<1>8. \A w \in l(MaxDepth - MaxDepth) : LevelBack(v, MaxDepth + 1, w)
  <2>1. MaxDepth \in 0 .. MaxDepth
    OBVIOUS
  <2>2. MaxDepth \in T
    BY Zenon, <1>7, <2>1
  <2> QED
    BY Zenon, <2>2
<1>9. LevelBack(v, MaxDepth + 1, v)
  <2>1. MaxDepth - MaxDepth = 0
    OBVIOUS
  <2>2. v \in l(MaxDepth - MaxDepth)
    BY Zenon, <1>2, <2>1
  <2> QED
    BY Zenon, <1>8, <2>2
<1> QED
  BY <1>1, <1>9

\* What stringify writes of a value that may be read, parse reads as it was.
LEMMA ParseBack ==
  ASSUME MaxDepth \in Nat, NEW v \in NestedSets[Top], NEW t, t = Stringify(v)
  PROVE  Parse(t).ok /\ Parse(t).value = v
<1> DEFINE r == Reader(t)[Top][1]
           n == Len(t)
<1>1. t = Writer(v)[Top][v]
  BY Zenon, StringifyIs
<1>2. LevelBack(v, Top, v)
  BY LevelsBack
<1>3. ValueText(t) /\ \A s \in Seq(Nat) : ReadsBack(s, Reader(s)[Top], t, v)
  BY Zenon, <1>1, <1>2 DEF LevelBack
<1>4. t \in Seq(Nat) /\ n \in Nat
  BY <1>3 DEF ValueText
<1>5. ReadsBack(t, Reader(t)[Top], t, v)
  BY <1>3, <1>4
<1>6. StandsAfter(t, 0, t)
  BY <1>4 DEF StandsAfter
<1>7. Peek(t, n + 1) \notin Digits
  <2>1. n + 1 \notin DOMAIN t
    BY <1>4
  <2>2. Peek(t, n + 1) = -1
    BY Zenon, <2>1 DEF Peek
  <2> QED
    BY <2>2 DEF Digits
<1>8. Gives(r, v, n + 1)
  <2>1. 0 \in Nat /\ 1 = 0 + 1 /\ n + 1 = 0 + Len(t) + 1
    BY <1>4
  <2> DEFINE read == Reader(t)[Top]
             e == n + 1
  <2>2. e = 0 + Len(t) + 1 /\ Peek(t, e) \notin Digits /\ ReadsBack(t, read, t, v)
    BY <1>5, <1>7, <2>1
  <2> HIDE DEF read, e
  <2>3. Gives(read[1], v, e)
    BY <1>6, <2>1, <2>2, ReadsBackAt
  <2> QED
    BY Zenon, <2>3 DEF read, e
<1>9. Parse(t) = IF r.ok THEN (IF r.at = n + 1 THEN r ELSE Nothing) ELSE Nothing
  BY Zenon, ParseIs
<1>10. r.ok = TRUE /\ r.value = v /\ r.at = n + 1
  <2> HIDE DEF r, n
  <2> QED
    BY <1>8, GivesIs
<1>11. Parse(t) = r
  BY Zenon, <1>9, <1>10
<1> QED
  BY Zenon, <1>10, <1>11

\* Every part of a text that was accepted, written as text of its own, is read back as it was.
LEMMA JsonBack ==
  ASSUME MaxDepth \in Nat, NEW s \in Seq(Nat)
  PROVE  PartsReturn(s)
<1> SUFFICES ASSUME Parse(s).ok, NEW v \in Within(Parse(s).value)
             PROVE  Parse(Stringify(v)).ok /\ Parse(Stringify(v)).value = v
  BY Zenon DEF PartsReturn, PartsOf, Returns
<1> DEFINE w == Parse(s).value
<1>1. w \in NestedSets[Top]
  BY ParsedIs
<1>2. Within(w) \subseteq NestedSets[Top]
  <2> HIDE DEF w
  <2> QED
    BY <1>1, LevelsIn
<1>3. v \in NestedSets[Top]
  BY <1>2
<1> QED
  BY <1>3, ParseBack

-----------------------------------------------------------------------------
(***************************************************************************)
(* Dates, for every day there is.  A day has one place in the calendar:    *)
(* the era of 400 years, the century c of it, the four years q, the year k *)
(* and the day d of that year.                                             *)
(***************************************************************************)

\* The year of a day of an era, as the code computes it, and the first day of a year:
\* years start on 1 March, and an era of 400 of them on that of a year divisible by 400.
YearOf(doe) == (doe - (doe \div 1460) + CenturyDays(doe) - (doe \div 146096)) \div 365
YearStart(y) == 365 * y + (y \div 4) - (y \div 100)

\* The day d of the year k of the four years q of the century c of an era.
InCalendar(c, q, k, d) ==
  /\ c \in 0 .. 3 /\ q \in 0 .. 24 /\ k \in 0 .. 3 /\ d \in 0 .. 365
  /\ d = 365 => k = 3 /\ (q # 24 \/ c = 3)

\* The days of an era; the one that InCalendar names, and its year.
InEra(doe) == doe \in Int /\ 0 <= doe /\ doe <= 146096
EraDay(c, q, k, d) == 36524 * c + 1461 * q + 365 * k + d
EraYear(c, q, k) == 100 * c + 4 * q + k

\* The day is one of a year of the era.
InSomeYear(doe) ==
  \E c, q, k, d : InCalendar(c, q, k, d) /\ doe = EraDay(c, q, k, d)

\* The date of the day doy of the year that starts on 1 March of the year y.
DateOf(y, doy) ==
  LET mp == (5 * doy + 2) \div 153
      m == IF mp < 10 THEN mp + 3 ELSE mp - 9
  IN  <<IF m <= 2 THEN y + 1 ELSE y, m, doy - ((153 * mp + 2) \div 5) + 1>>

\* The day z is that day of the calendar, in the era.
Stands(z, era, c, q, k, d) ==
  /\ era \in Int /\ InCalendar(c, q, k, d)
  /\ z + 719468 = 146097 * era + EraDay(c, q, k, d)

\* The year of a day of the calendar is the one the code computes from the days alone.
LEMMA YearFound ==
  ASSUME NEW c \in 0 .. 3, NEW q \in 0 .. 24, NEW k \in 0 .. 3, NEW d \in 0 .. 365,
         InCalendar(c, q, k, d)
  PROVE  LET doe == EraDay(c, q, k, d)  y == EraYear(c, q, k)
         IN  YearOf(doe) = y /\ YearStart(y) = doe - d /\ InEra(doe)
<1> SUFFICES ASSUME NEW doe, doe = EraDay(c, q, k, d)
             PROVE  YearOf(doe) = EraYear(c, q, k) /\ YearStart(EraYear(c, q, k)) = doe - d /\ InEra(doe)
  BY Zenon
<1> USE DEF EraDay, EraYear, InEra
<1> DEFINE s == 365 * k + d  y == EraYear(c, q, k)
<1>1. s \in 0 .. 1460 /\ (s = 1460 <=> d = 365)
  <2>1. d = 365 => k = 3
    BY SMT DEF InCalendar
  <2> QED
    BY SMT, <2>1
<1>2. doe = 36524 * c + 1461 * q + s
  BY SMT
<1>3. s = 1460 => q # 24 \/ c = 3
  BY SMT, <1>1 DEF InCalendar
<1>4. y \div 4 = 25 * c + q /\ y \div 100 = c /\ y \in Nat
  BY SMT
<1>5. YearStart(y) = doe - d
  BY SMT, <1>4 DEF YearStart
<1> HIDE DEF s
<1>6. doe \in Int /\ 0 <= doe /\ doe <= 146096 /\ (doe = 146096 <=> c = 3 /\ q = 24 /\ s = 1460)
  BY SMT, <1>1, <1>2, <1>3
<1>7. CASE doe = 146096
  <2>1. YearOf(doe) = 399
    BY SMT, <1>7 DEF YearOf, CenturyDays
  <2>2. c = 3 /\ q = 24 /\ k = 3
    BY SMT, <1>6, <1>1, <1>7 DEF InCalendar
  <2> QED
    BY SMT, <2>1, <2>2, <1>5, <1>6
<1>8. CASE doe # 146096
  <2>1. 1461 * q + s < 36524 /\ 1461 * q + s >= 0
    BY SMT, <1>1, <1>3, <1>6, <1>8, <1>2
  <2>2. doe \div 36524 = c
    BY SMT, <1>2, <2>1, <1>1
  <2>3. doe \div 146096 = 0
    BY SMT, <1>6, <1>8
  <2> DEFINE e == IF 24 * c + q + s >= 1460 THEN 1 ELSE 0
  <2>4. doe \div 1460 = 25 * c + q + e
    <3>1. CASE 24 * c + q + s >= 1460
      <4>1. 1460 * (25 * c + q + 1) <= doe /\ doe < 1460 * (25 * c + q + 1) + 1460
        BY SMT, <3>1, <1>1, <1>2
      <4>2. 25 * c + q + 1 \in Int /\ doe \in Int
        BY SMT, <1>6
      <4>3. doe \div 1460 = 25 * c + q + 1
        BY SMT, <4>1, <4>2
      <4> QED
        BY SMT, <4>3, <3>1
    <3>2. CASE ~ (24 * c + q + s >= 1460)
      <4>1. 1460 * (25 * c + q) <= doe /\ doe < 1460 * (25 * c + q) + 1460
        BY SMT, <3>2, <1>1, <1>2
      <4>2. 25 * c + q \in Int /\ doe \in Int
        BY SMT, <1>6
      <4>3. doe \div 1460 = 25 * c + q
        BY SMT, <4>1, <4>2
      <4> QED
        BY SMT, <4>3, <3>2
    <3> QED
      BY SMT, <3>1, <3>2
  <2>5. d - e \in 0 .. 364
    <3>1. s = 365 * k + d
      BY SMT DEF s
    <3>2. 24 * c + q <= 96
      BY SMT
    <3>3. CASE 24 * c + q + s >= 1460
      <4>1. s >= 1364
        BY SMT, <3>2, <3>3, <1>1
      <4>2. d >= 1
        BY SMT, <4>1, <3>1
      <4> QED
        BY SMT, <4>2, <3>3
    <3>4. CASE ~ (24 * c + q + s >= 1460)
      <4>1. s < 1460
        BY SMT, <3>4, <1>1
      <4>2. d # 365
        BY SMT, <4>1, <1>1, SMT
      <4> QED
        BY SMT, <4>2, <3>4
    <3> QED
      BY SMT, <3>3, <3>4
  <2>6. e \in {0, 1}
    BY SMT
  <2>7. 365 * y + (d - e) = doe - (25 * c + q + e) + c - 0
    <3>1. s = 365 * k + d
      BY SMT DEF s
    <3> HIDE DEF e
    <3> QED
      BY SMT, <1>2, <2>6, <3>1
  <2> HIDE DEF e, y
  <2>8. YearOf(doe) = (365 * y + (d - e)) \div 365
    BY SMT, <2>2, <2>3, <2>4, <2>7 DEF YearOf, CenturyDays
  <2>9. YearOf(doe) = y
    BY SMT, <2>8, <2>5, <2>6, <1>4
  <2> QED
    BY SMT, <2>9, <1>5, <1>6 DEF y
<1> QED
  BY SMT, <1>7, <1>8

\* A day of the calendar is a day of some year.
LEMMA OneYear ==
  ASSUME NEW c, NEW q, NEW k, NEW d, InCalendar(c, q, k, d)
  PROVE  InSomeYear(EraDay(c, q, k, d))
  BY Zenon DEF InSomeYear

\* Every day of an era is a day of the calendar.
LEMMA YearExists ==
  ASSUME NEW doe, InEra(doe)
  PROVE  InSomeYear(doe)
<1> USE DEF InEra
<1>1. CASE doe = 146096
  <2>1. InCalendar(3, 24, 3, 365) /\ doe = EraDay(3, 24, 3, 365)
    BY SMT, <1>1 DEF InCalendar, EraDay
  <2>2. InSomeYear(EraDay(3, 24, 3, 365))
    BY SMT, <2>1, OneYear
  <2> QED
    BY SMT, <2>1, <2>2
<1>2. CASE doe # 146096
  <2> DEFINE c == doe \div 36524  r == doe % 36524  q == r \div 1461  s == r % 1461
             k == IF s = 1460 THEN 3 ELSE s \div 365  d == s - 365 * k
  <2>1. c \in 0 .. 3 /\ r \in Int /\ 0 <= r /\ r <= 36523 /\ doe = 36524 * c + r
    BY SMT, <1>2
  <2>2. q \in 0 .. 24 /\ s \in 0 .. 1460 /\ r = 1461 * q + s
    <3> HIDE DEF r
    <3> QED
      BY SMT, <2>1
  <2>3. k \in 0 .. 3 /\ d \in 0 .. 365 /\ (d = 365 => k = 3 /\ s = 1460) /\ s = 365 * k + d
    <3> HIDE DEF s
    <3>1. CASE s = 1460
      BY SMT, <3>1
    <3>2. CASE s # 1460
      BY SMT, <3>2, <2>2
    <3> QED
      BY SMT, <3>1, <3>2
  <2> HIDE DEF c, r, q, s, k, d
  <2>4. d = 365 => q # 24
    BY SMT, <2>1, <2>2, <2>3
  <2>5. InCalendar(c, q, k, d)
    BY SMT, <2>1, <2>2, <2>3, <2>4 DEF InCalendar
  <2>6. doe = EraDay(c, q, k, d)
    BY SMT, <2>1, <2>2, <2>3 DEF EraDay
  <2>8. InSomeYear(EraDay(c, q, k, d))
    BY SMT, <2>5, OneYear
  <2> QED
    BY SMT, <2>6, <2>8
<1> QED
  BY SMT, <1>1, <1>2

\* The date of a day is that of its place in the calendar.
LEMMA DateFound ==
  ASSUME NEW z \in Int, NEW era, NEW c, NEW q, NEW k, NEW d, Stands(z, era, c, q, k, d)
  PROVE  CivilFromDays(z) = DateOf(400 * era + EraYear(c, q, k), d)
<1>0. era \in Int /\ c \in 0 .. 3 /\ q \in 0 .. 24 /\ k \in 0 .. 3 /\ d \in 0 .. 365
  BY SMT DEF Stands, InCalendar
<1> DEFINE doe == EraDay(c, q, k, d)  y == EraYear(c, q, k)
<1>1. YearOf(doe) = y /\ YearStart(y) = doe - d /\ InEra(doe)
  <2>1. InCalendar(c, q, k, d)
    BY SMT DEF Stands
  <2> QED
    BY Zenon, <1>0, <2>1, YearFound
<1>2. y \in Int
  BY SMT, <1>0 DEF EraYear
<1>3. z + 719468 = 146097 * era + doe
  BY SMT DEF Stands
<1> HIDE DEF doe, y
<1>4. (z + 719468) \div 146097 = era /\ (z + 719468) % 146097 = doe
  BY SMT, <1>0, <1>1, <1>3 DEF InEra
<1>5. doe - YearStart(y) = d
  BY SMT, <1>0, <1>1, <1>2 DEF InEra
<1>6. CivilFromDays(z) = DateOf(y + 400 * era, d)
  <2> DEFINE Era == (z + 719468) \div 146097  Doe == (z + 719468) % 146097
  <2>1. CivilFromDays(z) = DateOf(YearOf(Doe) + 400 * Era, Doe - YearStart(YearOf(Doe)))
    BY SMT DEF CivilFromDays, DateOf, YearOf, YearStart
  <2> QED
    BY SMT, <1>0, <2>1, <1>1, <1>4, <1>5
<1> QED
  BY SMT, <1>0, <1>2, <1>6 DEF y

\* Every day has a place in the calendar.
LEMMA DateExists ==
  ASSUME NEW z \in Int
  PROVE  \E era, c, q, k, d : Stands(z, era, c, q, k, d)
<1> DEFINE era == (z + 719468) \div 146097  doe == (z + 719468) % 146097
<1>1. era \in Int /\ InEra(doe)
  BY SMT DEF InEra
<1>4. z + 719468 = 146097 * era + doe
  BY SMT
<1> HIDE DEF era, doe
<1>2. PICK c, q, k, d : InCalendar(c, q, k, d) /\ doe = EraDay(c, q, k, d)
  <2>1. InSomeYear(doe)
    BY SMT, <1>1, YearExists
  <2> QED
    BY SMT, <2>1 DEF InSomeYear
<1>3. Stands(z, era, c, q, k, d)
  BY SMT, <1>1, <1>2, <1>4 DEF Stands
<1> QED
  BY SMT, <1>3

\* The months of a year that starts in March.
LEMMA MonthsOf ==
  ASSUME NEW doy \in 0 .. 365, NEW mp, mp = (5 * doy + 2) \div 153
  PROVE  /\ mp \in 0 .. 11 /\ (153 * mp + 2) \div 5 <= doy
         /\ mp <= 10 => doy < (153 * (mp + 1) + 2) \div 5
         /\ mp \in {0, 2, 4, 5, 7, 9, 10} => (153 * (mp + 1) + 2) \div 5 = 31 + ((153 * mp + 2) \div 5)
         /\ mp \in {1, 3, 6, 8} => (153 * (mp + 1) + 2) \div 5 = 30 + ((153 * mp + 2) \div 5)
  BY SMT

\* The day after, within a year and over the ends of its months.
LEMMA NextInYear ==
  ASSUME NEW y \in Int, NEW d \in 0 .. 364, d = 364 => Leap(y + 1)
  PROVE  NextDay(DateOf(y, d)) = DateOf(y, d + 1)
<1> DEFINE mp == (5 * d + 2) \div 153  first == (153 * mp + 2) \div 5  then == (153 * (mp + 1) + 2) \div 5
           m == IF mp < 10 THEN mp + 3 ELSE mp - 9   yy == IF m <= 2 THEN y + 1 ELSE y
<1>1. DateOf(y, d) = <<yy, m, d - first + 1>>
  BY SMT DEF DateOf
<1>2. mp \in 0 .. 11 /\ first <= d /\ (mp <= 10 => d < then) /\ first \in Int /\ then \in Int
  BY SMT, MonthsOf
<1>3. MonthDays(yy, m) = IF mp = 11 THEN (IF Leap(y + 1) THEN 29 ELSE 28) ELSE then - first
  <2>1. /\ mp \in {0, 2, 4, 5, 7, 9, 10} => then = 31 + first
        /\ mp \in {1, 3, 6, 8} => then = 30 + first
    BY SMT, MonthsOf
  <2> HIDE DEF mp, first, then
  <2>2. CASE mp = 11
    BY SMT, <2>2 DEF MonthDays
  <2>3. CASE mp \in {0, 2, 4, 5, 7, 9, 10}
    BY SMT, <2>1, <2>3, <1>2 DEF MonthDays
  <2>4. CASE mp \in {1, 3, 6, 8}
    BY SMT, <2>1, <2>4, <1>2 DEF MonthDays
  <2> QED
    BY SMT, <1>2, <2>2, <2>3, <2>4
<1> DEFINE mq == (5 * (d + 1) + 2) \div 153  n == IF mq < 10 THEN mq + 3 ELSE mq - 9
<1>4. DateOf(y, d + 1) = <<IF n <= 2 THEN y + 1 ELSE y, n, (d + 1) - ((153 * mq + 2) \div 5) + 1>>
  BY SMT DEF DateOf
<1>5. CASE mp <= 10 /\ d + 1 = then
  <2>1. mq = mp + 1
    BY SMT, <1>5
  <2>2. d - first + 1 = MonthDays(yy, m)
    BY SMT, <1>2, <1>3, <1>5
  <2>3. (d + 1) - ((153 * mq + 2) \div 5) + 1 = 1
    <3>1. d + 1 = (153 * (mp + 1) + 2) \div 5
      BY SMT, <1>5
    <3> HIDE DEF mp, mq
    <3> QED
      BY SMT, <3>1, <2>1
  <2>4. m # 12 => n = m + 1 /\ m + 1 <= 12 /\ (m + 1 <= 2 <=> m <= 2)
    BY SMT, <1>2, <1>5, <2>1
  <2>5. m = 12 => n = 1 /\ yy = y
    BY SMT, <1>2, <1>5, <2>1
  <2>6. m \in 1 .. 12 /\ yy \in Int /\ first \in Int
    BY SMT, <1>2
  <2> DEFINE day == (d + 1) - ((153 * mq + 2) \div 5) + 1
  <2>7. NextDay(<<yy, m, d - first + 1>>) = IF m < 12 THEN <<yy, m + 1, 1>> ELSE <<yy + 1, 1, 1>>
    <3> HIDE DEF yy, m, first
    <3> QED
      BY SMT, <2>2, <2>6 DEF NextDay
  <2>8. DateOf(y, d + 1) = IF m < 12 THEN <<yy, m + 1, 1>> ELSE <<yy + 1, 1, 1>>
    <3>1. yy = IF m <= 2 THEN y + 1 ELSE y
      BY SMT
    <3> HIDE DEF m, n, yy, mq, mp, first
    <3>2. CASE m < 12
      BY SMT, <1>4, <2>3, <2>4, <2>6, <3>1, <3>2
    <3>3. CASE m = 12
      BY SMT, <1>4, <2>3, <2>5, <2>6, <3>1, <3>3
    <3> QED
      BY SMT, <3>2, <3>3, <2>6
  <2> QED
    BY SMT, <1>1, <2>7, <2>8
<1>6. CASE ~ (mp <= 10 /\ d + 1 = then)
  <2>1. mq = mp
    BY SMT, <1>2, <1>6
  <2>2. d - first + 1 < MonthDays(yy, m)
    BY SMT, <1>2, <1>3, <1>6
  <2> QED
    BY SMT, <1>1, <1>2, <1>4, <1>6, <2>1, <2>2 DEF NextDay
<1> QED
  BY <1>5, <1>6

\* The day after the last of February.
LEMMA NextYear ==
  ASSUME NEW y \in Int, NEW d \in 364 .. 365, d = 365 <=> Leap(y + 1)
  PROVE  NextDay(DateOf(y, d)) = DateOf(y + 1, 0)
<1>1. CASE d = 364
  <2>1. DateOf(y, 364) = <<y + 1, 2, 28>>
    BY SMT DEF DateOf
  <2>2. MonthDays(y + 1, 2) = 28
    BY SMT, <1>1 DEF MonthDays
  <2>3. DateOf(y + 1, 0) = <<y + 1, 3, 1>>
    BY SMT DEF DateOf
  <2> QED
    BY SMT, <1>1, <2>1, <2>2, <2>3 DEF NextDay
<1>2. CASE d = 365
  <2>1. DateOf(y, 365) = <<y + 1, 2, 29>>
    BY SMT DEF DateOf
  <2>2. MonthDays(y + 1, 2) = 29
    BY SMT, <1>2 DEF MonthDays
  <2>3. DateOf(y + 1, 0) = <<y + 1, 3, 1>>
    BY SMT DEF DateOf
  <2> QED
    BY SMT, <1>2, <2>1, <2>2, <2>3 DEF NextDay
<1> QED
  BY SMT, <1>1, <1>2

\* The years with a leap day at their end, in February of the next.
LEMMA LeapYears ==
  ASSUME NEW era \in Int, NEW c \in 0 .. 3, NEW q \in 0 .. 24, NEW k \in 0 .. 3
  PROVE  Leap(400 * era + EraYear(c, q, k) + 1) <=> k = 3 /\ (q # 24 \/ c = 3)
<1> DEFINE y == 400 * era + (100 * c + 4 * q + k) + 1
<1>1. y \in Int /\ y = 400 * era + (100 * c + 4 * q + k) + 1
  BY SMT
<1>2. CASE k # 3
  <2>1. y % 4 = k + 1
    BY SMT, <1>2
  <2> QED
    BY SMT, <1>2, <2>1 DEF Leap, EraYear
<1>3. CASE k = 3 /\ q # 24
  <2>1. y % 4 = 0 /\ y % 100 = 4 * q + 4
    BY SMT, <1>3
  <2> QED
    BY SMT, <1>3, <2>1 DEF Leap, EraYear
<1>4. CASE k = 3 /\ q = 24 /\ c # 3
  <2>1. y % 100 = 0 /\ y % 400 = 100 * c + 100
    BY SMT, <1>4
  <2> QED
    BY SMT, <1>4, <2>1 DEF Leap, EraYear
<1>5. CASE k = 3 /\ q = 24 /\ c = 3
  <2>1. y % 4 = 0 /\ y % 400 = 0
    BY SMT, <1>5
  <2> QED
    BY SMT, <1>5, <2>1 DEF Leap, EraYear
<1> QED
  BY SMT, <1>2, <1>3, <1>4, <1>5

\* The day after a date is the date of the day after.
LEMMA DayAfter ==
  ASSUME NEW z \in Int
  PROVE  CivilFromDays(z + 1) = NextDay(CivilFromDays(z))
<1>1. PICK era, c, q, k, d : Stands(z, era, c, q, k, d)
  BY SMT, DateExists
<1>2. /\ era \in Int /\ c \in 0 .. 3 /\ q \in 0 .. 24 /\ k \in 0 .. 3 /\ d \in 0 .. 365
      /\ d = 365 => k = 3 /\ (q # 24 \/ c = 3)
  BY SMT, <1>1 DEF Stands, InCalendar
<1> DEFINE y == 400 * era + EraYear(c, q, k)
<1>3. CivilFromDays(z) = DateOf(y, d)
  BY SMT, <1>1, DateFound
<1>4. y \in Int /\ (Leap(y + 1) <=> k = 3 /\ (q # 24 \/ c = 3))
  <2>1. y \in Int
    BY SMT, <1>2 DEF EraYear
  <2> QED
    BY SMT, <2>1, <1>2, LeapYears
<1>5. z + 1 \in Int
  BY SMT
<1>6. CASE d < 364 \/ (d = 364 /\ Leap(y + 1))
  <2>1. Stands(z + 1, era, c, q, k, d + 1)
    <3>1. InCalendar(c, q, k, d + 1)
      BY SMT, <1>2, <1>4, <1>6 DEF InCalendar
    <3>2. (z + 1) + 719468 = 146097 * era + EraDay(c, q, k, d + 1)
      BY SMT, <1>1, <1>2 DEF Stands, EraDay
    <3> QED
      BY SMT, <1>2, <3>1, <3>2 DEF Stands
  <2>2. d + 1 \in 0 .. 365
    BY SMT, <1>2, <1>6
  <2>3. CivilFromDays(z + 1) = DateOf(y, d + 1)
    BY SMT, <1>5, <2>1, DateFound
  <2>4. d \in 0 .. 364
    BY SMT, <1>2, <1>6
  <2> HIDE DEF y
  <2> QED
    BY SMT, <1>3, <1>4, <1>6, <2>3, <2>4, NextInYear
<1>7. CASE ~ (d < 364 \/ (d = 364 /\ Leap(y + 1)))
  <2>1. d \in 364 .. 365 /\ (d = 365 <=> Leap(y + 1))
    BY SMT, <1>2, <1>4, <1>7
  <2>2. ASSUME NEW era2 \in Int, NEW c2 \in 0 .. 3, NEW q2 \in 0 .. 24, NEW k2 \in 0 .. 3,
               146097 * era2 + EraDay(c2, q2, k2, 0) = 146097 * era + EraDay(c, q, k, d) + 1,
               400 * era2 + EraYear(c2, q2, k2) = y + 1
        PROVE  CivilFromDays(z + 1) = DateOf(y + 1, 0)
    <3>1. InCalendar(c2, q2, k2, 0)
      BY SMT DEF InCalendar
    <3>2. (z + 1) + 719468 = 146097 * era2 + EraDay(c2, q2, k2, 0)
      BY SMT, <1>1, <1>2, <2>2 DEF Stands, EraDay
    <3>3. Stands(z + 1, era2, c2, q2, k2, 0)
      BY SMT, <3>1, <3>2 DEF Stands
    <3>4. CivilFromDays(z + 1) = DateOf(400 * era2 + EraYear(c2, q2, k2), 0)
      BY SMT, <3>3, <1>5, DateFound
    <3> QED
      BY SMT, <3>4, <2>2
  <2>3. CivilFromDays(z + 1) = DateOf(y + 1, 0)
    <3>1. CASE k # 3
      <4>1. d = 364 /\ k + 1 \in 0 .. 3
        BY SMT, <1>2, <2>1, <3>1
      <4>2. 146097 * era + EraDay(c, q, k + 1, 0) = 146097 * era + EraDay(c, q, k, d) + 1
        BY SMT, <1>2, <4>1 DEF EraDay
      <4>3. 400 * era + EraYear(c, q, k + 1) = y + 1
        BY SMT, <1>2 DEF EraYear
      <4> QED
        BY SMT, <1>2, <4>1, <4>2, <4>3, <2>2
    <3>2. CASE k = 3 /\ q # 24
      <4>1. d = 365 /\ q + 1 \in 0 .. 24 /\ 0 \in 0 .. 3
        BY SMT, <1>2, <1>4, <2>1, <3>2
      <4>2. 146097 * era + EraDay(c, q + 1, 0, 0) = 146097 * era + EraDay(c, q, k, d) + 1
        BY SMT, <1>2, <3>2, <4>1 DEF EraDay
      <4>3. 400 * era + EraYear(c, q + 1, 0) = y + 1
        BY SMT, <1>2, <3>2 DEF EraYear
      <4> QED
        BY SMT, <1>2, <4>1, <4>2, <4>3, <2>2
    <3>3. CASE k = 3 /\ q = 24 /\ c # 3
      <4>1. d = 364 /\ c + 1 \in 0 .. 3 /\ 0 \in 0 .. 24 /\ 0 \in 0 .. 3
        BY SMT, <1>2, <1>4, <2>1, <3>3
      <4>2. 146097 * era + EraDay(c + 1, 0, 0, 0) = 146097 * era + EraDay(c, q, k, d) + 1
        BY SMT, <1>2, <3>3, <4>1 DEF EraDay
      <4>3. 400 * era + EraYear(c + 1, 0, 0) = y + 1
        BY SMT, <1>2, <3>3 DEF EraYear
      <4> QED
        BY SMT, <1>2, <4>1, <4>2, <4>3, <2>2
    <3>4. CASE k = 3 /\ q = 24 /\ c = 3
      <4>1. d = 365 /\ era + 1 \in Int /\ 0 \in 0 .. 24 /\ 0 \in 0 .. 3
        BY SMT, <1>2, <1>4, <2>1, <3>4
      <4>2. 146097 * (era + 1) + EraDay(0, 0, 0, 0) = 146097 * era + EraDay(c, q, k, d) + 1
        BY SMT, <1>2, <3>4, <4>1 DEF EraDay
      <4>3. 400 * (era + 1) + EraYear(0, 0, 0) = y + 1
        BY SMT, <1>2, <3>4 DEF EraYear
      <4> QED
        BY SMT, <4>1, <4>2, <4>3, <2>2
    <3> QED
      BY SMT, <3>1, <3>2, <3>3, <3>4
  <2> HIDE DEF y
  <2> QED
    BY SMT, <1>3, <1>4, <2>1, <2>3, NextYear
<1> QED
  BY SMT, <1>6, <1>7

\* The days are counted from 1970.
LEMMA DayZero == CivilFromDays(0) = <<1970, 1, 1>>
  BY SMT DEF CivilFromDays, CenturyDays

\* The date of every day is the one after the date of the day before, over the ends of
\* months, leap years, centuries and eras, before 1970 too (civil_from_days).
THEOREM DatesAreRight ==
  /\ \A z \in Int : CivilFromDays(z + 1) = NextDay(CivilFromDays(z))
  /\ TimestampsInit => DatesRight
<1>1. \A z \in Int : CivilFromDays(z + 1) = NextDay(CivilFromDays(z))
  BY SMT, DayAfter
<1>2. ASSUME TimestampsInit, Is("day") PROVE sample.day \in Int
  <2>1. PICK d \in Days : sample = [day |-> d]
    <3>1. \A h, c : [header |-> h, clock |-> c] # sample
      BY <1>2 DEF Is
    <3> QED
      BY <1>2, <3>1 DEF TimestampsInit
  <2> QED
    BY <2>1, TimestampsAssumption
<1> QED
  BY SMT, <1>1, <1>2, DayZero DEF DatesRight

-----------------------------------------------------------------------------
(***************************************************************************)
(* The signature of a webhook.                                             *)
(***************************************************************************)

\* The first t of a header is one of its stamps, and its time an i64.
LEMMA FirstStamp ==
  ASSUME NEW h \in Headers, Stamps(h) # {}
  PROVE  Min(Stamps(h)) \in Stamps(h) /\ \A k \in Stamps(h) : h[k].at \in Int /\ h[k].at <= MaxInt
<1>1. h \in Seq(HeaderParts) /\ MaxInt \in Nat
  BY TimestampsAssumption
<1>2. Stamps(h) \in SUBSET Nat
  BY <1>1 DEF Stamps
<1>3. ASSUME NEW k \in DOMAIN h PROVE h[k].at \in Int /\ h[k].at <= MaxInt
  <2>1. h[k] \in HeaderParts
    BY <1>1
  <2>2. h[k].at \in -MaxInt - 1 .. MaxInt
    BY Zenon, <2>1 DEF HeaderParts
  <2> QED
    BY <2>2, <1>1
<1>4. Min(Stamps(h)) \in Stamps(h)
  BY <1>2, MinIsLeast
<1> QED
  BY <1>3, <1>4 DEF Stamps

\* The difference that is not beyond an i64 is the one it saturates to.
LEMMA NearIsTolerated ==
  ASSUME NEW now \in Clocks, NEW t \in Int
  PROVE  HeaderAge(now, t) \in -Tolerance .. Tolerance <=> t \in (now - Tolerance) .. (now + Tolerance)
  BY TimestampsAssumption DEF HeaderAge

\* What verify_signature accepts was signed with the secret at a time near now, and what
\* was signed near now it accepts, whatever the header and the tolerance (construct_event).
THEOREM AcceptedWasSigned == TimestampsInit => SignedRecently
<1> SUFFICES ASSUME TimestampsInit, Is("header") PROVE AcceptedIffSigned(sample.header, sample.clock)
  BY DEF SignedRecently
<1>1. PICK h \in Headers, now \in Clocks : sample = [header |-> h, clock |-> now]
  <2>1. \A d : [day |-> d] # sample
    BY DEF Is
  <2> QED
    BY <2>1 DEF TimestampsInit
<1>2. sample.header = h /\ sample.clock = now
  BY <1>1
<1> DEFINE near == (now - Tolerance) .. (now + Tolerance)
           stamps == {h[k].at : k \in Stamps(h)}
           signed(t) == Signature("v1", t, "ours", "secret") \in V1(h)
<1>3. ASSUME VerifySignature(h, now) PROVE \E t \in stamps \cap near : signed(t)
  <2> DEFINE t == h[Min(Stamps(h))].at
  <2>1. t \in stamps /\ t \in Int
    BY <1>3, FirstStamp DEF VerifySignature
  <2>2. HeaderAge(now, t) \in -Tolerance .. Tolerance /\ signed(t)
    BY <1>3 DEF VerifySignature
  <2> HIDE DEF t
  <2>3. t \in near
    BY <2>1, <2>2, NearIsTolerated
  <2> QED
    BY <2>1, <2>2, <2>3
<1>4. ASSUME NEW t \in near, stamps = {t}, signed(t) PROVE VerifySignature(h, now)
  <2>1. Stamps(h) # {}
    BY <1>4
  <2>2. h[Min(Stamps(h))].at = t
    BY <1>4, <2>1, FirstStamp
  <2>3. t \in Int
    BY <1>4, <2>1, FirstStamp
  <2>4. HeaderAge(now, t) \in -Tolerance .. Tolerance
    BY <1>4, <2>3, NearIsTolerated
  <2> QED
    BY <1>4, <2>1, <2>2, <2>4 DEF VerifySignature
<1> HIDE DEF near, stamps, signed
<1>5. VerifySignature(h, now) => \E t \in stamps \cap near : signed(t)
  BY <1>3
<1>6. \A t \in near : stamps = {t} /\ signed(t) => VerifySignature(h, now)
  BY <1>4
<1>7. AcceptedIffSigned(h, now)
  BY <1>5, <1>6 DEF AcceptedIffSigned, near, stamps, signed
<1> QED
  BY <1>2, <1>7

-----------------------------------------------------------------------------
(***************************************************************************)
(* Together.                                                               *)
(***************************************************************************)

\* Which sample there is shows in its field.
LEMMA SampleIs ==
  ASSUME CodecsInit
  PROVE  /\ Is("text") => \E t \in Texts : sample = [text |-> t]
         /\ Is("json") => \E t \in JsonTexts : sample = [json |-> t]
         /\ Is("bytes") => \E b \in Bytes : sample = [bytes |-> b]
         /\ Is("upload") => \E u \in Uploads : sample = [upload |-> u]
         /\ Is("total") => \E n \in FileLengths, r \in RangeSpecs : sample = [total |-> n, range |-> r]
<1> DEFINE D == DOMAIN sample
<1>1. \/ D = {"text"} /\ \E t \in Texts : sample = [text |-> t]
      \/ D = {"json"} /\ \E t \in JsonTexts : sample = [json |-> t]
      \/ D = {"bytes"} /\ \E b \in Bytes : sample = [bytes |-> b]
      \/ D = {"upload"} /\ \E u \in Uploads : sample = [upload |-> u]
      \/ D = {"total", "range"} /\ \E n \in FileLengths, r \in RangeSpecs : sample = [total |-> n, range |-> r]
      \/ D = {"day"}
      \/ D = {"header", "clock"}
  BY DEF CodecsInit, TimestampsInit
<1> HIDE DEF D
<1> QED
  BY <1>1 DEF Is, D

LEMMA SeqsMore ==
  ASSUME NEW S, NEW R, S \subseteq R
  PROVE  Seq(S) \subseteq Seq(R)
<1> SUFFICES ASSUME NEW s \in Seq(S) PROVE s \in Seq(R)
  OBVIOUS
<1>1. \A k \in 1 .. Len(s) : s[k] \in R
  OBVIOUS
<1> QED
  BY <1>1

LEMMA TextBackAlways == CodecsInit => TextReturns
<1> SUFFICES ASSUME CodecsInit, Is("text") PROVE TextReturns
  BY DEF TextReturns
<1>1. PICK t \in Texts : sample = [text |-> t]
  BY SampleIs
<1>2. t \in Seq(Byte) /\ sample.text = t
  BY <1>1, CodecsAssumption DEF Byte
<1> DEFINE bare == <<97>>
           name == <<98>>
           other == CookiePair(bare, t)
           wanted == CookiePair(name, t)
<1>3. bare = <<97>> /\ name = <<98>> /\ other = CookiePair(bare, t) /\ wanted = CookiePair(name, t)
  OBVIOUS
<1>4. /\ ReadCookie(other \o <<Semicolon, Space>> \o wanted, name) = t
      /\ ReadCookie(wanted \o <<Semicolon, Space>> \o bare, name) = t
      /\ ReadCookie(bare \o <<Semicolon, Space>> \o wanted, name) = <<-1>>
      /\ ReadParam(other \o <<Ampersand>> \o wanted, name) = t
      /\ ReadParam(wanted \o <<Ampersand>> \o bare, name) = t
      /\ ReadParam(bare \o <<Ampersand>> \o wanted, name) = t
  <2> HIDE DEF bare, name, other, wanted
  <2> QED
    BY <1>2, <1>3, ValuesReturn
<1>5. ReadParam(FormEncode(<<<<<<97>>, t>>, <<t \o <<91>>, <<98>>>>>>), t \o <<91>>) = <<98>>
  BY <1>2, FormReturns
<1> QED
  BY Zenon, <1>2, <1>4, <1>5 DEF TextReturns

\* What is written in one form is read back as it was, whatever it is: a cookie or a
\* parameter of any bytes, base64 and hexadecimal text of any bytes, any part of any JSON
\* text that is accepted, an audio file of any length in an upload of any number of parts,
\* and any range of it (http.rs, crypto.rs, stripe.rs, json.rs and guides.rs).
THEOREM EverythingReadsBack == CodecsInit => ReadBack
<1> SUFFICES ASSUME CodecsInit PROVE ReadBack
  OBVIOUS
<1>1. TextReturns
  BY TextBackAlways
<1>2. BytesReturn
  <2> SUFFICES ASSUME Is("bytes") PROVE BytesReturn
    BY DEF BytesReturn
  <2>1. PICK b \in Bytes : sample = [bytes |-> b]
    BY SampleIs
  <2>2. b \in Seq(Byte) /\ sample.bytes = b
    BY <2>1, CodecsAssumption DEF Byte
  <2>3. Base64Decode(Base64Encode(b)) = b
    BY <2>2, Base64Returns
  <2>4. HexDecode(HexEncode(b)) = b
    BY <2>2, HexReturns
  <2> QED
    BY Zenon, <2>2, <2>3, <2>4 DEF BytesReturn
<1>3. JsonReturns
  <2> SUFFICES ASSUME Is("json") PROVE JsonReturns
    BY DEF JsonReturns
  <2>1. PICK t \in JsonTexts : sample = [json |-> t]
    BY SampleIs
  <2>2. t \in Seq(Nat) /\ sample.json = t
    BY <2>1, CodecsAssumption
  <2>3. PartsReturn(t)
    BY <2>2, JsonAssumption, JsonBack
  <2> QED
    BY Zenon, <2>2, <2>3 DEF JsonReturns
<1>4. Is("upload") => UploadReturns(sample.upload)
  <2> SUFFICES ASSUME Is("upload") PROVE UploadReturns(sample.upload)
    OBVIOUS
  <2>1. PICK u \in Uploads : sample = [upload |-> u]
    BY SampleIs
  <2> DEFINE S == STRING \cup {Marker, Crlf, Dashes}
  <2>2. u \in Seq([headers : Seq(STRING), bytes : Seq(STRING)]) /\ sample.upload = u
    BY <2>1, CodecsAssumption
  <2>3. \A k \in 1 .. Len(u) : HeaderLines(u[k].headers)
    BY <2>2, CodecsAssumption
  <2>4. Marker \in S /\ Crlf \in S /\ Dashes \in S /\ STRING \subseteq S
    OBVIOUS
  <2> HIDE DEF S
  <2>5. Seq(STRING) \subseteq Seq(S)
    BY <2>4, SeqsMore
  <2>6. [headers : Seq(STRING), bytes : Seq(STRING)] \subseteq [headers : Seq(S), bytes : Seq(S)]
    BY <2>5
  <2>7. u \in Seq([headers : Seq(S), bytes : Seq(S)])
    <3> DEFINE P == [headers : Seq(STRING), bytes : Seq(STRING)]
               R == [headers : Seq(S), bytes : Seq(S)]
    <3>1. P \subseteq R /\ u \in Seq(P)
      BY <2>2, <2>6
    <3> HIDE DEF P, R
    <3>2. u \in Seq(R)
      BY <3>1, SeqsMore
    <3> QED
      BY <3>2 DEF R
  <2>8. UploadReturns(u)
    BY <2>3, <2>4, <2>7, UploadReturnsAlways
  <2> QED
    BY <2>2, <2>8
<1>5. Is("total") => RangeReturns(sample.total, sample.range)
  <2> SUFFICES ASSUME Is("total") PROVE RangeReturns(sample.total, sample.range)
    OBVIOUS
  <2>1. PICK n \in FileLengths, r \in RangeSpecs : sample = [total |-> n, range |-> r]
    BY SampleIs
  <2>2. n \in Nat /\ r \in (Nat \cup {-1}) \X (Nat \cup {-1})
    BY CodecsAssumption
  <2>3. RangeReturns(n, r)
    BY <2>2, RangeReturnsAlways
  <2> QED
    BY <2>1, <2>3
<1> QED
  BY Zenon, <1>1, <1>2, <1>3, <1>4, <1>5 DEF ReadBack, AudioReturns
==============================================================================
