--------------------------- MODULE Webhook_proofs ---------------------------
(***************************************************************************)
(* For every number of threads and events, and any crashes, failed calls   *)
(* and lost answers: when the account exists, the customer has an email    *)
(* and the database does not fail, an event is recorded or acknowledged    *)
(* only after it took effect.                                              *)
(***************************************************************************)
EXTENDS Webhook, SequenceTheorems, TLAPS

\* An event stays what it is when another one is sent.
LEMMA AppendKeeps ==
  ASSUME NEW S, NEW s \in Seq(S), NEW x \in S
  PROVE  /\ Append(s, x) \in Seq(S)
         /\ Len(Append(s, x)) = Len(s) + 1
         /\ 1 .. Len(s) \subseteq 1 .. Len(Append(s, x))
         /\ \A i \in 1 .. Len(s) : Append(s, x)[i] = s[i]
  OBVIOUS

\* What the steps of the handler do to a thread keeps its types.
LEMMA GotoTypes ==
  ASSUME ThreadsOK, NEW t \in Threads, pc[t] # "idle", Ids' = Ids,
         NEW l \in Labels, NEW v \in Nat, Goto(t, l, v)
  PROVE  ThreadsOK'
  BY DEF ThreadsOK, Goto

LEMMA IdleTypes ==
  ASSUME ThreadsOK, NEW t \in Threads, Ids' = Ids, Idle(t)
  PROVE  ThreadsOK'
  BY DEF ThreadsOK, Idle, Labels

\* An event keeps its type, and its version is a number.
LEMMA EventTypes ==
  ASSUME StoreOK, NEW e \in Ids
  PROVE  sent[e].kind \in AllKinds /\ sent[e].version \in Nat
<1> DEFINE S == [kind : AllKinds, version : Nat]
<1>1. sent \in Seq(S) /\ e \in 1 .. Len(sent)
  BY DEF StoreOK, Ids
<1>2. \A s \in Seq(S) : \A i \in 1 .. Len(s) : s[i] \in S
  <2> HIDE DEF S
  <2> QED OBVIOUS
<1>3. sent[e] \in S
  BY <1>1, <1>2
<1> QED BY <1>3

LEMMA TypeInit == Init => TypeOK
<1> SUFFICES ASSUME Init PROVE TypeOK
  OBVIOUS
<1>0. sent = <<>>
  BY DEF Init
<1>1. Len(sent) = 0 /\ sent \in Seq([kind : AllKinds, version : Nat])
  BY <1>0
<1>2. StoreOK
  BY <1>1, WebhookAssumption DEF Init, StoreOK, WebhookAssumption
<1>3. ThreadsOK
  BY DEF Init, ThreadsOK, Labels
<1> QED BY <1>2, <1>3 DEF TypeOK

\* Every step of the handler keeps the types.
LEMMA TypeHandle ==
  ASSUME TypeOK, NEW t \in Threads, Handle(t)
  PROVE  TypeOK'
<1>1. StoreOK /\ ThreadsOK
  BY DEF TypeOK
<1>2. /\ pc[t] # "idle"
      /\ UNCHANGED <<truth, sent, overlap>>
      /\ faults' \in {faults, faults + 1}
  BY DEF Handle, Acknowledge, Find, Retrieve, Email, FindUser, Write, Record, Outside,
         Fine, Fault, DbOutcome, CallOutcome
<1>3. Ids' = Ids /\ ev[t] \in Ids /\ val[t] \in Nat /\ truth \in Nat
  BY <1>1, <1>2 DEF Ids, ThreadsOK, StoreOK
<1>4. sent[ev[t]].version \in Nat /\ FirstStep(t) \in Labels
  BY <1>1, <1>3, EventTypes DEF FirstStep, Labels
<1>5. ThreadsOK'
  <2>1. Idle(t) \/ \E l \in Labels, v \in Nat : Goto(t, l, v)
    <3>1. CASE Acknowledge(t)
      BY <3>1 DEF Acknowledge
    <3>2. CASE Find(t)
      <4>1. Refuse(t) \/ Goto(t, "ack", 0) \/ Goto(t, FirstStep(t), sent[ev[t]].version)
        BY <3>2 DEF Find
      <4> QED BY <4>1, <1>4 DEF Refuse, Labels
    <3>3. CASE Retrieve(t)
      <4>1. Refuse(t) \/ Goto(t, "email", truth) \/ Goto(t, "user", truth)
        BY <3>3 DEF Retrieve
      <4> QED BY <4>1, <1>3 DEF Refuse, Labels
    <3>4. CASE Email(t)
      <4>1. Refuse(t) \/ Goto(t, "user", val[t]) \/ Goto(t, "record", 0)
        BY <3>4 DEF Email
      <4> QED BY <4>1, <1>3 DEF Refuse, Labels
    <3>5. CASE FindUser(t)
      <4>1. Refuse(t) \/ Goto(t, "write", val[t]) \/ Goto(t, "record", 0)
        BY <3>5 DEF FindUser
      <4> QED BY <4>1, <1>3 DEF Refuse, Labels
    <3>6. CASE Write(t)
      BY <3>6 DEF Write, Labels
    <3>7. CASE Record(t)
      BY <3>7 DEF Record, Labels
    <3> QED BY <3>1, <3>2, <3>3, <3>4, <3>5, <3>6, <3>7 DEF Handle
  <2> QED BY <2>1, <1>1, <1>2, <1>3, GotoTypes, IdleTypes
<1>6. /\ acked' \in {acked, acked \cup {ev[t]}}
      /\ recorded' \in {recorded, recorded \cup {ev[t]}}
      /\ applied' \in {applied, applied \cup {ev[t]}}
      /\ row' \in {row, val[t]}
  BY DEF Handle, Acknowledge, Find, Retrieve, Email, FindUser, Write, Record, Goto, Refuse
<1>7. StoreOK'
  BY <1>1, <1>2, <1>3, <1>6 DEF StoreOK
<1> QED BY <1>5, <1>7 DEF TypeOK

LEMMA TypeNext == TypeOK /\ [Next]_vars => TypeOK'
<1> SUFFICES ASSUME TypeOK, [Next]_vars PROVE TypeOK'
  OBVIOUS
<1>0. StoreOK /\ ThreadsOK
  BY DEF TypeOK
<1>1. ASSUME NEW k \in Kinds, Emit(k) PROVE TypeOK'
  <2> DEFINE x == [kind |-> k, version |-> truth']
  <2>1. truth' \in Nat /\ sent' = Append(sent, x)
    BY <1>0, <1>1 DEF Emit, StoreOK
  <2>2. x \in [kind : AllKinds, version : Nat]
    BY <2>1, WebhookAssumption DEF WebhookAssumption
  <2>3. /\ sent' \in Seq([kind : AllKinds, version : Nat])
        /\ Ids \subseteq Ids'
    BY <1>0, <2>1, <2>2, AppendKeeps DEF StoreOK, Ids
  <2>4. UNCHANGED <<acked, row, recorded, applied, pc, ev, val, overlap, faults>>
    BY <1>1 DEF Emit, thread
  <2>5. StoreOK'
    BY <1>0, <2>1, <2>3, <2>4 DEF StoreOK
  <2>6. ThreadsOK'
    BY <1>0, <2>3, <2>4 DEF ThreadsOK
  <2> QED BY <2>5, <2>6 DEF TypeOK
<1>2. CASE Crash
  BY <1>2 DEF Crash, Fault, Outside, TypeOK, StoreOK, ThreadsOK, Ids, Labels
<1>3. ASSUME NEW e \in Ids, Prune(e) PROVE TypeOK'
  <2>1. Ids' = Ids /\ UNCHANGED <<truth, sent, acked, row, applied, pc, ev, val, overlap, faults>>
        /\ recorded' \subseteq recorded
    BY <1>3 DEF Prune, Outside, thread, Ids
  <2>2. StoreOK'
    BY <1>0, <2>1 DEF StoreOK
  <2>3. ThreadsOK'
    BY <1>0, <2>1 DEF ThreadsOK
  <2> QED BY <2>2, <2>3 DEF TypeOK
<1>4. ASSUME NEW t \in Threads, NEW e \in Ids, Deliver(t, e) PROVE TypeOK'
  <2>1. Ids' = Ids
    BY <1>4 DEF Deliver, Outside, Ids
  <2>2. StoreOK'
    BY <1>0, <1>4, <2>1 DEF Deliver, Outside, StoreOK
  <2>3. ThreadsOK'
    BY <1>0, <1>4, <2>1 DEF Deliver, ThreadsOK, Labels
  <2> QED BY <2>2, <2>3 DEF TypeOK
<1>5. ASSUME NEW t \in Threads, Handle(t) PROVE TypeOK'
  BY <1>5, TypeHandle
<1>6. CASE UNCHANGED vars
  BY <1>6 DEF vars, thread, TypeOK, StoreOK, ThreadsOK, Ids
<1> QED BY <1>1, <1>2, <1>3, <1>4, <1>5, <1>6 DEF Next

\* The variables of the webhook keep their types, and no thread loses its event.
THEOREM TypeCorrect == Spec => []TypeOK
  BY TypeInit, TypeNext, PTL DEF Spec

-----------------------------------------------------------------------------
\* The circumstances the comment in payment takes for granted.
WellBehaved == Registered = TRUE /\ Emails = {TRUE} /\ DbFaults = FALSE

\* The events that count stay the same in every step of the handler.
LEMMA SameChanges ==
  ASSUME sent' = sent
  PROVE  Ids' = Ids /\ Changes' = Changes
  BY DEF Ids, Changes

LEMMA HandledHandle ==
  ASSUME WellBehaved, TypeOK, HandledInv, NEW t \in Threads, Handle(t)
  PROVE  (RecordedHandled /\ AckedHandled /\ AppliedFirst)'
<1>0. pc[t] # "idle"
  BY DEF Handle, Acknowledge, Find, Retrieve, Email, FindUser, Write, Record
<1>1. /\ pc \in [Threads -> Labels] /\ ev \in [Threads -> Ids \cup {0}]
      /\ ev[t] \in Ids
  BY <1>0 DEF TypeOK, ThreadsOK
<1>2. Changes' = Changes
  BY SameChanges DEF Handle, Acknowledge, Find, Retrieve, Email, FindUser, Write, Record, Outside
<1>3. /\ RecordedHandled /\ AckedHandled /\ AppliedFirst
      /\ Registered = TRUE /\ DbFaults = FALSE /\ FALSE \notin Emails
      /\ \A e \in Ids : e \in Changes <=> sent[e].kind \in ChangeKinds
  BY DEF HandledInv, WellBehaved, Changes
<1> USE <1>1, <1>2, <1>3 DEF RecordedHandled, AckedHandled, AppliedFirst
<1>4. CASE Acknowledge(t)
  BY <1>4 DEF Acknowledge, Idle
<1>5. CASE Find(t)
  <2>1. FirstStep(t) \in {"retrieve", "email"}
    BY DEF FirstStep
  <2> QED BY <1>5, <2>1 DEF Find, Goto, Refuse, Idle
<1>6. CASE Retrieve(t)
  BY <1>6 DEF Retrieve, Goto, Refuse, Idle
<1>7. CASE Email(t)
  BY <1>7 DEF Email, Goto, Refuse, Idle, ChangeKinds, ReadingKinds
<1>8. CASE FindUser(t)
  BY <1>8 DEF FindUser, DbOutcome, Goto, Refuse, Idle, ChangeKinds, ReadingKinds
<1>9. CASE Write(t)
  BY <1>9 DEF Write, DbOutcome, Goto
<1>10. CASE Record(t)
  BY <1>10 DEF Record, Goto
<1> QED BY <1>4, <1>5, <1>6, <1>7, <1>8, <1>9, <1>10 DEF Handle

LEMMA HandledNext ==
  ASSUME WellBehaved, HandledInv, [Next]_vars
  PROVE  HandledInv'
<1>1. TypeOK /\ StoreOK /\ ThreadsOK
  BY DEF HandledInv, TypeOK
<1>2. TypeOK'
  BY <1>1, TypeNext
<1>4. (RecordedHandled /\ AckedHandled /\ AppliedFirst)'
  <2>0. RecordedHandled /\ AckedHandled /\ AppliedFirst
    BY DEF HandledInv
  <2>1. ASSUME NEW k \in Kinds, Emit(k) PROVE (RecordedHandled /\ AckedHandled /\ AppliedFirst)'
    <3>1. \A e \in Ids : e \in Changes' => e \in Changes
      BY <1>1, <2>1, AppendKeeps DEF Emit, StoreOK, Ids, Changes
    <3>2. recorded \subseteq Ids /\ acked \subseteq Ids
      BY <1>1 DEF StoreOK
    <3>3. UNCHANGED <<acked, recorded, applied, pc, ev>>
      BY <2>1 DEF Emit, thread
    <3>4. \A t \in Threads : pc[t] \in {"record", "ack"} => ev[t] \in Ids
      BY <1>1 DEF ThreadsOK
    <3> QED BY <2>0, <3>1, <3>2, <3>3, <3>4 DEF RecordedHandled, AckedHandled, AppliedFirst
  <2>3. CASE Crash
    BY <2>0, <2>3, SameChanges DEF Crash, Outside, RecordedHandled, AckedHandled, AppliedFirst
  <2>7. ASSUME NEW e \in Ids, Prune(e) PROVE (RecordedHandled /\ AckedHandled /\ AppliedFirst)'
    <3>1. Changes' = Changes /\ recorded' \subseteq recorded /\ UNCHANGED <<acked, applied, pc, ev>>
      BY <2>7, SameChanges DEF Prune, Outside, thread
    <3> QED BY <2>0, <3>1 DEF RecordedHandled, AckedHandled, AppliedFirst
  <2>4. ASSUME NEW t \in Threads, NEW e \in Ids, Deliver(t, e)
        PROVE (RecordedHandled /\ AckedHandled /\ AppliedFirst)'
    BY <2>0, <2>4, <1>1, SameChanges
    DEF Deliver, Outside, RecordedHandled, AckedHandled, AppliedFirst, ThreadsOK
  <2>5. ASSUME NEW t \in Threads, Handle(t)
        PROVE (RecordedHandled /\ AckedHandled /\ AppliedFirst)'
    BY <2>5, <1>1, HandledHandle
  <2>6. CASE UNCHANGED vars
    BY <2>0, <2>6, SameChanges DEF vars, thread, RecordedHandled, AckedHandled, AppliedFirst
  <2> QED BY <2>1, <2>3, <2>4, <2>5, <2>6, <2>7 DEF Next
<1> QED BY <1>2, <1>4 DEF HandledInv

LEMMA HandledAlways ==
  ASSUME WellBehaved
  PROVE  Spec => []HandledInv
<1>1. Init => HandledInv
  BY TypeInit DEF WellBehaved, Init, HandledInv, RecordedHandled, AckedHandled,
                  AppliedFirst
<1>2. HandledInv /\ [Next]_vars => HandledInv'
  BY HandledNext
<1> QED BY <1>1, <1>2, PTL DEF Spec

\* "Recorded only after the effect has been applied": whatever crash, failed call
\* to Stripe, lost answer or concurrent delivery, a recorded event took effect.
THEOREM RecordedIsHandled ==
  ASSUME WellBehaved
  PROVE  Spec => []RecordedHandled
<1>1. HandledInv => RecordedHandled
  BY DEF HandledInv
<1> QED BY <1>1, HandledAlways, PTL

\* And so did every event Stripe was told not to send again.
THEOREM AckedIsHandled ==
  ASSUME WellBehaved
  PROVE  Spec => []AckedHandled
<1>1. HandledInv => AckedHandled
  BY DEF HandledInv
<1> QED BY <1>1, HandledAlways, PTL

-----------------------------------------------------------------------------
(* Applying an event a second time.                                        *)

\* The thread has asked Stripe for the subscription and is about to write what it read.
HoldsAnswer(t) == pc[t] \in {"email", "user", "write"} /\ sent[ev[t]].kind \in ReadingKinds

\* Nothing known of the subscription is newer than what Stripe has; and without overlap
\* the row waits for the one thread that works, so it is no newer than what that read.
ReapplyInv ==
  /\ row <= truth
  /\ \A e \in Ids : sent[e].version <= truth
  /\ \A t \in Threads : val[t] <= truth
  /\ ~overlap => \A t, u \in Threads : pc[t] # "idle" /\ pc[u] # "idle" => t = u
  /\ ~overlap => \A t \in Threads : HoldsAnswer(t) => row <= val[t]

LEMMA ReapplyInit == Init => ReapplyInv
  BY DEF Init, ReapplyInv, HoldsAnswer, Ids

\* What a step of the handler does that leaves the row alone and brings no answer of Stripe.
LEMMA ReapplyGoes ==
  ASSUME TypeOK, ReapplyInv, NEW t \in Threads, pc[t] # "idle",
         UNCHANGED <<truth, sent, overlap, row>>,
         \/ Idle(t)
         \/ \E l \in Labels, v \in Nat :
              /\ Goto(t, l, v) /\ v <= truth
              /\ l \in {"email", "user", "write"} /\ sent[ev[t]].kind \in ReadingKinds => row <= v \/ overlap
  PROVE  ReapplyInv'
<1>1. Ids' = Ids
  BY DEF Ids
<1>2. /\ row \in Nat /\ truth \in Nat /\ pc \in [Threads -> Labels]
      /\ val \in [Threads -> Nat] /\ ev \in [Threads -> Ids \cup {0}]
  BY DEF TypeOK, StoreOK, ThreadsOK
<1>3. CASE Idle(t)
  BY <1>1, <1>2, <1>3 DEF Idle, ReapplyInv, HoldsAnswer
<1>4. ASSUME NEW l \in Labels, NEW v \in Nat, Goto(t, l, v), v <= truth,
             l \in {"email", "user", "write"} /\ sent[ev[t]].kind \in ReadingKinds => row <= v \/ overlap
      PROVE  ReapplyInv'
  BY <1>1, <1>2, <1>4 DEF Goto, ReapplyInv, HoldsAnswer
<1> QED
  BY <1>3, <1>4

LEMMA ReapplyHandle ==
  ASSUME TypeOK, ReapplyInv, NEW t \in Threads, Handle(t)
  PROVE  ReapplyInv'
<1>1. /\ UNCHANGED <<truth, sent, overlap>> /\ pc[t] # "idle" /\ ev[t] \in Ids
      /\ row \in Nat /\ truth \in Nat /\ val[t] \in Nat
      /\ 0 <= truth /\ val[t] <= truth /\ row <= truth
      /\ sent[ev[t]].version \in Nat /\ sent[ev[t]].version <= truth
  <2>1. UNCHANGED <<truth, sent, overlap>> /\ pc[t] # "idle"
    BY DEF Handle, Acknowledge, Find, Retrieve, Email, FindUser, Write, Record, Outside
  <2>2. ev[t] \in Ids /\ row \in Nat /\ truth \in Nat /\ val[t] \in Nat
    BY <2>1 DEF TypeOK, StoreOK, ThreadsOK
  <2>3. sent[ev[t]].version \in Nat
    BY <2>2, EventTypes DEF TypeOK
  <2> QED
    BY <2>1, <2>2, <2>3 DEF ReapplyInv
<1>2. {"record", "ack", "retrieve", "email", "user", "write"} \subseteq Labels
  BY DEF Labels
<1>3. HoldsAnswer(t) => row <= val[t] \/ overlap
  BY DEF ReapplyInv
<1>4. CASE Acknowledge(t)
  BY <1>1, <1>4, ReapplyGoes DEF Acknowledge
<1>5. CASE Find(t)
  <2>1. UNCHANGED row /\ FirstStep(t) = IF sent[ev[t]].kind \in ReadingKinds THEN "retrieve" ELSE "email"
    BY <1>5 DEF Find, FirstStep
  <2>2. Idle(t) \/ Goto(t, "ack", 0) \/ Goto(t, FirstStep(t), sent[ev[t]].version)
    BY <1>5 DEF Find, Refuse
  <2> QED
    BY <1>1, <1>2, <2>1, <2>2, ReapplyGoes
<1>6. CASE Retrieve(t)
  <2>1. UNCHANGED row /\ (Idle(t) \/ Goto(t, "email", truth) \/ Goto(t, "user", truth))
    BY <1>6 DEF Retrieve, Refuse
  <2> QED
    BY <1>1, <1>2, <2>1, ReapplyGoes
<1>7. CASE Email(t)
  <2>1. UNCHANGED row /\ (Idle(t) \/ Goto(t, "user", val[t]) \/ Goto(t, "record", 0))
    BY <1>7 DEF Email, Refuse
  <2>2. pc[t] = "email"
    BY <1>7 DEF Email
  <2> QED
    BY <1>1, <1>2, <1>3, <2>1, <2>2, ReapplyGoes DEF HoldsAnswer
<1>8. CASE FindUser(t)
  <2>1. UNCHANGED row /\ (Idle(t) \/ Goto(t, "write", val[t]) \/ Goto(t, "record", 0))
    BY <1>8 DEF FindUser, Refuse
  <2>2. pc[t] = "user"
    BY <1>8 DEF FindUser
  <2> QED
    BY <1>1, <1>2, <1>3, <2>1, <2>2, ReapplyGoes DEF HoldsAnswer
<1>9. CASE Write(t)
  <2>1. Goto(t, "record", 0) /\ row' \in {row, val[t]}
    BY <1>9 DEF Write
  <2>2. ASSUME NEW u \in Threads, ~overlap, HoldsAnswer(u)' PROVE FALSE
    BY <1>1, <2>1, <2>2 DEF Goto, ReapplyInv, HoldsAnswer, TypeOK, ThreadsOK
  <2>3. \A u \in Threads : val'[u] <= truth /\ (pc'[u] # "idle" => pc[u] # "idle")
    BY <1>1, <2>1 DEF Goto, ReapplyInv, TypeOK, ThreadsOK
  <2> QED
    BY <1>1, <2>1, <2>2, <2>3 DEF ReapplyInv, Ids
<1>10. CASE Record(t)
  BY <1>1, <1>2, <1>10, ReapplyGoes DEF Record
<1> QED
  BY <1>4, <1>5, <1>6, <1>7, <1>8, <1>9, <1>10 DEF Handle

LEMMA ReapplyNext ==
  ASSUME TypeOK, ReapplyInv, [Next]_vars
  PROVE  ReapplyInv'
<1>1. StoreOK /\ ThreadsOK
  BY DEF TypeOK
<1>2. ASSUME NEW k \in Kinds, Emit(k) PROVE ReapplyInv'
  <2>1. /\ truth \in Nat /\ truth' \in Nat /\ truth <= truth' /\ row \in Nat
        /\ \A t \in Threads : val[t] \in Nat
        /\ UNCHANGED <<row, pc, ev, val, overlap>>
    BY <1>1, <1>2 DEF Emit, thread, StoreOK, ThreadsOK
  <2>2. /\ Ids' = 1 .. Len(sent) + 1 /\ Len(sent) \in Nat
        /\ \A e \in Ids : sent'[e] = sent[e] /\ sent[e].version \in Nat
        /\ sent'[Len(sent) + 1].version = truth'
    <3> DEFINE x == [kind |-> k, version |-> truth']
    <3>1. x \in [kind : AllKinds, version : Nat] /\ sent' = Append(sent, x) /\ x.version = truth'
      BY <1>2, <2>1, WebhookAssumption DEF Emit, WebhookAssumption
    <3> HIDE DEF x
    <3>2. /\ Len(sent') = Len(sent) + 1 /\ Len(sent) \in Nat /\ sent'[Len(sent) + 1] = x
          /\ \A e \in Ids : sent'[e] = sent[e]
      <4>1. sent \in Seq([kind : AllKinds, version : Nat])
        BY <1>1 DEF StoreOK
      <4> QED
        BY <3>1, <4>1, AppendKeeps, AppendProperties DEF Ids
    <3> QED
      BY <1>1, <3>1, <3>2, EventTypes DEF Ids
  <2>3. \A e \in Ids' : sent'[e].version <= truth'
    BY <2>1, <2>2 DEF ReapplyInv, Ids
  <2>4. \A t \in Threads : HoldsAnswer(t)' => HoldsAnswer(t)
    BY <1>1, <2>1, <2>2 DEF HoldsAnswer, ThreadsOK
  <2> QED
    BY <2>1, <2>3, <2>4 DEF ReapplyInv
<1>3. CASE Crash
  BY <1>1, <1>3 DEF Crash, Outside, ReapplyInv, HoldsAnswer, Ids, StoreOK
<1>4. ASSUME NEW t \in Threads, NEW e \in Ids, Deliver(t, e) PROVE ReapplyInv'
  <2>1. /\ pc[t] = "idle" /\ pc' = [pc EXCEPT ![t] = "find"] /\ ev' = [ev EXCEPT ![t] = e]
        /\ overlap' = (overlap \/ \E u \in Threads : pc[u] # "idle")
        /\ UNCHANGED <<val, row, truth, sent>>
    BY <1>4 DEF Deliver
  <2>2. \A u \in Threads : HoldsAnswer(u)' => HoldsAnswer(u)
    BY <1>1, <2>1 DEF HoldsAnswer, ThreadsOK
  <2>3. ~overlap' => ~overlap /\ \A u \in Threads : pc'[u] # "idle" => u = t
    BY <1>1, <2>1 DEF ThreadsOK
  <2> QED
    BY <2>1, <2>2, <2>3 DEF ReapplyInv, Ids
<1>5. ASSUME NEW t \in Threads, Handle(t) PROVE ReapplyInv'
  BY <1>5, ReapplyHandle
<1>6. ASSUME NEW e \in Ids, Prune(e) PROVE ReapplyInv'
  BY <1>6 DEF Prune, Outside, thread, ReapplyInv, HoldsAnswer, Ids
<1>7. CASE UNCHANGED vars
  BY <1>7 DEF vars, thread, ReapplyInv, HoldsAnswer, Ids
<1> QED
  BY <1>2, <1>3, <1>4, <1>5, <1>6, <1>7 DEF Next

\* "safe here because every write these handlers perform sets subscription columns to
\* absolute values read from Stripe" (payment): of deliveries that do not overlap, a
\* second application never takes the row back in time.
THEOREM ReapplyingIsSafe == Spec => ReapplyIsSafe
<1>1. Init => ReapplyInv
  BY ReapplyInit
<1>2. TypeOK /\ ReapplyInv /\ [Next]_vars => ReapplyInv'
  BY ReapplyNext
<1>3. TypeOK /\ ReapplyInv /\ [Next]_vars =>
        [\A t \in Threads :
           /\ ~overlap /\ pc[t] = "write" /\ pc'[t] = "record"
           /\ sent[ev[t]].kind \in ReadingKinds /\ ev[t] \in applied
           => row' >= row]_vars
  <2> SUFFICES ASSUME TypeOK, ReapplyInv, Next, NEW t \in Threads,
                      ~overlap, pc[t] = "write", pc'[t] = "record", sent[ev[t]].kind \in ReadingKinds
               PROVE  row' >= row
    OBVIOUS
  <2>1. row <= val[t] /\ row \in Nat /\ val[t] \in Nat
    BY DEF ReapplyInv, HoldsAnswer, TypeOK, StoreOK, ThreadsOK
  <2>2. row' = row \/ row' = val[t]
    <3>1. \A u \in Threads : u # t => pc[u] = "idle"
      BY DEF ReapplyInv
    <3>2. ASSUME NEW u \in Threads, Handle(u) PROVE row' = row \/ row' = val[t]
      <4>1. u = t
        BY <3>1, <3>2 DEF Handle, Acknowledge, Find, Retrieve, Email, FindUser, Write, Record
      <4> QED
        BY <3>2, <4>1 DEF Handle, Acknowledge, Find, Retrieve, Email, FindUser, Write, Record
    <3> QED
      BY <3>2 DEF Next, Emit, Crash, Prune, Deliver
  <2> QED
    BY <2>1, <2>2
<1> QED
  BY <1>1, <1>2, <1>3, TypeCorrect, PTL DEF Spec, ReapplyIsSafe
=============================================================================
