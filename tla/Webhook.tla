------------------------------ MODULE Webhook ------------------------------
(***************************************************************************)
(* POST /api/payment (backend/src/routes.rs, payment and process_webhook): *)
(* Stripe tells the server of changes of one subscription, at least once   *)
(* and in any order, and the server copies them into the Users row of the  *)
(* customer and remembers the event in WebhookEvents.                      *)
(*                                                                         *)
(* The state of the subscription at Stripe is its version; the columns     *)
(* subscription_stripeID, _expires and _status hold one version.  Event    *)
(* types the handler does not know, and invoices without a subscription,   *)
(* are recorded only and left out.                                         *)
(***************************************************************************)
EXTENDS Naturals, Sequences

CONSTANTS
  Threads,     \* request threads
  Kinds,       \* the event types Stripe sends
  Registered,  \* does the customer have an account?
  Emails,      \* does the Stripe customer have an email: the possible answers
  DbFaults,    \* may a database statement fail?
  MaxEvents,   \* bound: events sent
  MaxFaults    \* bound: failures and crashes

ReadingKinds == {"checkout.session.completed", "invoice.paid"}
ChangeKinds  == ReadingKinds \cup {"subscription"}
AllKinds     == ChangeKinds \cup {"invoice.payment_failed"}

ASSUME WebhookAssumption ==
  /\ Kinds \subseteq AllKinds
  /\ Registered \in BOOLEAN /\ Emails \subseteq BOOLEAN /\ DbFaults \in BOOLEAN
  /\ MaxEvents \in Nat /\ MaxFaults \in Nat

VARIABLES
  truth,     \* version of the subscription at Stripe
  sent,      \* the events, by id: their type and the version in their payload
  acked,     \* events Stripe got a 200 for
  row,       \* the version in the subscription columns
  recorded,  \* the ids in WebhookEvents
  applied,   \* the events whose UPDATE was executed (a history)
  pc,        \* where each thread is
  ev,        \* the event it handles
  val,       \* the version it is about to write
  overlap,   \* were two deliveries ever handled at once? (a history)
  faults     \* counter behind the bound

thread == <<pc, ev, val>>
vars   == <<truth, sent, acked, row, recorded, applied, thread, overlap, faults>>

Ids == 1 .. Len(sent)

Init ==
  /\ truth = 0 /\ sent = <<>> /\ acked = {}
  /\ row = 0 /\ recorded = {} /\ applied = {}
  /\ pc = [t \in Threads |-> "idle"]
  /\ ev = [t \in Threads |-> 0]
  /\ val = [t \in Threads |-> 0]
  /\ overlap = FALSE
  /\ faults = 0

Fault == faults < MaxFaults /\ faults' = faults + 1
Fine  == UNCHANGED faults

\* The outcomes of a database statement, and of a call through StripeWorker.
DbOutcome(ok) == (ok /\ Fine) \/ (DbFaults /\ ~ok /\ Fault)
CallOutcome(ok) == (ok /\ Fine) \/ (~ok /\ Fault)

-----------------------------------------------------------------------------
(* Stripe and the customer.                                                *)

\* The subscription changes, or a payment fails, and Stripe sends the event.
Emit(k) ==
  /\ Len(sent) < MaxEvents
  /\ truth' = IF k \in ChangeKinds THEN truth + 1 ELSE truth
  /\ sent' = Append(sent, [kind |-> k, version |-> truth'])
  /\ UNCHANGED <<acked, row, recorded, applied, thread, overlap, faults>>

-----------------------------------------------------------------------------
(* The handler.                                                            *)

Outside == UNCHANGED <<truth, sent, overlap>>

Goto(t, l, v) ==
  /\ pc' = [pc EXCEPT ![t] = l]
  /\ val' = [val EXCEPT ![t] = v]
  /\ UNCHANGED <<ev, acked>>

Idle(t) ==
  /\ pc' = [pc EXCEPT ![t] = "idle"]
  /\ ev' = [ev EXCEPT ![t] = 0]
  /\ val' = [val EXCEPT ![t] = 0]

\* A 400 or 500: Stripe will send the event again.
Refuse(t) == Idle(t) /\ UNCHANGED acked

\* Whoever is unacknowledged is delivered again, also while it is being handled.
Deliver(t, e) ==
  /\ pc[t] = "idle"
  /\ e \in Ids \ acked
  /\ pc' = [pc EXCEPT ![t] = "find"]
  /\ ev' = [ev EXCEPT ![t] = e]
  /\ overlap' = (overlap \/ \E u \in Threads : pc[u] # "idle")
  /\ UNCHANGED <<val, acked, row, recorded, applied, faults>>
  /\ UNCHANGED <<truth, sent>>

\* The 200, which may not reach Stripe.
Acknowledge(t) ==
  /\ pc[t] = "ack"
  /\ Idle(t)
  /\ \/ acked' = acked \cup {ev[t]} /\ Fine
     \/ UNCHANGED acked /\ Fault
  /\ UNCHANGED <<row, recorded, applied>> /\ Outside

FirstStep(t) == IF sent[ev[t]].kind \in ReadingKinds THEN "retrieve" ELSE "email"

\* find_webhook_event
Find(t) ==
  /\ pc[t] = "find"
  /\ \E ok \in BOOLEAN :
       /\ DbOutcome(ok)
       /\ \/ ~ok /\ Refuse(t)
          \/ ok /\ ev[t] \in recorded /\ Goto(t, "ack", 0)
          \/ ok /\ ev[t] \notin recorded /\ Goto(t, FirstStep(t), sent[ev[t]].version)
  /\ UNCHANGED <<row, recorded, applied>> /\ Outside

\* Mutant: the payload of the event is used instead of what Stripe says now.
RetrieveNothing(t) ==
  /\ pc[t] = "retrieve"
  /\ Goto(t, "email", val[t]) /\ Fine
  /\ UNCHANGED <<row, recorded, applied>> /\ Outside

\* retrieve_subscription: the version Stripe has now.  A checkout that names the
\* customer's email needs no second call.
Retrieve(t) ==
  /\ pc[t] = "retrieve"
  /\ \/ CallOutcome(TRUE) /\ Goto(t, "email", truth)
     \/ /\ CallOutcome(TRUE) /\ sent[ev[t]].kind = "checkout.session.completed"
        /\ Goto(t, "user", truth)
     \/ CallOutcome(FALSE) /\ Refuse(t)
  /\ UNCHANGED <<row, recorded, applied>> /\ Outside

\* Mutant: a failed call is answered with 200.
EmailOrAck(t) ==
  /\ pc[t] = "email"
  /\ \/ CallOutcome(TRUE) /\ Goto(t, "user", val[t])
     \/ CallOutcome(FALSE) /\ Goto(t, "ack", 0)
  /\ UNCHANGED <<row, recorded, applied>> /\ Outside

\* resolve_customer_email: what a missing email and a failed call lead to depends
\* on the type of the event.
Email(t) ==
  /\ pc[t] = "email"
  /\ LET kind == sent[ev[t]].kind
     IN  \/ TRUE \in Emails /\ CallOutcome(TRUE) /\ Goto(t, "user", val[t])
         \/ /\ FALSE \in Emails /\ CallOutcome(TRUE)
            /\ IF kind = "subscription" THEN Refuse(t) ELSE Goto(t, "record", 0)
         \/ /\ CallOutcome(FALSE)
            /\ IF kind = "invoice.payment_failed" THEN Goto(t, "record", 0) ELSE Refuse(t)
  /\ UNCHANGED <<row, recorded, applied>> /\ Outside

\* find_user.  For a failed payment the account is only looked up for the log;
\* otherwise apply_sub_patch returns false when it is missing, or when the
\* statement fails, and its callers go on all the same.
FindUser(t) ==
  /\ pc[t] = "user"
  /\ LET failed == sent[ev[t]].kind = "invoice.payment_failed"
     IN  \E ok \in BOOLEAN :
           /\ DbOutcome(ok)
           /\ \/ ok /\ Registered /\ ~failed /\ Goto(t, "write", val[t])
              \/ ok /\ (~Registered \/ failed) /\ Goto(t, "record", 0)
              \/ ~ok /\ ~failed /\ Goto(t, "record", 0)
              \/ ~ok /\ failed /\ Refuse(t)
  /\ UNCHANGED <<row, recorded, applied>> /\ Outside

\* update_user_subscription: the columns are set to the version at hand.
Write(t) ==
  /\ pc[t] = "write"
  /\ \E ok \in BOOLEAN :
       /\ DbOutcome(ok)
       /\ IF ok THEN row' = val[t] /\ applied' = applied \cup {ev[t]}
                ELSE UNCHANGED <<row, applied>>
  /\ Goto(t, "record", 0)
  /\ UNCHANGED recorded /\ Outside

\* insert_webhook_event: a failure, also that of a second insert, is only logged.
Record(t) ==
  /\ pc[t] = "record"
  /\ \E ok \in BOOLEAN :
       /\ DbOutcome(ok)
       /\ recorded' = IF ok THEN recorded \cup {ev[t]} ELSE recorded
  /\ Goto(t, "ack", 0)
  /\ UNCHANGED <<row, applied>> /\ Outside

\* The server is killed and starts again.
Crash ==
  /\ Fault
  /\ pc' = [t \in Threads |-> "idle"]
  /\ ev' = [t \in Threads |-> 0]
  /\ val' = [t \in Threads |-> 0]
  /\ UNCHANGED <<acked, row, recorded, applied>> /\ Outside

\* run_webhook_cleanup: a record is dropped after 30 days, when Stripe has long had its
\* answer and no thread has the event.  (An event without an answer is no longer sent
\* then either.)
Prune(e) ==
  /\ e \in recorded \cap acked /\ \A t \in Threads : ev[t] # e
  /\ recorded' = recorded \ {e}
  /\ UNCHANGED <<acked, row, applied, thread, faults>> /\ Outside

Handle(t) == \/ Acknowledge(t) \/ Find(t) \/ Retrieve(t) \/ Email(t)
             \/ FindUser(t) \/ Write(t) \/ Record(t)

Next ==
  \/ \E k \in Kinds : Emit(k)
  \/ Crash
  \/ \E e \in Ids : Prune(e)
  \/ \E t \in Threads : Handle(t) \/ \E e \in Ids : Deliver(t, e)

Spec == Init /\ [][Next]_vars

\* Threads run, and Stripe goes on delivering every event it has no 200 for.
FairSpec ==
  /\ Spec
  /\ \A t \in Threads : WF_vars(Handle(t))
  /\ \A e \in 1 .. MaxEvents : SF_vars(e \in Ids /\ \E t \in Threads : Deliver(t, e))

-----------------------------------------------------------------------------
Labels == {"idle", "find", "retrieve", "email", "user", "write", "record", "ack"}

StoreOK ==
  /\ truth \in Nat /\ row \in Nat
  /\ sent \in Seq([kind : AllKinds, version : Nat])
  /\ acked \subseteq Ids /\ recorded \subseteq Ids /\ applied \subseteq Ids
  /\ overlap \in BOOLEAN
  /\ faults \in Nat

ThreadsOK ==
  /\ pc \in [Threads -> Labels]
  /\ ev \in [Threads -> Ids \cup {0}]
  /\ val \in [Threads -> Nat]
  /\ \A t \in Threads : pc[t] # "idle" => ev[t] \in Ids

\* Types.  A thread that works keeps the event it was started for to the end.
TypeOK == StoreOK /\ ThreadsOK

Changes == {e \in Ids : sent[e].kind \in ChangeKinds}

\* "Recorded only after the effect has been applied, so the record can never claim
\* an event was handled when it was not" (payment), whatever crash comes between.
RecordedHandled == recorded \cap Changes \subseteq applied

\* The same of the 200: Stripe gives up an event only when it took effect.
AckedHandled == acked \cap Changes \subseteq applied

\* The inductive invariant behind both.
AppliedFirst ==
  \A t \in Threads : pc[t] \in {"record", "ack"} /\ ev[t] \in Changes => ev[t] \in applied

HandledInv == TypeOK /\ RecordedHandled /\ AckedHandled /\ AppliedFirst

\* "... the possibility of applying an event twice, which is safe here because every
\* write these handlers perform sets subscription columns to absolute values read
\* from Stripe": without concurrent deliveries a second application never takes the
\* row back in time.  (Events of the kind "subscription" read nothing from Stripe.)
ReapplyIsSafe ==
  [][\A t \in Threads :
       /\ ~overlap /\ pc[t] = "write" /\ pc'[t] = "record"
       /\ sent[ev[t]].kind \in ReadingKinds /\ ev[t] \in applied
       => row' >= row]_vars

\* Crashes, failed calls and lost answers only delay an event: it takes effect.
EveryEventHandled ==
  \A e \in 1 .. MaxEvents : e \in Changes ~> e \in applied /\ e \in acked
=============================================================================
