---------------------------- MODULE StripeWorker ----------------------------
(***************************************************************************)
(* backend/src/stripe_worker.rs: request threads put their Stripe calls on *)
(* a bounded queue and wait at most STRIPE_CALL_TIMEOUT for the answer; a  *)
(* few worker threads drain it one job at a time and drop what is expired. *)
(*                                                                         *)
(* Time is an order: a job's deadline passes (Expire) some time after it   *)
(* was stamped, and its caller, who started to wait later and as long,     *)
(* gives up only after that.  The five kinds of call differ in their       *)
(* payload only.                                                           *)
(***************************************************************************)
EXTENDS Naturals, Sequences

CONSTANTS
  Calls,     \* the calls made, each by a request thread of its own
  Workers,   \* STRIPE_WORKERS threads
  Cap,       \* STRIPE_QUEUE_CAP
  NoJob,     \* a worker with empty hands
  Mortal     \* may a worker panic inside the client?

ASSUME WorkerAssumption ==
  /\ Cap \in Nat \ {0}
  /\ NoJob \notin Calls
  /\ Mortal \in BOOLEAN

VARIABLES
  caller,  \* where each request thread is
  late,    \* has the deadline of the job passed?
  answer,  \* what the call returned to the caller
  queue,   \* the bounded channel
  wpc,     \* where each worker is
  job,     \* what it holds
  reply,   \* the one-slot reply channel of each call
  stripe   \* what happened of the call at Stripe

vars == <<caller, late, answer, queue, wpc, job, reply, stripe>>

Init ==
  /\ caller = [c \in Calls |-> "idle"]
  /\ late = [c \in Calls |-> FALSE]
  /\ answer = [c \in Calls |-> "none"]
  /\ queue = <<>>
  /\ wpc = [w \in Workers |-> "lock"]
  /\ job = [w \in Workers |-> NoJob]
  /\ reply = [c \in Calls |-> "empty"]
  /\ stripe = [c \in Calls |-> "no"]

-----------------------------------------------------------------------------
(* The request thread.                                                     *)

\* enqueue stamps the deadline, before it waits for the lock of the sender.
Stamp(c) ==
  /\ caller[c] = "idle"
  /\ caller' = [caller EXCEPT ![c] = "sending"]
  /\ UNCHANGED <<late, answer, queue, wpc, job, reply, stripe>>

Expire(c) ==
  /\ caller[c] # "idle" /\ ~late[c]
  /\ late' = [late EXCEPT ![c] = TRUE]
  /\ UNCHANGED <<caller, answer, queue, wpc, job, reply, stripe>>

Answer(c, a) ==
  /\ caller' = [caller EXCEPT ![c] = "answered"]
  /\ answer' = [answer EXCEPT ![c] = a]

\* The receiver lives as long as one worker holds it.
Closed == \A w \in Workers : wpc[w] = "dead"

Send(c) ==
  /\ caller[c] = "sending" /\ ~Closed /\ Len(queue) < Cap
  /\ queue' = Append(queue, c)
  /\ caller' = [caller EXCEPT ![c] = "waiting"]
  /\ UNCHANGED <<late, answer, wpc, job, reply, stripe>>

SendBusy(c) ==
  /\ caller[c] = "sending" /\ ~Closed /\ Len(queue) >= Cap
  /\ Answer(c, "Busy")
  /\ UNCHANGED <<late, queue, wpc, job, reply, stripe>>

SendClosed(c) ==
  /\ caller[c] = "sending" /\ Closed
  /\ Answer(c, "Transport")
  /\ UNCHANGED <<late, queue, wpc, job, reply, stripe>>

\* wait: a value in the channel wins over the timeout.
Receive(c) ==
  /\ caller[c] = "waiting"
  /\ \/ reply[c] = "value" /\ Answer(c, "result")
     \/ reply[c] = "expired" /\ Answer(c, "Timeout")
     \/ reply[c] = "dropped" /\ Answer(c, "Transport")
  /\ UNCHANGED <<late, queue, wpc, job, reply, stripe>>

\* Mutant: a plain recv, which only the end of the channel wakes.
WaitForever(c) ==
  /\ caller[c] = "waiting" /\ reply[c] = "dropped"
  /\ Answer(c, "Timeout")
  /\ UNCHANGED <<late, queue, wpc, job, reply, stripe>>

TimeOut(c) ==
  /\ caller[c] = "waiting" /\ late[c] /\ reply[c] = "empty"
  /\ Answer(c, "Timeout")
  /\ UNCHANGED <<late, queue, wpc, job, reply, stripe>>

-----------------------------------------------------------------------------
(* The worker.                                                             *)

Work(w, l, j) ==
  /\ wpc' = [wpc EXCEPT ![w] = l]
  /\ job' = [job EXCEPT ![w] = j]

\* The lock of the receiver is held while blocked in recv.
Lock(w) ==
  /\ wpc[w] = "lock" /\ \A v \in Workers : wpc[v] # "recv"
  /\ Work(w, "recv", NoJob)
  /\ UNCHANGED <<caller, late, answer, queue, reply, stripe>>

Take(w) ==
  /\ wpc[w] = "recv" /\ queue # <<>>
  /\ Work(w, "check", Head(queue))
  /\ queue' = Tail(queue)
  /\ UNCHANGED <<caller, late, answer, reply, stripe>>

Reject(w) ==
  /\ wpc[w] = "check" /\ late[job[w]]
  /\ reply' = [reply EXCEPT ![job[w]] = "expired"]
  /\ Work(w, "lock", NoJob)
  /\ UNCHANGED <<caller, late, answer, queue, stripe>>

\* Mutant: the deadline is not looked at.
BeginAlways(w) ==
  /\ wpc[w] = "check"
  /\ stripe' = [stripe EXCEPT ![job[w]] = "running"]
  /\ Work(w, "call", job[w])
  /\ UNCHANGED <<caller, late, answer, queue, reply>>

\* The deadline is looked at right before the client is called.
Begin(w) ==
  /\ wpc[w] = "check" /\ ~late[job[w]]
  /\ stripe' = [stripe EXCEPT ![job[w]] = "running"]
  /\ Work(w, "call", job[w])
  /\ UNCHANGED <<caller, late, answer, queue, reply>>

\* Stripe answers, or the client's own 30 s are over.
StripeEnds(w) ==
  /\ wpc[w] = "call"
  /\ stripe' = [stripe EXCEPT ![job[w]] = "over"]
  /\ Work(w, "reply", job[w])
  /\ UNCHANGED <<caller, late, answer, queue, reply>>

\* The send fails, unnoticed, when the caller has given up.
Reply(w) ==
  /\ wpc[w] = "reply"
  /\ reply' = [reply EXCEPT ![job[w]] = "value"]
  /\ Work(w, "lock", NoJob)
  /\ UNCHANGED <<caller, late, answer, queue, stripe>>

Queued == {queue[i] : i \in DOMAIN queue}

\* A worker panics in the client: its reply channel closes, and with the last
\* worker the queue goes and closes those of the jobs in it.
Panic(w) ==
  /\ Mortal
  /\ wpc[w] = "call"
  /\ stripe' = [stripe EXCEPT ![job[w]] = "over"]
  /\ Work(w, "dead", NoJob)
  /\ LET gone == {job[w]} \cup (IF \A v \in Workers \ {w} : wpc[v] = "dead" THEN Queued ELSE {})
     IN  reply' = [c \in Calls |-> IF c \in gone THEN "dropped" ELSE reply[c]]
  /\ queue' = IF \A v \in Workers \ {w} : wpc[v] = "dead" THEN <<>> ELSE queue
  /\ UNCHANGED <<caller, late, answer>>

-----------------------------------------------------------------------------
Call(c) == Stamp(c) \/ Send(c) \/ SendBusy(c) \/ SendClosed(c) \/ Receive(c) \/ TimeOut(c)

Serve(w) == Lock(w) \/ Take(w) \/ Reject(w) \/ Begin(w) \/ Reply(w)

Next ==
  \/ \E c \in Calls : Call(c) \/ Expire(c)
  \/ \E w \in Workers : Serve(w) \/ StripeEnds(w) \/ Panic(w)

Spec == Init /\ [][Next]_vars

\* Time passes and the threads run; Stripe may never answer.
FairSpec ==
  /\ Spec
  /\ \A c \in Calls : WF_vars(Expire(c)) /\ WF_vars(Call(c) /\ caller[c] # "idle")
  /\ \A w \in Workers : WF_vars(Serve(w))

-----------------------------------------------------------------------------
\* Types.  A worker holds a job exactly between taking it and having replied.
TypeOK ==
  /\ caller \in [Calls -> {"idle", "sending", "waiting", "answered"}]
  /\ late \in [Calls -> BOOLEAN]
  /\ answer \in [Calls -> {"none", "result", "Busy", "Timeout", "Transport"}]
  /\ queue \in Seq(Calls)
  /\ wpc \in [Workers -> {"lock", "recv", "check", "call", "reply", "dead"}]
  /\ job \in [Workers -> Calls \cup {NoJob}]
  /\ \A w \in Workers : (job[w] # NoJob) <=> (wpc[w] \in {"check", "call", "reply"})
  /\ reply \in [Calls -> {"empty", "value", "expired", "dropped"}]
  /\ stripe \in [Calls -> {"no", "running", "over"}]

Held == {job[w] : w \in Workers} \ {NoJob}

\* No caller waits for a job that is nowhere: while its reply is missing, the job
\* is in the queue or in the hands of a living worker (reject_expired answers what
\* it drops, and a dying worker closes the channels of what it held).
NoLostJob ==
  \A c \in Calls :
    caller[c] = "waiting" /\ reply[c] = "empty" => c \in Queued \cup Held

\* The queue never holds more than STRIPE_QUEUE_CAP jobs, and the same job is never
\* in two places: no two workers make the same call.
OneCopy ==
  /\ Len(queue) <= Cap
  /\ \A i, j \in DOMAIN queue : queue[i] = queue[j] => i = j
  /\ \A v, w \in Workers : job[v] = job[w] /\ job[v] # NoJob => v = w
  /\ Queued \cap Held = {}

\* A job somebody still has to serve: its caller waits, or gave up for being late.
Outstanding(c) ==
  /\ caller[c] \in {"waiting", "answered"}
  /\ caller[c] = "answered" => late[c]
  /\ reply[c] = "empty"

\* What Stripe has seen of a call follows from where its job is.
Tracked ==
  /\ \A c \in Queued : stripe[c] = "no"
  /\ \A w \in Workers :
       /\ wpc[w] = "check" => stripe[job[w]] = "no"
       /\ wpc[w] = "call" => stripe[job[w]] = "running"
       /\ wpc[w] = "reply" => stripe[job[w]] = "over"
  /\ \A c \in Calls :
       /\ caller[c] \in {"idle", "sending"} => stripe[c] = "no" /\ reply[c] = "empty"
       /\ caller[c] = "answered" <=> answer[c] # "none"
       /\ reply[c] = "value" => stripe[c] = "over"

\* The inductive invariant behind OneCopy, NoLostJob and Implements.
WorkerInv ==
  TypeOK /\ OneCopy /\ NoLostJob /\ Tracked /\ \A c \in Queued \cup Held : Outstanding(c)

Abstract == INSTANCE StripeCalls WITH Calls <- Calls, answer <- answer, stripe <- stripe

\* The module doc ("a caller that times out ...; workers drop expired work instead
\* of still hitting Stripe"): the queue and its threads do what StripeCalls promises.
Implements == Abstract!Spec

\* A request thread is answered although Stripe may stall for ever ("the request
\* thread waits with a hard timeout and answers 504 if Stripe stalls").
Answered == \A c \in Calls : caller[c] # "idle" ~> caller[c] = "answered"

=============================================================================
