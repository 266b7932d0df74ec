------------------------- MODULE StripeWorker_proofs -------------------------
(* StripeWorker implements StripeCalls for any number of calls and workers  *)
(* and any capacity, and loses and doubles no job.                          *)
EXTENDS StripeWorker, TLAPS

\* What putting a job on the queue and taking it off do to the set of jobs queued.
LEMMA Appended ==
  ASSUME NEW q \in Seq(Calls), NEW c \in Calls, \A i \in DOMAIN q : q[i] # c,
         \A i, j \in DOMAIN q : q[i] = q[j] => i = j
  PROVE  /\ Append(q, c) \in Seq(Calls) /\ Len(Append(q, c)) = Len(q) + 1
         /\ {Append(q, c)[i] : i \in DOMAIN Append(q, c)} = {q[i] : i \in DOMAIN q} \cup {c}
         /\ \A i, j \in DOMAIN Append(q, c) : Append(q, c)[i] = Append(q, c)[j] => i = j
<1>1. /\ Append(q, c) \in Seq(Calls) /\ Len(Append(q, c)) = Len(q) + 1
      /\ DOMAIN q = 1 .. Len(q) /\ DOMAIN Append(q, c) = 1 .. Len(q) + 1
      /\ Len(q) \in Nat
  OBVIOUS
<1>2. \A i \in 1 .. Len(q) : Append(q, c)[i] = q[i]
  OBVIOUS
<1>3. Append(q, c)[Len(q) + 1] = c
  OBVIOUS
<1>4. \A i \in 1 .. Len(q) + 1 : i \in 1 .. Len(q) \/ i = Len(q) + 1
  BY <1>1
<1>5. {Append(q, c)[i] : i \in DOMAIN Append(q, c)} = {q[i] : i \in DOMAIN q} \cup {c}
  BY <1>1, <1>2, <1>3, <1>4
<1>6. \A i, j \in DOMAIN Append(q, c) : Append(q, c)[i] = Append(q, c)[j] => i = j
  BY <1>1, <1>2, <1>3, <1>4
<1>7. QED
  BY <1>1, <1>5, <1>6

LEMMA Taken ==
  ASSUME NEW q \in Seq(Calls), q # <<>>, \A i, j \in DOMAIN q : q[i] = q[j] => i = j
  PROVE  /\ Tail(q) \in Seq(Calls) /\ Len(Tail(q)) = Len(q) - 1
         /\ Head(q) \in Calls /\ Head(q) \in {q[i] : i \in DOMAIN q}
         /\ {Tail(q)[i] : i \in DOMAIN Tail(q)} = {q[i] : i \in DOMAIN q} \ {Head(q)}
         /\ \A i, j \in DOMAIN Tail(q) : Tail(q)[i] = Tail(q)[j] => i = j
<1>1. /\ Tail(q) \in Seq(Calls) /\ Len(Tail(q)) = Len(q) - 1
      /\ DOMAIN q = 1 .. Len(q) /\ DOMAIN Tail(q) = 1 .. Len(q) - 1
      /\ Len(q) \in Nat /\ Len(q) > 0
  OBVIOUS
<1>2. \A i \in 1 .. Len(q) - 1 : Tail(q)[i] = q[i + 1] /\ i + 1 \in 1 .. Len(q)
  BY <1>1
<1>3. Head(q) = q[1] /\ 1 \in DOMAIN q
  BY <1>1
<1>4. \A i \in 1 .. Len(q) : i # 1 => (i - 1) \in 1 .. Len(q) - 1 /\ Tail(q)[i - 1] = q[i]
  BY <1>1, <1>2
<1>5. Head(q) \in Calls
  BY <1>1, <1>3
<1>6. {Tail(q)[i] : i \in DOMAIN Tail(q)} \subseteq {q[i] : i \in DOMAIN q} \ {Head(q)}
  <2>1. ASSUME NEW i \in 1 .. Len(q) - 1 PROVE Tail(q)[i] # q[1]
    BY <1>1, <1>2, <1>3
  <2>2. QED
    BY <1>1, <1>2, <1>3, <2>1
<1>7. {q[i] : i \in DOMAIN q} \ {Head(q)} \subseteq {Tail(q)[i] : i \in DOMAIN Tail(q)}
  <2>1. ASSUME NEW i \in 1 .. Len(q), q[i] # Head(q)
        PROVE  q[i] \in {Tail(q)[k] : k \in DOMAIN Tail(q)}
    <3>1. i # 1
      BY <1>3, <2>1
    <3>2. QED
      BY <1>1, <1>4, <3>1
  <2>2. QED
    BY <1>1, <2>1
<1>8. ASSUME NEW i \in 1 .. Len(q) - 1, NEW j \in 1 .. Len(q) - 1, Tail(q)[i] = Tail(q)[j]
      PROVE  i = j
  <2>1. q[i + 1] = q[j + 1]
    BY <1>2, <1>8
  <2>2. i + 1 = j + 1
    BY <1>1, <1>2, <2>1
  <2>3. QED
    BY <1>1, <2>2
<1>9. QED
  BY <1>1, <1>3, <1>5, <1>6, <1>7, <1>8

Jobs == \A c \in Queued \cup Held : Outstanding(c)

\* What is in the queue and in hands are calls.
LEMMA Places ==
  ASSUME TypeOK
  PROVE  Queued \subseteq Calls /\ Held \subseteq Calls
BY DEF TypeOK, Queued, Held

-----------------------------------------------------------------------------
(* The steps that leave the queue and the workers alone.                   *)

LEMMA CallerStep ==
  ASSUME WorkerInv, UNCHANGED <<queue, wpc, job, reply, stripe>>, NEW c \in Calls,
         \/ Stamp(c) \/ SendBusy(c) \/ SendClosed(c) \/ Receive(c) \/ TimeOut(c)
         \/ Expire(c)
  PROVE  WorkerInv'
<1>1. Queued' = Queued /\ Held' = Held
  BY DEF Queued, Held
<1>2. Queued \subseteq Calls /\ Held \subseteq Calls
  BY Places DEF WorkerInv
<1> USE DEF WorkerInv
<1>3. CASE Stamp(c)
  <2>1. TypeOK'
    BY <1>3 DEF Stamp, TypeOK
  <2>2. OneCopy'
    BY <1>1 DEF OneCopy, Queued
  <2>3. NoLostJob' /\ Tracked'
    BY <1>1, <1>3 DEF Stamp, TypeOK, NoLostJob, Tracked
  <2>4. \A d \in Queued \cup Held : Outstanding(d)'
    BY <1>2, <1>3 DEF Stamp, TypeOK, Outstanding
  <2>5. QED
    BY <1>1, <2>1, <2>2, <2>3, <2>4
<1>4. CASE Expire(c)
  <2>1. TypeOK'
    BY <1>4 DEF Expire, TypeOK
  <2>2. OneCopy'
    BY <1>1 DEF OneCopy, Queued
  <2>3. NoLostJob' /\ Tracked'
    BY <1>1, <1>4 DEF Expire, TypeOK, NoLostJob, Tracked
  <2>4. \A d \in Queued \cup Held : Outstanding(d)'
    BY <1>2, <1>4 DEF Expire, TypeOK, Outstanding
  <2>5. QED
    BY <1>1, <2>1, <2>2, <2>3, <2>4
<1>5. CASE SendBusy(c) \/ SendClosed(c) \/ Receive(c) \/ TimeOut(c)
  <2>1. PICK a \in {"result", "Busy", "Timeout", "Transport"} : Answer(c, a) /\ UNCHANGED late
    BY <1>5 DEF SendBusy, SendClosed, Receive, TimeOut
  <2>2. c \in Queued \cup Held => late[c]
    BY <1>5 DEF SendBusy, SendClosed, Receive, TimeOut, Outstanding
  <2>3. caller[c] \in {"sending", "waiting"}
    BY <1>5 DEF SendBusy, SendClosed, Receive, TimeOut
  <2>4. TypeOK'
    BY <2>1 DEF Answer, TypeOK
  <2>5. OneCopy'
    BY <1>1 DEF OneCopy, Queued
  <2>6. NoLostJob' /\ Tracked'
    BY <1>1, <2>1 DEF Answer, TypeOK, NoLostJob, Tracked
  <2>7. \A d \in Queued \cup Held : Outstanding(d)'
    BY <1>2, <2>1, <2>2 DEF Answer, TypeOK, Outstanding
  <2>8. QED
    BY <1>1, <2>4, <2>5, <2>6, <2>7
<1>6. QED
  BY <1>3, <1>4, <1>5

-----------------------------------------------------------------------------
(* The steps that move a job.                                              *)

LEMMA SendStep ==
  ASSUME WorkerInv, NEW c \in Calls, Send(c)
  PROVE  WorkerInv'
<1> USE DEF WorkerInv
<1>1. c \notin Queued \cup Held
  BY DEF Send, Outstanding, WorkerInv
<1>2. /\ queue' \in Seq(Calls) /\ Len(queue') = Len(queue) + 1
      /\ Queued' = Queued \cup {c}
      /\ \A i, j \in DOMAIN queue' : queue'[i] = queue'[j] => i = j
  <2>1. queue \in Seq(Calls) /\ \A i \in DOMAIN queue : queue[i] # c
    BY <1>1 DEF TypeOK, Queued
  <2>2. \A i, j \in DOMAIN queue : queue[i] = queue[j] => i = j
    BY DEF OneCopy
  <2>3. queue' = Append(queue, c)
    BY DEF Send
  <2>4. /\ Append(queue, c) \in Seq(Calls) /\ Len(Append(queue, c)) = Len(queue) + 1
        /\ {Append(queue, c)[i] : i \in DOMAIN Append(queue, c)} = {queue[i] : i \in DOMAIN queue} \cup {c}
        /\ \A i, j \in DOMAIN Append(queue, c) : Append(queue, c)[i] = Append(queue, c)[j] => i = j
    BY <2>1, <2>2, Appended
  <2>5. QED
    BY <2>3, <2>4 DEF Queued
<1>3. Held' = Held /\ Queued \subseteq Calls /\ Held \subseteq Calls
  BY Places DEF Send, Held
<1>4. TypeOK'
  BY <1>2 DEF Send, TypeOK
<1>5. OneCopy'
  <2>1. Len(queue') <= Cap
    BY <1>2, WorkerAssumption DEF Send, TypeOK
  <2>2. QED
    BY <1>1, <1>2, <1>3, <2>1 DEF Send, OneCopy
<1>6. NoLostJob'
  BY <1>2, <1>3 DEF Send, TypeOK, NoLostJob
<1>7. stripe[c] = "no" /\ reply[c] = "empty"
  BY DEF Send, Tracked
<1>8. Tracked'
  BY <1>2, <1>3, <1>7 DEF Send, TypeOK, Tracked
<1>9. \A d \in Queued \cup Held \cup {c} : Outstanding(d)'
  BY <1>3, <1>7 DEF Send, TypeOK, Outstanding
<1>10. QED
  BY <1>2, <1>3, <1>4, <1>5, <1>6, <1>8, <1>9

\* What the step of a worker does to the jobs in hands.
LEMMA HeldStep ==
  ASSUME TypeOK, OneCopy, NEW w \in Workers, NEW l, NEW j \in Calls \cup {NoJob}, Work(w, l, j)
  PROVE  Held' = (Held \ {job[w]}) \cup ({j} \ {NoJob})
<1>1. \A v \in Workers : job'[v] = IF v = w THEN j ELSE job[v]
  BY DEF Work, TypeOK
<1>2. \A v \in Workers : v # w /\ job[v] # NoJob => job[v] # job[w]
  BY DEF OneCopy
<1>3. QED
  BY <1>1, <1>2 DEF Held

LEMMA LockStep ==
  ASSUME WorkerInv, NEW w \in Workers, Lock(w)
  PROVE  WorkerInv'
<1> USE DEF WorkerInv
<1>1. job[w] = NoJob
  BY DEF Lock, TypeOK
<1>2. Held' = Held /\ Queued' = Queued
  BY <1>1, HeldStep, WorkerAssumption DEF Lock, Queued, Held
<1>3. TypeOK'
  BY DEF Lock, Work, TypeOK
<1>4. OneCopy'
  BY <1>1, <1>2 DEF Lock, Work, TypeOK, OneCopy
<1>5. NoLostJob' /\ Tracked' /\ Jobs'
  BY <1>1, <1>2 DEF Lock, Work, TypeOK, NoLostJob, Tracked, Jobs, Outstanding
<1>6. QED
  BY <1>3, <1>4, <1>5 DEF Jobs

LEMMA TakeStep ==
  ASSUME WorkerInv, NEW w \in Workers, Take(w)
  PROVE  WorkerInv'
<1> USE DEF WorkerInv
<1> DEFINE c == Head(queue)
<1>1. job[w] = NoJob
  BY DEF Take, TypeOK
<1>2. /\ Tail(queue) \in Seq(Calls) /\ Len(Tail(queue)) = Len(queue) - 1 /\ c \in Calls
      /\ c \in {queue[i] : i \in DOMAIN queue}
      /\ {Tail(queue)[i] : i \in DOMAIN Tail(queue)} = {queue[i] : i \in DOMAIN queue} \ {c}
      /\ \A i, j \in DOMAIN Tail(queue) : Tail(queue)[i] = Tail(queue)[j] => i = j
  <2>1. queue \in Seq(Calls) /\ queue # <<>>
    BY DEF TypeOK, Take
  <2>2. \A i, j \in DOMAIN queue : queue[i] = queue[j] => i = j
    BY DEF OneCopy
  <2>3. QED
    BY <2>1, <2>2, Taken
<1>3. queue' = Tail(queue) /\ Queued' = Queued \ {c} /\ c \in Queued /\ c \in Calls
  BY <1>2 DEF Take, Queued
<1>4. Work(w, "check", c) /\ UNCHANGED <<caller, late, answer, reply, stripe>>
  BY DEF Take
<1> HIDE DEF c
<1>5. Held' = Held \cup {c}
  BY <1>1, <1>3, <1>4, HeldStep, WorkerAssumption DEF Held
<1>6. c \notin Held /\ c # NoJob
  BY <1>3, WorkerAssumption DEF OneCopy
<1>7. TypeOK'
  BY <1>2, <1>3, <1>4, <1>6 DEF Work, TypeOK
<1>8. OneCopy'
  <2>1. Len(queue') <= Cap
    BY <1>2, <1>3, WorkerAssumption DEF OneCopy, TypeOK
  <2>2. \A u, v \in Workers : job'[u] = job'[v] /\ job'[u] # NoJob => u = v
    BY <1>4, <1>6 DEF Work, TypeOK, OneCopy, Held
  <2>3. QED
    BY <1>2, <1>3, <1>5, <2>1, <2>2 DEF OneCopy
<1>9. NoLostJob'
  BY <1>3, <1>4, <1>5 DEF NoLostJob
<1>10. Tracked'
  <2>1. stripe[c] = "no"
    BY <1>3 DEF Tracked
  <2>2. \A v \in Workers : wpc'[v] = (IF v = w THEN "check" ELSE wpc[v])
                          /\ job'[v] = (IF v = w THEN c ELSE job[v])
    BY <1>4 DEF Work, TypeOK
  <2>3. QED
    BY <1>3, <1>4, <2>1, <2>2 DEF Tracked
<1>11. Jobs'
  BY <1>3, <1>4, <1>5 DEF Jobs, Outstanding
<1>12. QED
  BY <1>7, <1>8, <1>9, <1>10, <1>11 DEF Jobs

\* Rejecting, calling, ending and replying concern the job in the worker's hands.
LEMMA ServeStep ==
  ASSUME WorkerInv, NEW w \in Workers, Reject(w) \/ Begin(w) \/ StripeEnds(w) \/ Reply(w)
  PROVE  WorkerInv'
<1> USE DEF WorkerInv
<1> DEFINE c == job[w]
<1>1. wpc[w] \in {"check", "call", "reply"} /\ c \in Calls /\ c # NoJob /\ c \in Held
  BY WorkerAssumption DEF Reject, Begin, StripeEnds, Reply, TypeOK, Held
<1>2. Queued' = Queued /\ c \notin Queued /\ UNCHANGED <<queue, caller, late, answer>>
  BY <1>1 DEF Reject, Begin, StripeEnds, Reply, OneCopy, Queued
<1>3. \A v \in Workers : v # w => job[v] # c
  BY <1>1 DEF OneCopy
<1>4. Outstanding(c)
  BY <1>1
<1>h. Held \subseteq Calls /\ Queued \subseteq Calls
  BY Places
<1>5. CASE Begin(w) \/ StripeEnds(w)
  <2>1. PICK l \in {"call", "reply"}, s \in {"running", "over"} :
          /\ Work(w, l, c) /\ stripe' = [stripe EXCEPT ![c] = s] /\ UNCHANGED reply
          /\ (l = "call" /\ s = "running") \/ (l = "reply" /\ s = "over")
    BY <1>5 DEF Begin, StripeEnds
  <2>2. \A v \in Workers : wpc'[v] = (IF v = w THEN l ELSE wpc[v]) /\ job'[v] = job[v]
    BY <2>1 DEF Work, TypeOK
  <2>3. Held' = Held
    BY <2>2 DEF Held
  <2>4. TypeOK'
    BY <1>1, <1>2, <2>1 DEF Work, TypeOK
  <2>5. OneCopy'
    BY <1>2, <2>2, <2>3 DEF OneCopy
  <2>6. NoLostJob' /\ Jobs'
    BY <1>2, <2>1, <2>3 DEF NoLostJob, Jobs, Outstanding
  <2>7. Tracked'
    <3>1. \A d \in Calls : stripe'[d] = IF d = c THEN s ELSE stripe[d]
      BY <2>1 DEF TypeOK
    <3>2. \A d \in Queued' : stripe'[d] = "no"
      BY <1>2, <1>h, <3>1 DEF Tracked
    <3>3. ASSUME NEW v \in Workers
          PROVE  /\ wpc'[v] = "check" => stripe'[job'[v]] = "no"
                 /\ wpc'[v] = "call" => stripe'[job'[v]] = "running"
                 /\ wpc'[v] = "reply" => stripe'[job'[v]] = "over"
      <4>1. CASE v = w
        BY <1>1, <2>1, <2>2, <3>1, <4>1
      <4>2. CASE v # w
        <5>1. wpc[v] \in {"check", "call", "reply"} => job[v] \in Calls
          BY DEF TypeOK
        <5>2. QED
          BY <1>3, <2>2, <3>1, <4>2, <5>1 DEF Tracked
      <4>3. QED
        BY <4>1, <4>2
    <3>4. ASSUME NEW d \in Calls
          PROVE  /\ caller'[d] \in {"idle", "sending"} => stripe'[d] = "no" /\ reply'[d] = "empty"
                 /\ caller'[d] = "answered" <=> answer'[d] # "none"
                 /\ reply'[d] = "value" => stripe'[d] = "over"
      BY <1>2, <1>4, <2>1, <3>1 DEF Tracked, Outstanding
    <3>5. QED
      BY <3>2, <3>3, <3>4 DEF Tracked
  <2>8. QED
    BY <2>4, <2>5, <2>6, <2>7 DEF Jobs
<1>6. CASE Reject(w) \/ Reply(w)
  <2>1. PICK r \in {"expired", "value"} :
          /\ Work(w, "lock", NoJob) /\ reply' = [reply EXCEPT ![c] = r] /\ UNCHANGED stripe
          /\ r = "value" => stripe[c] = "over"
    BY <1>6 DEF Reject, Reply, Tracked
  <2>2. \A v \in Workers : wpc'[v] = (IF v = w THEN "lock" ELSE wpc[v])
                          /\ job'[v] = (IF v = w THEN NoJob ELSE job[v])
    BY <2>1 DEF Work, TypeOK
  <2>3. Held' = Held \ {c}
    BY <2>1, HeldStep
  <2>4. TypeOK'
    BY <1>1, <1>2, <2>1 DEF Work, TypeOK
  <2>5. OneCopy'
    BY <1>2, <2>2, <2>3 DEF OneCopy
  <2>6. \A d \in Calls : reply'[d] = IF d = c THEN r ELSE reply[d]
    BY <2>1 DEF TypeOK
  <2>7. NoLostJob'
    BY <1>2, <2>3, <2>6 DEF NoLostJob
  <2>8. Jobs'
    BY <1>2, <1>h, <2>3, <2>6 DEF Jobs, Outstanding
  <2>9. Tracked'
    BY <1>2, <1>4, <2>1, <2>2, <2>6 DEF Tracked, Outstanding
  <2>10. QED
    BY <2>4, <2>5, <2>7, <2>8, <2>9 DEF Jobs
<1>7. QED
  BY <1>5, <1>6

LEMMA PanicStep ==
  ASSUME WorkerInv, NEW w \in Workers, Panic(w)
  PROVE  WorkerInv'
<1> USE DEF WorkerInv
<1> DEFINE c == job[w]
           last == \A v \in Workers \ {w} : wpc[v] = "dead"
           gone == {c} \cup (IF last THEN Queued ELSE {})
<1>1. wpc[w] = "call" /\ c \in Calls /\ c # NoJob /\ c \in Held /\ c \notin Queued
  BY WorkerAssumption DEF Panic, TypeOK, Held, OneCopy
<1>2. /\ Work(w, "dead", NoJob) /\ UNCHANGED <<caller, late, answer>>
      /\ stripe' = [stripe EXCEPT ![c] = "over"]
      /\ reply' = [d \in Calls |-> IF d \in gone THEN "dropped" ELSE reply[d]]
      /\ queue' = IF last THEN <<>> ELSE queue
  BY DEF Panic
<1>3. \A v \in Workers : wpc'[v] = (IF v = w THEN "dead" ELSE wpc[v])
                        /\ job'[v] = (IF v = w THEN NoJob ELSE job[v])
  BY <1>2 DEF Work, TypeOK
<1>4. Held' = Held \ {c}
  BY <1>2, HeldStep
<1>5. Queued' = IF last THEN {} ELSE Queued
  BY <1>2 DEF Queued
<1>6. Held \subseteq Calls /\ Queued \subseteq Calls
  BY Places
<1>7. \A d \in Calls : /\ reply'[d] = (IF d \in gone THEN "dropped" ELSE reply[d])
                       /\ stripe'[d] = (IF d = c THEN "over" ELSE stripe[d])
  BY <1>2 DEF TypeOK
<1>8. \A d \in gone : Outstanding(d)
  BY <1>1
<1> HIDE DEF last
<1>9. TypeOK'
  <2>1. queue' \in Seq(Calls)
    BY <1>2 DEF TypeOK
  <2>2. reply' \in [Calls -> {"empty", "value", "expired", "dropped"}]
    BY <1>2, <1>7 DEF TypeOK
  <2>3. stripe' \in [Calls -> {"no", "running", "over"}]
    BY <1>2 DEF TypeOK
  <2>4. QED
    BY <1>2, <1>3, <2>1, <2>2, <2>3 DEF Work, TypeOK
<1>10. OneCopy'
  <2>1. Len(queue') <= Cap /\ \A i, j \in DOMAIN queue' : queue'[i] = queue'[j] => i = j
    BY <1>2, WorkerAssumption DEF OneCopy
  <2>2. \A u, v \in Workers : job'[u] = job'[v] /\ job'[u] # NoJob => u = v
    BY <1>3 DEF OneCopy
  <2>3. QED
    BY <1>4, <1>5, <2>1, <2>2 DEF OneCopy
<1>11. NoLostJob'
  BY <1>2, <1>4, <1>5, <1>7 DEF NoLostJob
<1>12. Jobs'
  <2>1. ASSUME NEW d \in Queued' \cup Held'
        PROVE  d \in Queued \cup Held /\ d \in Calls /\ d \notin gone
    BY <1>1, <1>4, <1>5, <1>6, <2>1 DEF OneCopy
  <2>2. QED
    BY <1>2, <1>7, <2>1 DEF Jobs, Outstanding
<1>13. Tracked'
  <2>1. \A d \in Queued' : stripe'[d] = "no"
    BY <1>1, <1>5, <1>6, <1>7 DEF Tracked
  <2>2. ASSUME NEW v \in Workers
        PROVE  /\ wpc'[v] = "check" => stripe'[job'[v]] = "no"
               /\ wpc'[v] = "call" => stripe'[job'[v]] = "running"
               /\ wpc'[v] = "reply" => stripe'[job'[v]] = "over"
    <3>1. CASE v = w
      BY <1>3, <3>1
    <3>2. CASE v # w
      <4>1. wpc[v] \in {"check", "call", "reply"} => job[v] \in Calls /\ job[v] # c
        BY <1>1, <3>2 DEF TypeOK, OneCopy
      <4>2. QED
        BY <1>3, <1>7, <3>2, <4>1 DEF Tracked
    <3>3. QED
      BY <3>1, <3>2
  <2>3. ASSUME NEW d \in Calls
        PROVE  /\ caller'[d] \in {"idle", "sending"} => stripe'[d] = "no" /\ reply'[d] = "empty"
               /\ caller'[d] = "answered" <=> answer'[d] # "none"
               /\ reply'[d] = "value" => stripe'[d] = "over"
    BY <1>2, <1>7, <1>8 DEF Tracked, Outstanding
  <2>4. QED
    BY <2>1, <2>2, <2>3 DEF Tracked
<1>14. QED
  BY <1>9, <1>10, <1>11, <1>12, <1>13 DEF Jobs

-----------------------------------------------------------------------------
LEMMA InvInit == Init => WorkerInv
<1> SUFFICES ASSUME Init PROVE WorkerInv
  OBVIOUS
<1>1. Queued = {} /\ Held = {}
  BY DEF Init, Queued, Held
<1>2. TypeOK
  BY DEF Init, TypeOK
<1>3. OneCopy
  BY <1>1, WorkerAssumption DEF Init, OneCopy
<1>4. NoLostJob /\ Tracked
  BY <1>1 DEF Init, NoLostJob, Tracked
<1>5. QED
  BY <1>1, <1>2, <1>3, <1>4 DEF WorkerInv

LEMMA InvStep == WorkerInv /\ [Next]_vars => WorkerInv'
<1> SUFFICES ASSUME WorkerInv, [Next]_vars PROVE WorkerInv'
  OBVIOUS
<1>1. ASSUME NEW c \in Calls, Call(c) \/ Expire(c)
      PROVE  WorkerInv'
  BY <1>1, CallerStep, SendStep DEF Call, Stamp, SendBusy, SendClosed, Receive, TimeOut, Expire
<1>2. ASSUME NEW w \in Workers, Serve(w) \/ StripeEnds(w) \/ Panic(w)
      PROVE  WorkerInv'
  BY <1>2, LockStep, TakeStep, ServeStep, PanicStep DEF Serve
<1>3. CASE UNCHANGED vars
  <2>1. Queued' = Queued /\ Held' = Held
    BY <1>3 DEF vars, Queued, Held
  <2>2. TypeOK' /\ OneCopy'
    BY <1>3, <2>1 DEF WorkerInv, vars, TypeOK, OneCopy
  <2>3. NoLostJob' /\ Tracked' /\ Jobs'
    BY <1>3, <2>1 DEF WorkerInv, vars, NoLostJob, Tracked, Jobs, Outstanding
  <2>4. QED
    BY <2>2, <2>3 DEF WorkerInv, Jobs
<1>4. QED
  BY <1>1, <1>2, <1>3 DEF Next

\* No job is lost, doubled or queued beyond the capacity, and what Stripe has seen
\* of a call follows from where its job is.
THEOREM WorkerInvariant == Spec => []WorkerInv
BY InvInit, InvStep, PTL DEF Spec

\* A caller only waits for a job that is queued or in the hands of a worker.
THEOREM NoJobLost == Spec => []NoLostJob
BY WorkerInvariant, PTL DEF WorkerInv

\* The queue keeps to its capacity and no call is made by two workers.
THEOREM NoJobDoubled == Spec => []OneCopy
BY WorkerInvariant, PTL DEF WorkerInv

LEMMA StepSimulation ==
  WorkerInv /\ [Next]_vars => [Abstract!Next]_<<answer, stripe>>
<1> SUFFICES ASSUME WorkerInv, Next PROVE Abstract!Next \/ UNCHANGED <<answer, stripe>>
  BY DEF vars
<1>1. ASSUME NEW c \in Calls, Call(c) \/ Expire(c)
      PROVE  Abstract!Next \/ UNCHANGED <<answer, stripe>>
  <2>1. CASE Stamp(c) \/ Send(c) \/ Expire(c)
    BY <2>1 DEF Stamp, Send, Expire
  <2>2. CASE SendBusy(c)
    <3>1. Abstract!Refuse(c)
      BY <2>2 DEF SendBusy, Answer, Abstract!Refuse, WorkerInv, Tracked
    <3>2. QED
      BY <3>1 DEF Abstract!Next
  <2>3. CASE SendClosed(c) \/ TimeOut(c) \/ (Receive(c) /\ reply[c] # "value")
    <3>1. \E why \in {"Timeout", "Transport"} : Abstract!GiveUp(c, why)
      BY <2>3 DEF SendClosed, TimeOut, Receive, Answer, Abstract!GiveUp, WorkerInv, Tracked
    <3>2. QED
      BY <3>1 DEF Abstract!Next
  <2>4. CASE Receive(c) /\ reply[c] = "value"
    <3>1. Abstract!Report(c)
      BY <2>4 DEF Receive, Answer, Abstract!Report, WorkerInv, Tracked
    <3>2. QED
      BY <3>1 DEF Abstract!Next
  <2>5. QED
    BY <1>1, <2>1, <2>2, <2>3, <2>4 DEF Call
<1>2. ASSUME NEW w \in Workers, Serve(w) \/ StripeEnds(w) \/ Panic(w)
      PROVE  Abstract!Next \/ UNCHANGED <<answer, stripe>>
  <2>1. CASE Lock(w) \/ Take(w) \/ Reject(w) \/ Reply(w)
    BY <2>1 DEF Lock, Take, Reject, Reply
  <2>2. CASE Begin(w)
    <3>1. job[w] \in Calls /\ Outstanding(job[w])
      BY <2>2, WorkerAssumption DEF Begin, WorkerInv, TypeOK, Held
    <3>2. stripe[job[w]] = "no" /\ answer[job[w]] = "none"
      BY <2>2, <3>1 DEF Begin, WorkerInv, Tracked, Outstanding
    <3>3. Abstract!Begin(job[w])
      BY <2>2, <3>2 DEF Begin, Abstract!Begin
    <3>4. QED
      BY <3>1, <3>3 DEF Abstract!Next
  <2>3. CASE StripeEnds(w) \/ Panic(w)
    <3>1. job[w] \in Calls /\ stripe[job[w]] = "running"
      BY <2>3 DEF StripeEnds, Panic, WorkerInv, TypeOK, Tracked
    <3>2. Abstract!End(job[w])
      BY <2>3, <3>1 DEF StripeEnds, Panic, Abstract!End
    <3>3. QED
      BY <3>1, <3>2 DEF Abstract!Next
  <2>4. QED
    BY <1>2, <2>1, <2>2, <2>3 DEF Serve
<1>3. QED
  BY <1>1, <1>2 DEF Next

\* The queue, its deadlines and its threads implement StripeCalls: a call runs at
\* most once, a refused call never, and none begins after its caller has given up.
THEOREM WorkerImplementsCalls == Spec => Implements
<1>1. Init => Abstract!Init
  BY DEF Init, Abstract!Init
<1>2. QED
  BY <1>1, WorkerInvariant, StepSimulation, PTL DEF Spec, Implements, Abstract!Spec
==============================================================================
