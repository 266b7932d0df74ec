--------------------------- MODULE Backend_proofs ---------------------------
(***************************************************************************)
(* The safety of the pool, of the shutdown, and of both together, for any  *)
(* number of threads, connections and queue slots.                         *)
(*                                                                         *)
(* Backend runs the server and the pool side by side (Composed), so each   *)
(* keeps its own invariant (PoolInv, ServerInv); what needs both is that   *)
(* a worker is in the pool only while it handles a request (Together).     *)
(***************************************************************************)
EXTENDS Backend, FiniteSetTheorems, TLAPS

-----------------------------------------------------------------------------
(* The pool.                                                               *)

\* What is needed of the pool: the connections ready, closed and held by threads are
\* different ones, and exactly those of threads in a transaction have one open.
PoolInv ==
  /\ PoolTypes
  /\ idle \cap gone = {}
  /\ \A t \in Users : db[t] # NoDb => db[t] \notin idle \cup gone
  /\ \A d \in Dbs : d \in idle \cup gone \/ \E t \in Users : db[t] = d
  /\ \A s, t \in Users : db[s] = db[t] /\ db[s] # NoDb => s = t
  /\ Closed => idle = {}
  /\ NoneLeftOpen

LEMMA PoolInvInit == PoolInit => PoolInv
  BY PoolAssumption DEF PoolInit, PoolInv, PoolTypes, NoneLeftOpen, Closed

LEMMA PoolInvStep == PoolInv /\ [PoolNext]_poolVars => PoolInv'
<1> SUFFICES ASSUME PoolInv, [PoolNext]_poolVars PROVE PoolInv'
  OBVIOUS
<1> USE PoolAssumption DEF PoolInv, PoolTypes, NoneLeftOpen, Closed, Move
<1>1. ASSUME NEW t \in Users, CallPool(t) PROVE PoolInv'
  BY <1>1 DEF CallPool
<1>2. ASSUME NEW t \in Users, Checkout(t) PROVE PoolInv'
  BY <1>2 DEF Checkout
<1>3. ASSUME NEW t \in Users, Use(t) PROVE PoolInv'
  BY <1>3 DEF Use
<1>4. ASSUME NEW t \in Users, Begin(t) PROVE PoolInv'
  BY <1>4 DEF Begin
<1>5. ASSUME NEW t \in Users, EndTx(t) PROVE PoolInv'
  BY <1>5 DEF EndTx
<1>6. ASSUME NEW t \in Users, GiveBack(t) PROVE PoolInv'
  BY <1>6 DEF GiveBack
<1>7. ASSUME NEW t \in Users, Notify(t) PROVE PoolInv'
  BY <1>7 DEF Notify, Sleepers
<1>8. ASSUME NEW t \in Users, Spurious(t) PROVE PoolInv'
  BY <1>8 DEF Spurious
<1>9. CASE CloseAll
  BY <1>9 DEF CloseAll
<1>10. CASE NotifyAll
  BY <1>10 DEF NotifyAll, Sleepers
<1>11. CASE UNCHANGED poolVars
  BY <1>11 DEF poolVars
<1> QED
  BY <1>1, <1>2, <1>3, <1>4, <1>5, <1>6, <1>7, <1>8, <1>9, <1>10, <1>11 DEF PoolNext, UsePool

LEMMA PoolInvPlaces == PoolInv => OnePlace
  BY PoolAssumption DEF PoolInv, PoolTypes, OnePlace, Held

\* The threads that will look at the pool again, or wake one that sleeps.
Takers == {t \in Users : dbpc[t] \in {"checkout", "notify"}}

LEMMA PoolIsFinite ==
  /\ \A S \in SUBSET Users : IsFiniteSet(S) /\ Cardinality(S) \in Nat
  /\ \A S \in SUBSET Dbs : IsFiniteSet(S) /\ Cardinality(S) \in Nat
  BY PoolAssumption, FS_Subset, FS_CardinalityType DEF PoolAssumption

\* A connection that comes back brings a thread that notifies; one that is taken goes
\* to a thread that looked; and who wakes another hands its place to it.
LEMMA WakeupStep == PoolInv /\ NoLostWakeup /\ [PoolNext]_poolVars => NoLostWakeup'
<1> SUFFICES ASSUME PoolInv, NoLostWakeup, [PoolNext]_poolVars PROVE NoLostWakeup'
  OBVIOUS
<1> DEFINE Enough == Cardinality(idle) <= Cardinality(Takers)
<1>1. /\ PoolTypes /\ (Closed => idle = {}) /\ PoolInv'
      /\ Sleepers # {} => Enough /\ (Closed => closer = "notify")
  BY PoolInvStep DEF PoolInv, NoLostWakeup, Takers
<1>2. /\ IsFiniteSet(Takers) /\ IsFiniteSet(idle) /\ IsFiniteSet(Takers') /\ IsFiniteSet(idle')
      /\ Cardinality(Takers) \in Nat /\ Cardinality(idle) \in Nat
      /\ Cardinality(Takers') \in Nat /\ Cardinality(idle') \in Nat
  BY <1>1, PoolIsFinite DEF Takers, PoolInv, PoolTypes
<1>3. ASSUME Sleepers' # {} => Enough' /\ (Closed' => closer' = "notify") PROVE NoLostWakeup'
  BY <1>3 DEF NoLostWakeup, Takers
<1>4. ASSUME idle' = {} PROVE Enough'
  BY <1>2, <1>4, FS_EmptySet
<1>5. ASSUME idle' = idle, Takers \subseteq Takers', Enough PROVE Enough'
  BY <1>2, <1>5, FS_Subset
<1> HIDE DEF Enough
<1> USE DEF Move, Sleepers
<1>6. ASSUME NEW t \in Users, CallPool(t) \/ Spurious(t) PROVE NoLostWakeup'
  <2>1. Sleepers' \subseteq Sleepers /\ Takers \subseteq Takers' /\ UNCHANGED <<idle, closer>>
    BY <1>1, <1>6 DEF CallPool, Spurious, PoolTypes, Takers
  <2> QED
    BY <1>1, <1>3, <1>5, <2>1 DEF Closed
<1>7. ASSUME NEW t \in Users, Checkout(t) PROVE NoLostWakeup'
  <2>1. CASE Closed /\ UNCHANGED idle /\ dbpc' = [dbpc EXCEPT ![t] = "out"]
    <3>1. Sleepers' \subseteq Sleepers /\ idle' = {} /\ UNCHANGED closer
      BY <1>1, <1>7, <2>1 DEF Checkout, PoolTypes
    <3> QED
      BY <1>1, <1>3, <1>4, <3>1 DEF Closed
  <2>2. ASSUME ~Closed, NEW d \in idle, idle' = idle \ {d}, dbpc' = [dbpc EXCEPT ![t] = "using"]
        PROVE  NoLostWakeup'
    <3>1. Sleepers' = Sleepers /\ Takers' = Takers \ {t} /\ t \in Takers /\ UNCHANGED closer
      BY <1>1, <1>7, <2>2 DEF Checkout, PoolTypes, Takers
    <3>2. Cardinality(idle') = Cardinality(idle) - 1 /\ Cardinality(Takers') = Cardinality(Takers) - 1
      BY <1>2, <2>2, <3>1, FS_RemoveElement
    <3>3. Enough => Enough'
      BY <1>2, <3>2 DEF Enough
    <3> QED
      BY <1>1, <1>3, <2>2, <3>1, <3>3 DEF Closed
  <2>3. CASE ~Closed /\ idle = {} /\ UNCHANGED idle
    BY <1>3, <1>4, <1>7, <2>3 DEF Checkout, Closed
  <2> QED
    BY <1>7, <2>1, <2>2, <2>3 DEF Checkout
<1>8. ASSUME NEW t \in Users, Use(t) \/ Begin(t) \/ EndTx(t) PROVE NoLostWakeup'
  <2>1. Sleepers' = Sleepers /\ Takers' = Takers /\ UNCHANGED <<idle, closer>>
    BY <1>1, <1>8 DEF Use, Begin, EndTx, PoolTypes, Takers
  <2> QED
    BY <1>1, <1>3, <1>5, <2>1 DEF Closed
<1>9. ASSUME NEW t \in Users, GiveBack(t) PROVE NoLostWakeup'
  <2>1. CASE Closed /\ UNCHANGED idle
    <3>1. Sleepers' \subseteq Sleepers /\ idle' = {} /\ UNCHANGED closer
      BY <1>1, <1>9, <2>1 DEF GiveBack, PoolTypes
    <3> QED
      BY <1>1, <1>3, <1>4, <3>1 DEF Closed
  <2>2. CASE ~Closed /\ idle' = idle \cup {db[t]} /\ dbpc' = [dbpc EXCEPT ![t] = "notify"]
    <3>1. Sleepers' = Sleepers /\ Takers' = Takers \cup {t} /\ t \notin Takers /\ UNCHANGED closer
      BY <1>1, <1>9, <2>2 DEF GiveBack, PoolTypes, Takers
    <3>2. db[t] \notin idle
      BY <1>1, <1>9 DEF GiveBack, PoolInv, PoolTypes
    <3>3. Cardinality(idle') = Cardinality(idle) + 1 /\ Cardinality(Takers') = Cardinality(Takers) + 1
      BY <1>2, <2>2, <3>1, <3>2, FS_AddElement
    <3>4. Enough => Enough'
      BY <1>2, <3>3 DEF Enough
    <3> QED
      BY <1>1, <1>3, <2>2, <3>1, <3>4 DEF Closed
  <2> QED
    BY <1>9, <2>1, <2>2 DEF GiveBack
<1>10. ASSUME NEW t \in Users, Notify(t) PROVE NoLostWakeup'
  <2>1. CASE Sleepers = {} /\ dbpc' = [dbpc EXCEPT ![t] = "out"]
    <3>1. Sleepers' = {}
      BY <1>1, <2>1 DEF PoolTypes
    <3> QED
      BY <1>3, <3>1
  <2>2. ASSUME NEW s \in Sleepers, dbpc' = [dbpc EXCEPT ![t] = "out", ![s] = "checkout"]
        PROVE  NoLostWakeup'
    <3>1. s \in Users /\ s # t /\ t \in Takers /\ s \notin Takers
      BY <1>10, <2>2 DEF Notify, Takers
    <3>2. Sleepers' \subseteq Sleepers /\ Takers' = (Takers \ {t}) \cup {s} /\ UNCHANGED <<idle, closer>>
      BY <1>1, <1>10, <2>2, <3>1 DEF Notify, PoolTypes, Takers
    <3>3. IsFiniteSet(Takers \ {t}) /\ Cardinality(Takers \ {t}) = Cardinality(Takers) - 1
      BY <1>2, <3>1, FS_RemoveElement
    <3>4. Cardinality(Takers') = (Cardinality(Takers) - 1) + 1
      BY <3>1, <3>2, <3>3, FS_AddElement
    <3>5. Enough => Enough'
      BY <1>2, <3>2, <3>4 DEF Enough
    <3> QED
      BY <1>1, <1>3, <3>2, <3>5 DEF Closed
  <2> QED
    BY <1>10, <2>1, <2>2 DEF Notify
<1>11. CASE CloseAll
  BY <1>3, <1>4, <1>11 DEF CloseAll, Closed
<1>12. CASE NotifyAll
  <2>1. Sleepers' = {}
    BY <1>12 DEF NotifyAll
  <2> QED
    BY <1>3, <2>1
<1>13. CASE UNCHANGED poolVars
  BY <1>1, <1>3, <1>5, <1>13 DEF poolVars, Closed, Takers
<1> QED
  BY <1>6, <1>7, <1>8, <1>9, <1>10, <1>11, <1>12, <1>13 DEF PoolNext, UsePool

-----------------------------------------------------------------------------
(* The server.                                                             *)

Running == {w \in Workers : wpc[w] # "ended"}

\* The counter is exact, and a worker that ended leaves nothing behind: there is no
\* sender any more and the queue is empty, so this stays so.
Counted ==
  /\ live = Cardinality(Running)
  /\ \A w \in Workers : wpc[w] = "ended" => queue = <<>> /\ acceptor = "ended"
  /\ main = "drained" => live = 0

\* A connection handed over is where it should be.
Located ==
  /\ \A c \in Clients : link[c] = "queued" => \E i \in DOMAIN queue : queue[i] = c
  /\ \A c \in Clients : link[c] = "served" => \E w \in Workers : conn[w] = c

\* A request begun after the stop is being handled, and is the last one.
LastRequest ==
  \A w \in Workers : late[w] = 0 \/ (late[w] = 1 /\ stop /\ wpc[w] = "handle")

\* Handing over goes on until the accept thread has seen the flag.
Stopping ==
  /\ AcceptsUntilStop
  /\ main # "serving" => stop
  /\ (Wake \in backlog \/ taken = Wake) => stop

ServerInv == ServerTypes /\ Counted /\ Located /\ LastRequest /\ Stopping

LEMMA RunningIsFinite ==
  /\ IsFiniteSet(Running)
  /\ Cardinality(Running) \in Nat
  /\ Cardinality(Running) = 0 => Running = {}
  BY ServerAssumption, FS_Subset, FS_CardinalityType, FS_EmptySet DEF Running

LEMMA ServerInvInit == ServerInit => ServerInv
<1> SUFFICES ASSUME ServerInit PROVE ServerInv
  OBVIOUS
<1> USE ServerAssumption DEF ServerInit
<1>1. ServerTypes
  <2>1. live \in Nat
    BY FS_CardinalityType
  <2>2. queue \in Seq(Clients) /\ Len(queue) <= MaxQueued
    OBVIOUS
  <2> QED
    BY <2>1, <2>2 DEF ServerTypes
<1>2. Running = Workers
  BY DEF Running
<1>3. Counted
  BY <1>2 DEF Counted
<1> QED
  BY <1>1, <1>3 DEF ServerInv, Located, LastRequest, Stopping, AcceptsUntilStop

\* What a worker that ends does to the counter.
LEMMA EndCounts ==
  ASSUME ServerInv, NEW w \in Workers, End(w)
  PROVE  live' = Cardinality(Running') /\ live' \in Nat
<1>1. Running' = Running \ {w} /\ w \in Running
  BY DEF End, Running, ServerInv, ServerTypes
<1>2. Cardinality(Running') = Cardinality(Running) - 1
  BY <1>1, RunningIsFinite, FS_RemoveElement
<1>3. IsFiniteSet(Running')
  BY <1>1, RunningIsFinite, FS_RemoveElement
<1>4. Cardinality(Running') \in Nat
  BY <1>3, FS_CardinalityType
<1> QED
  BY <1>2, <1>4 DEF End, ServerInv, Counted

\* The queue keeps what it holds when one more is put on it, and but for the first
\* when that is taken.
LEMMA QueueAppend ==
  ASSUME NEW q \in Seq(Clients), NEW c \in Clients
  PROVE  /\ Append(q, c) \in Seq(Clients) /\ Len(Append(q, c)) = Len(q) + 1
         /\ \A d : (\E i \in DOMAIN q : q[i] = d) => \E i \in DOMAIN Append(q, c) : Append(q, c)[i] = d
         /\ \E i \in DOMAIN Append(q, c) : Append(q, c)[i] = c
<1>1. /\ Append(q, c) \in Seq(Clients) /\ Len(Append(q, c)) = Len(q) + 1 /\ Len(q) \in Nat
      /\ DOMAIN q = 1 .. Len(q) /\ DOMAIN Append(q, c) = 1 .. Len(q) + 1
      /\ \A i \in 1 .. Len(q) : Append(q, c)[i] = q[i]
      /\ Append(q, c)[Len(q) + 1] = c
  OBVIOUS
<1> QED
  BY <1>1

LEMMA QueueTail ==
  ASSUME NEW q \in Seq(Clients), q # <<>>
  PROVE  /\ Tail(q) \in Seq(Clients) /\ Len(Tail(q)) = Len(q) - 1 /\ Head(q) \in Clients
         /\ \A d : (\E i \in DOMAIN q : q[i] = d) /\ d # Head(q)
                  => \E i \in DOMAIN Tail(q) : Tail(q)[i] = d
<1>1. /\ Tail(q) \in Seq(Clients) /\ Len(Tail(q)) = Len(q) - 1 /\ Len(q) \in Nat /\ Len(q) > 0
      /\ DOMAIN q = 1 .. Len(q) /\ DOMAIN Tail(q) = 1 .. Len(q) - 1
      /\ Head(q) = q[1] /\ Head(q) \in Clients
  OBVIOUS
<1>2. \A i \in 1 .. Len(q) - 1 : Tail(q)[i] = q[i + 1]
  BY <1>1
<1>3. \A i \in 1 .. Len(q) : i # 1 => (i - 1) \in 1 .. Len(q) - 1 /\ Tail(q)[i - 1] = q[i]
  BY <1>1, <1>2
<1> QED
  BY <1>1, <1>3

\* A step that ends no worker keeps the counter exact.
LEMMA StillCounted ==
  ASSUME ServerInv, live' = live, queue' = queue \/ acceptor # "ended", acceptor' = acceptor,
         \A w \in Workers : wpc'[w] = "ended" <=> wpc[w] = "ended",
         main' = main
  PROVE  Counted'
<1>1. Running' = Running
  BY DEF Running
<1>2. \A w \in Workers : wpc'[w] = "ended" => queue' = <<>> /\ acceptor' = "ended"
  BY DEF ServerInv, Counted
<1> QED
  BY <1>1, <1>2 DEF ServerInv, Counted

LEMMA ServerInvStep == ServerInv /\ [ServerNext]_serverVars => ServerInv'
<1> SUFFICES ASSUME ServerInv, [ServerNext]_serverVars PROVE ServerInv'
  OBVIOUS
<1> USE ServerAssumption DEF ServerInv, acceptVars, workVars
<1>1. ASSUME NEW c \in Clients, Connect(c) PROVE ServerInv'
  <2>1. Counted'
    BY <1>1, StillCounted DEF Connect
  <2>2. ServerTypes'
    BY <1>1 DEF Connect, ServerTypes
  <2>3. Located'
    BY <1>1 DEF Connect, Located, ServerTypes
  <2> QED
    BY <1>1, <2>1, <2>2, <2>3 DEF Connect, LastRequest, Stopping, AcceptsUntilStop
<1>2. CASE Accept
  <2>1. Counted'
    <3>1. Running' = Running
      BY <1>2 DEF Accept, Running
    <3> QED
      BY <1>2, <3>1 DEF Accept, Counted
  <2>2. ServerTypes'
    BY <1>2 DEF Accept, ServerTypes
  <2> QED
    BY <1>2, <2>1, <2>2 DEF Accept, Located, LastRequest, Stopping, AcceptsUntilStop
<1>3. CASE CheckStop
  <2>1. Counted'
    <3>1. Running' = Running
      BY <1>3 DEF CheckStop, Running
    <3> QED
      BY <1>3, <3>1 DEF CheckStop, Counted
  <2>2. ServerTypes'
    BY <1>3 DEF CheckStop, ServerTypes, Stopping
  <2>3. \A c \in Clients : link'[c] \in {"dropped", link[c]}
    BY <1>3 DEF CheckStop, ServerTypes
  <2>4. Located'
    BY <1>3, <2>3 DEF CheckStop, Located
  <2> QED
    BY <1>3, <2>1, <2>2, <2>4 DEF CheckStop, LastRequest, Stopping, AcceptsUntilStop
<1>4. CASE AcceptError
  <2>1. Counted'
    <3>1. Running' = Running
      BY <1>4 DEF AcceptError, Running
    <3> QED
      BY <1>4, <3>1 DEF AcceptError, Counted
  <2>2. ServerTypes'
    BY <1>4 DEF AcceptError, ServerTypes
  <2>3. Located'
    BY <1>4 DEF AcceptError, Located, ServerTypes
  <2> QED
    BY <1>4, <2>1, <2>2, <2>3 DEF AcceptError, LastRequest, Stopping, AcceptsUntilStop, ServerTypes
<1>5. CASE Send
  <2>0. taken \in Clients /\ queue \in Seq(Clients) /\ taken # Wake
    BY <1>5 DEF Send, ServerTypes
  <2>1. Counted'
    <3>1. Running' = Running
      BY <1>5 DEF Send, Running
    <3> QED
      BY <1>5, <3>1 DEF Send, Counted
  <2>2. ServerTypes'
    <3>1. CASE Len(queue) < MaxQueued
      <4>1. /\ Append(queue, taken) \in Seq(Clients)
            /\ Len(Append(queue, taken)) = Len(queue) + 1
            /\ Len(queue) \in Nat
        BY <2>0, QueueAppend
      <4>2. queue' \in Seq(Clients) /\ Len(queue') <= MaxQueued
        BY <1>5, <3>1, <4>1 DEF Send
      <4> QED
        BY <1>5, <3>1, <4>2 DEF Send, ServerTypes
    <3>2. CASE ~(Len(queue) < MaxQueued)
      BY <1>5, <3>2 DEF Send, ServerTypes
    <3> QED
      BY <3>1, <3>2
  <2>3. Located'
    <3>1. CASE Len(queue) < MaxQueued
      <4>1. queue' = Append(queue, taken) /\ link' = [link EXCEPT ![taken] = "queued"] /\ conn' = conn
        BY <1>5, <3>1 DEF Send
      <4>2. \A d : (\E i \in DOMAIN queue : queue[i] = d) => \E i \in DOMAIN queue' : queue'[i] = d
        BY <2>0, <4>1, QueueAppend
      <4>3. \E i \in DOMAIN queue' : queue'[i] = taken
        BY <2>0, <4>1, QueueAppend
      <4>4. \A c \in Clients : c # taken => link'[c] = link[c]
        BY <4>1 DEF ServerTypes
      <4>5. link'[taken] = "queued"
        BY <2>0, <4>1 DEF ServerTypes
      <4> QED
        BY <4>1, <4>2, <4>3, <4>4, <4>5 DEF Located
    <3>2. CASE ~(Len(queue) < MaxQueued)
      BY <1>5, <3>2 DEF Send, Located, ServerTypes
    <3> QED
      BY <3>1, <3>2
  <2> QED
    BY <1>5, <2>1, <2>2, <2>3 DEF Send, LastRequest, Stopping, AcceptsUntilStop
<1>6. ASSUME NEW w \in Workers, Take(w) PROVE ServerInv'
  <2>0. queue \in Seq(Clients) /\ queue # <<>> /\ conn[w] = NoConn
    BY <1>6 DEF Take, ServerTypes
  <2>a. /\ Head(queue) \in Clients /\ Tail(queue) \in Seq(Clients)
        /\ Len(Tail(queue)) = Len(queue) - 1 /\ Len(queue) \in Nat
    BY <2>0, QueueTail
  <2>1. Counted'
    <3>1. Running' = Running
      BY <1>6 DEF Take, Running, ServerTypes
    <3> QED
      BY <1>6, <3>1 DEF Take, Counted, ServerTypes
  <2>2. ServerTypes'
    <3>1. queue' \in Seq(Clients) /\ Len(queue') <= MaxQueued
      BY <1>6, <2>a DEF Take, ServerTypes
    <3> QED
      BY <1>6, <2>0, <2>a, <3>1 DEF Take, ServerTypes
  <2>3. Located'
    <3>1. \A d : (\E i \in DOMAIN queue : queue[i] = d) /\ d # Head(queue)
                  => \E i \in DOMAIN queue' : queue'[i] = d
      BY <1>6, <2>0, QueueTail DEF Take
    <3>2. \A c \in Clients : c # Head(queue) => link'[c] = link[c]
      BY <1>6 DEF Take, ServerTypes
    <3>3. link'[Head(queue)] = "served" /\ conn'[w] = Head(queue)
      BY <1>6, <2>a DEF Take, ServerTypes
    <3>4. \A v \in Workers : conn[v] # NoConn => conn'[v] = conn[v]
      BY <1>6, <2>0 DEF Take, ServerTypes
    <3> QED
      BY <3>1, <3>2, <3>3, <3>4 DEF Located
  <2> QED
    BY <1>6, <2>1, <2>2, <2>3 DEF Take, LastRequest, Stopping, AcceptsUntilStop, ServerTypes
<1>7. ASSUME NEW w \in Workers, End(w) PROVE ServerInv'
  <2>1. Counted'
    <3>1. live' = Cardinality(Running') /\ live' \in Nat /\ live' = live - 1 /\ live \in Nat
      BY <1>7, EndCounts DEF End, ServerTypes
    <3> QED
      BY <1>7, <3>1 DEF End, Counted, ServerTypes
  <2>2. ServerTypes'
    BY <1>7, EndCounts DEF End, ServerTypes
  <2> QED
    BY <1>7, <2>1, <2>2 DEF End, Located, LastRequest, Stopping, AcceptsUntilStop, ServerTypes
<1>8. ASSUME NEW w \in Workers, Request(w) PROVE ServerInv'
  <2>1. Counted'
    <3>1. Running' = Running
      BY <1>8 DEF Request, Running, ServerTypes
    <3> QED
      BY <1>8, <3>1 DEF Request, Counted, ServerTypes
  <2>2. ServerTypes'
    BY <1>8 DEF Request, ServerTypes
  <2> QED
    BY <1>8, <2>1, <2>2 DEF Request, Located, LastRequest, Stopping, AcceptsUntilStop, ServerTypes
<1>9. ASSUME NEW w \in Workers, wpc[w] \in {"read", "handle"}, Hang(w) PROVE ServerInv'
  <2>0. conn[w] \in Clients
    BY <1>9 DEF ServerTypes
  <2>1. Counted'
    <3>1. Running' = Running
      BY <1>9 DEF Hang, Running, ServerTypes
    <3> QED
      BY <1>9, <3>1 DEF Hang, Counted, ServerTypes
  <2>2. ServerTypes'
    BY <1>9, <2>0 DEF Hang, ServerTypes
  <2>3. Located'
    BY <1>9, <2>0 DEF Hang, Located, ServerTypes
  <2> QED
    BY <1>9, <2>1, <2>2, <2>3 DEF Hang, LastRequest, Stopping, AcceptsUntilStop, ServerTypes
<1>10. ASSUME NEW w \in Workers, Respond(w), ~Hang(w) PROVE ServerInv'
  <2>1. Counted'
    <3>1. Running' = Running
      BY <1>10 DEF Respond, Running, ServerTypes
    <3> QED
      BY <1>10, <3>1 DEF Respond, Counted, ServerTypes
  <2>2. ServerTypes'
    BY <1>10 DEF Respond, ServerTypes
  <2> QED
    BY <1>10, <2>1, <2>2 DEF Respond, Located, LastRequest, Stopping, AcceptsUntilStop, ServerTypes
<1>11. CASE Trigger \/ WakeAcceptor \/ Drained \/ GraceOver
  <2>1. Counted'
    <3>1. Running' = Running /\ live' = live /\ queue' = queue /\ acceptor' = acceptor /\ wpc' = wpc
      BY <1>11 DEF Trigger, WakeAcceptor, Drained, GraceOver, MainVars, Running
    <3> QED
      BY <1>11, <3>1 DEF Trigger, WakeAcceptor, Drained, GraceOver, Counted
  <2>2. ServerTypes'
    BY <1>11 DEF Trigger, WakeAcceptor, Drained, GraceOver, MainVars, ServerTypes
  <2> QED
    BY <1>11, <2>1, <2>2 DEF Trigger, WakeAcceptor, Drained, GraceOver, MainVars,
                             Located, LastRequest, Stopping, AcceptsUntilStop
<1>12. CASE UNCHANGED serverVars
  <2>1. Running' = Running
    BY <1>12 DEF serverVars, Running
  <2> QED
    BY <1>12, <2>1 DEF serverVars, ServerTypes, Counted, Located, LastRequest, Stopping, AcceptsUntilStop
<1> QED
  BY <1>1, <1>2, <1>3, <1>4, <1>5, <1>6, <1>7, <1>8, <1>9, <1>10, <1>11, <1>12
  DEF ServerNext, AcceptLoop, Read, Shutdown, HangUp, Respond

-----------------------------------------------------------------------------
(* Both together.                                                          *)

\* Every step is one of the server, or none of its; and the same of the pool.
LEMMA StepsOfBoth == [Next]_vars => [ServerNext]_serverVars /\ [PoolNext]_poolVars
<1> SUFFICES ASSUME [Next]_vars PROVE [ServerNext]_serverVars /\ [PoolNext]_poolVars
  OBVIOUS
<1> USE BackendAssumption
<1>1. ASSUME NEW c \in Clients, Connect(c), UNCHANGED <<poolVars, called>>
      PROVE  ServerNext /\ UNCHANGED poolVars
  BY <1>1 DEF ServerNext
<1>2. ASSUME (Around \/ Trigger) /\ UNCHANGED <<poolVars, called>>
      PROVE  ServerNext /\ UNCHANGED poolVars
  BY <1>2 DEF ServerNext, Around
<1>3. ASSUME NEW w \in Workers, Server(w) \/ Ask(w)
      PROVE  ServerNext /\ UNCHANGED poolVars
  BY <1>3 DEF ServerNext, Server, Ask, Read
<1>4. ASSUME NEW t \in Users, Query(t) \/ InPool(t) \/ Woken(t)
      PROVE  PoolNext /\ UNCHANGED serverVars
  BY <1>4 DEF PoolNext, Query, InPool, Woken
<1>5. ASSUME ClosePool
      PROVE  PoolNext /\ UNCHANGED serverVars
  BY <1>5 DEF PoolNext, ClosePool
<1>6. CASE UNCHANGED vars
  BY <1>6 DEF vars
<1> QED
  BY <1>1, <1>2, <1>3, <1>4, <1>5, <1>6 DEF Next

\* Backend is the server next to the pool: neither gets a step that it does not have.
THEOREM Composed == Spec => ServerSpec /\ PoolSpec
<1>1. Init => ServerInit /\ PoolInit
  BY DEF Init
<1> QED
  BY <1>1, StepsOfBoth, PTL DEF Spec, ServerSpec, PoolSpec

\* A worker is in the pool only for a request, and the pool is closed only when main is
\* past the shutdown.
Together ==
  /\ \A w \in Workers : dbpc[w] # "out" => wpc[w] = "handle"
  /\ Closed => main \in {"drained", "abandoned"}
  /\ ServedToTheEnd

BackendInv == ServerInv /\ PoolInv /\ Together

\* When shutdown returned in time, no worker runs.
LEMMA DrainedMeansEnded ==
  ASSUME ServerInv, main = "drained" PROVE \A w \in Workers : wpc[w] = "ended"
  BY RunningIsFinite DEF ServerInv, Counted, Running

LEMMA TogetherStep == BackendInv /\ [Next]_vars => Together'
<1> SUFFICES ASSUME BackendInv, [Next]_vars PROVE Together'
  OBVIOUS
<1> USE BackendAssumption DEF BackendInv, Together, ServedToTheEnd, Closed
<1>0. /\ wpc \in [Workers -> {"recv", "read", "handle", "ended"}]
      /\ dbpc \in [Users -> {"out", "checkout", "asleep", "using", "tx", "return", "notify"}]
      /\ closer \in {"open", "notify", "done"}
  BY DEF ServerInv, ServerTypes, PoolInv, PoolTypes
<1>1. ASSUME NEW c \in Clients, Connect(c), UNCHANGED <<poolVars, called>> PROVE Together'
  BY <1>1 DEF Connect, workVars, poolVars
<1>2. ASSUME AcceptLoop, UNCHANGED <<poolVars, called>> PROVE Together'
  BY <1>2 DEF AcceptLoop, Accept, CheckStop, AcceptError, Send, workVars, poolVars
<1>3. ASSUME Shutdown \/ Trigger, UNCHANGED <<poolVars, called>> PROVE Together'
  BY <1>3 DEF Shutdown, Trigger, WakeAcceptor, Drained, GraceOver, MainVars, workVars, poolVars
<1>4. ASSUME NEW w \in Workers, Server(w) PROVE Together'
  <2>1. dbpc[w] = "out"
    BY <1>0, <1>4 DEF Server, Take, End, HangUp
  <2>2. /\ \A v \in Workers : v # w => wpc'[v] = wpc[v]
        /\ main' = main /\ UNCHANGED poolVars
    BY <1>0, <1>4 DEF Server, Take, End, HangUp, Respond, Hang
  <2> QED
    BY <1>0, <2>1, <2>2 DEF poolVars
<1>5. ASSUME NEW w \in Workers, Ask(w) PROVE Together'
  BY <1>0, <1>5 DEF Ask, Request, poolVars
<1>6. ASSUME NEW t \in Users, Query(t) PROVE Together'
  BY <1>0, <1>6 DEF Query, CallPool, Move, serverVars
<1>7. ASSUME NEW t \in Users, InPool(t) \/ Woken(t) PROVE Together'
  <2>1. UNCHANGED <<wpc, main, closer>>
    BY <1>7 DEF InPool, Woken, UsePool, Checkout, Use, Begin, EndTx, GiveBack, Notify, Spurious, serverVars
  <2>2. \A w \in Workers : dbpc'[w] # "out" => dbpc[w] # "out"
    BY <1>0, <1>7 DEF InPool, Woken, UsePool, Checkout, Use, Begin, EndTx, GiveBack, Notify, Spurious,
                   Move, Sleepers
  <2>3. denied' = denied \/ (denied' = denied \cup {t} /\ Closed /\ dbpc[t] # "out")
    BY <1>7 DEF InPool, Woken, UsePool, Checkout, Use, Begin, EndTx, GiveBack, Notify, Spurious
  <2>4. ASSUME t \in Workers, Closed, dbpc[t] # "out" PROVE main = "abandoned"
    BY <2>4, DrainedMeansEnded
  <2> QED
    BY <2>1, <2>2, <2>3, <2>4
<1>8. CASE ClosePool
  <2>1. UNCHANGED <<wpc, main, denied>>
    BY <1>8 DEF ClosePool, CloseAll, NotifyAll, serverVars
  <2>2. \A w \in Workers : dbpc'[w] # "out" => dbpc[w] # "out"
    BY <1>0, <1>8 DEF ClosePool, CloseAll, NotifyAll, Sleepers
  <2>3. main \in {"drained", "abandoned"}
    BY <1>8 DEF ClosePool, NotifyAll
  <2> QED
    BY <2>1, <2>2, <2>3
<1>9. CASE UNCHANGED vars
  BY <1>9 DEF vars, serverVars, poolVars
<1> QED
  BY <1>1, <1>2, <1>3, <1>4, <1>5, <1>6, <1>7, <1>8, <1>9 DEF Next, Around

\* The inductive invariant of the server, the pool, and what needs both.
THEOREM BackendInductive == Spec => []BackendInv
<1>1. Init => BackendInv
  BY PoolInvInit, ServerInvInit, BackendAssumption
  DEF Init, BackendInv, Together, ServedToTheEnd, Closed, PoolInit, ServerInit
<1>2. BackendInv /\ [Next]_vars => BackendInv'
  BY StepsOfBoth, PoolInvStep, ServerInvStep, TogetherStep DEF BackendInv
<1> QED
  BY <1>1, <1>2, PTL DEF Spec

\* Every database connection is ready, closed, or with one thread, and a connection
\* that nobody uses inside a transaction has none open (Checkout, TxGuard).
THEOREM PoolSafe == Spec => []OnePlace /\ []NoneLeftOpen
<1>1. BackendInv => OnePlace /\ NoneLeftOpen
  BY PoolInvPlaces DEF BackendInv, PoolInv
<1> QED
  BY <1>1, BackendInductive, PTL

\* No wakeup of the condition variable is lost, although a thread notifies only after it
\* has let go of the mutex (checkout, the drop of Checkout, close_all).
THEOREM WakesSomebody == Spec => []NoLostWakeup
<1>1. Init => NoLostWakeup
  BY DEF Init, PoolInit, NoLostWakeup, Sleepers
<1>2. BackendInv /\ NoLostWakeup /\ [Next]_vars => NoLostWakeup'
  BY StepsOfBoth, WakeupStep DEF BackendInv
<1> QED
  BY <1>1, <1>2, BackendInductive, PTL DEF Spec

\* A shutdown that returns in time has served all that was handed over (Server::shutdown).
THEOREM NoneIsCutOff == Spec => []NoneCutOff
<1>1. ServerInv => NoneCutOff
  <2> SUFFICES ASSUME ServerInv, main = "drained", NEW c \in Clients
               PROVE  link[c] \notin {"queued", "served"}
    BY DEF NoneCutOff
  <2> USE DEF ServerInv
  <2>1. \A w \in Workers : wpc[w] = "ended"
    BY DrainedMeansEnded
  <2>2. queue = <<>>
    BY <2>1, ServerAssumption DEF Counted
  <2>3. link[c] # "queued"
    BY <2>2 DEF Located
  <2>4. \A w \in Workers : conn[w] = NoConn
    BY <2>1 DEF ServerTypes
  <2>5. link[c] # "served"
    BY <2>4, ServerAssumption DEF Located
  <2> QED
    BY <2>3, <2>5
<1> QED
  BY <1>1, BackendInductive, PTL DEF BackendInv

\* After the stop a connection gets at most one more request (handle_connection).
THEOREM StopsKeepAlive == Spec => []OneMoreRequest
<1>1. ServerInv => OneMoreRequest
  BY DEF ServerInv, LastRequest, OneMoreRequest
<1> QED
  BY <1>1, BackendInductive, PTL DEF BackendInv

\* The pool is not closed under a request unless the grace period ended (main).
THEOREM ServesToTheEnd == Spec => []ServedToTheEnd
<1>1. BackendInv => ServedToTheEnd
  BY DEF BackendInv, Together
<1> QED
  BY <1>1, BackendInductive, PTL
=============================================================================
