----------------------------- MODULE HttpServer -----------------------------
(***************************************************************************)
(* The threads of the HTTP server (backend/src/http.rs, serve): one        *)
(* accepts connections and hands them over a bounded queue, or sheds them; *)
(* workers serve one connection at a time, request after request; the main *)
(* thread (backend/src/main.rs) shuts the server down with a grace period. *)
(*                                                                         *)
(* Sleeping on the receiver behind its mutex, and on a condition variable  *)
(* with its predicate, is waiting for what is waited for.  Parsing is an   *)
(* outcome: a request, or the end of the connection (closed by the peer,   *)
(* malformed, over a time budget, a panic of the parser).                  *)
(***************************************************************************)
EXTENDS Naturals, Sequences, FiniteSets

CONSTANTS
  Clients,      \* the connections clients open
  Workers,      \* the worker threads
  MaxQueued,    \* max_queued_connections
  NoConn,       \* no connection
  Wake          \* the connection trigger opens to itself

ASSUME ServerAssumption ==
  /\ MaxQueued \in Nat \ {0}
  /\ NoConn \notin Clients /\ Wake \notin Clients /\ Wake # NoConn
  /\ IsFiniteSet(Workers) /\ Workers # {}

VARIABLES
  link,      \* where each connection is
  backlog,   \* the connections the kernel holds for accept
  acceptor,  \* where the accept thread is
  taken,     \* the connection it accepted last
  queue,     \* the connections handed over
  wpc,       \* where each worker is
  conn,      \* the connection it serves
  late,      \* requests begun on it since stop was set (a history)
  live,      \* the counter of workers that have not returned
  stop,      \* the stop flag
  main       \* where the main thread is

serverVars == <<link, backlog, acceptor, taken, queue, wpc, conn, late, live, stop, main>>
acceptVars == <<backlog, acceptor, taken>>
workVars   == <<wpc, conn, late, live>>

ServerInit ==
  /\ link = [c \in Clients |-> "new"]
  /\ backlog = {}
  /\ acceptor = "accept" /\ taken = NoConn
  /\ queue = <<>>
  /\ wpc = [w \in Workers |-> "recv"]
  /\ conn = [w \in Workers |-> NoConn]
  /\ late = [w \in Workers |-> 0]
  /\ live = Cardinality(Workers)
  /\ stop = FALSE
  /\ main = "serving"

-----------------------------------------------------------------------------
(* A client connects while the listener is open.                           *)

Connect(c) ==
  /\ link[c] = "new" /\ acceptor # "ended"
  /\ link' = [link EXCEPT ![c] = "waiting"]
  /\ backlog' = backlog \cup {c}
  /\ UNCHANGED <<acceptor, taken, queue, workVars, stop, main>>

-----------------------------------------------------------------------------
(* The accept thread.                                                      *)

Accept ==
  /\ acceptor = "accept"
  /\ \E c \in backlog : taken' = c /\ backlog' = backlog \ {c}
  /\ acceptor' = "check"
  /\ UNCHANGED <<link, queue, workVars, stop, main>>

\* accept returned an error (a reset during the handshake): the loop goes on.
AcceptError ==
  /\ acceptor = "send"
  /\ link' = [link EXCEPT ![taken] = "dropped"]
  /\ acceptor' = "accept" /\ taken' = NoConn
  /\ UNCHANGED <<backlog, queue, workVars, stop, main>>

\* The end of the thread closes the listener and drops the sender.
CheckStop ==
  /\ acceptor = "check"
  /\ IF stop
       THEN /\ acceptor' = "ended"
            /\ taken' = NoConn
            /\ backlog' = {}
            /\ link' = [c \in Clients |-> IF c \in backlog \cup {taken} THEN "dropped" ELSE link[c]]
       ELSE acceptor' = "send" /\ UNCHANGED <<link, backlog, taken>>
  /\ UNCHANGED <<queue, workVars, stop, main>>

\* try_send: a full queue sheds the connection.
Send ==
  /\ acceptor = "send"
  /\ IF Len(queue) < MaxQueued
       THEN queue' = Append(queue, taken) /\ link' = [link EXCEPT ![taken] = "queued"]
       ELSE link' = [link EXCEPT ![taken] = "dropped"] /\ UNCHANGED queue
  /\ acceptor' = "accept" /\ taken' = NoConn
  /\ UNCHANGED <<backlog, workVars, stop, main>>

-----------------------------------------------------------------------------
(* A worker.                                                               *)

Take(w) ==
  /\ wpc[w] = "recv" /\ queue # <<>>
  /\ queue' = Tail(queue)
  /\ conn' = [conn EXCEPT ![w] = Head(queue)]
  /\ link' = [link EXCEPT ![Head(queue)] = "served"]
  /\ wpc' = [wpc EXCEPT ![w] = "read"]
  /\ UNCHANGED <<acceptVars, late, live, stop, main>>

\* Mutant: the workers look at the stop flag instead of draining the queue.
EndAtStop(w) ==
  /\ wpc[w] = "recv" /\ stop
  /\ wpc' = [wpc EXCEPT ![w] = "ended"]
  /\ live' = live - 1
  /\ UNCHANGED <<link, acceptVars, queue, conn, late, stop, main>>

\* Mutant: a worker that ends is not counted out.
EndUncounted(w) ==
  /\ wpc[w] = "recv" /\ queue = <<>> /\ acceptor = "ended"
  /\ wpc' = [wpc EXCEPT ![w] = "ended"]
  /\ UNCHANGED <<link, acceptVars, queue, conn, late, live, stop, main>>

\* The sender is gone and the queue drained: LiveGuard counts the worker out.
End(w) ==
  /\ wpc[w] = "recv" /\ queue = <<>> /\ acceptor = "ended"
  /\ wpc' = [wpc EXCEPT ![w] = "ended"]
  /\ live' = live - 1
  /\ UNCHANGED <<link, acceptVars, queue, conn, late, stop, main>>

\* read_request returns a request; the handler is called.
Request(w) ==
  /\ wpc[w] = "read"
  /\ wpc' = [wpc EXCEPT ![w] = "handle"]
  /\ late' = IF stop THEN [late EXCEPT ![w] = @ + 1] ELSE late
  /\ UNCHANGED <<link, acceptVars, queue, conn, live, stop, main>>

Hang(w) ==
  /\ wpc' = [wpc EXCEPT ![w] = "recv"]
  /\ conn' = [conn EXCEPT ![w] = NoConn]
  /\ link' = [link EXCEPT ![conn[w]] = "over"]
  /\ late' = [late EXCEPT ![w] = 0]
  /\ UNCHANGED <<acceptVars, queue, live, stop, main>>

\* It returns an error or the end of the connection, at the latest when a budget
\* is over; a panic in it is caught.
HangUp(w) == wpc[w] = "read" /\ Hang(w)

\* The handler returned, or panicked and is answered with 500.  The connection is
\* kept when the client wants it, the answer could be written, and nobody stopped.
Respond(w) ==
  /\ wpc[w] = "handle"
  /\ \/ Hang(w)
     \/ /\ ~stop
        /\ wpc' = [wpc EXCEPT ![w] = "read"]
        /\ UNCHANGED <<link, acceptVars, queue, conn, late, live, stop, main>>

-----------------------------------------------------------------------------
(* The main thread.                                                        *)

MainVars == UNCHANGED <<link, acceptor, taken, queue, workVars>>

\* A signal arrived, the polling loop sees it: trigger sets the flag.
Trigger ==
  /\ main = "serving"
  /\ stop' = TRUE
  /\ main' = "wake"
  /\ UNCHANGED backlog /\ MainVars

\* The connection to itself fails only while others wait in a full backlog, or when
\* nobody listens any more.
WakeAcceptor ==
  /\ main = "wake"
  /\ \/ acceptor # "ended" /\ backlog' = backlog \cup {Wake}
     \/ (backlog # {} \/ acceptor = "ended") /\ UNCHANGED backlog
  /\ main' = "wait"
  /\ UNCHANGED stop /\ MainVars

\* shutdown returns when the last worker has, or when the grace period is over.
Drained ==
  /\ main = "wait" /\ live = 0
  /\ main' = "drained"
  /\ UNCHANGED <<backlog, stop>> /\ MainVars

GraceOver ==
  /\ main = "wait" /\ live > 0
  /\ main' = "abandoned"
  /\ UNCHANGED <<backlog, stop>> /\ MainVars

-----------------------------------------------------------------------------
AcceptLoop == Accept \/ CheckStop \/ AcceptError \/ Send

Read(w) == Request(w) \/ HangUp(w)

Shutdown == WakeAcceptor \/ Drained \/ GraceOver

ServerNext ==
  \/ \E c \in Clients : Connect(c)
  \/ AcceptLoop
  \/ \E w \in Workers : Take(w) \/ End(w) \/ Read(w) \/ Respond(w)
  \/ Trigger \/ Shutdown

ServerSpec == ServerInit /\ [][ServerNext]_serverVars

-----------------------------------------------------------------------------
\* Types.  The connection to itself is never handed over.
ServerTypes ==
  /\ link \in [Clients -> {"new", "waiting", "queued", "served", "over", "dropped"}]
  /\ backlog \subseteq Clients \cup {Wake}
  /\ acceptor \in {"accept", "check", "send", "ended"}
  /\ taken \in Clients \cup {Wake, NoConn}
  /\ taken = NoConn <=> acceptor \in {"accept", "ended"}
  /\ acceptor = "send" => taken # Wake
  /\ queue \in Seq(Clients) /\ Len(queue) <= MaxQueued
  /\ wpc \in [Workers -> {"recv", "read", "handle", "ended"}]
  /\ conn \in [Workers -> Clients \cup {NoConn}]
  /\ \A w \in Workers : conn[w] # NoConn <=> wpc[w] \in {"read", "handle"}
  /\ late \in [Workers -> Nat]
  /\ live \in Nat /\ stop \in BOOLEAN
  /\ main \in {"serving", "wake", "wait", "drained", "abandoned"}

\* "Stop accepting, let in-flight requests finish, then return" (shutdown): when it
\* returns before the grace period is over, all that was handed over has been served.
NoneCutOff ==
  main = "drained" => \A c \in Clients : link[c] \notin {"queued", "served"}

\* Once the server stops, a client gets at most one more request in: keep-alive
\* connections cannot hold it up one request after the other.
OneMoreRequest == \A w \in Workers : late[w] <= 1

\* Nothing else ends it: an error of one connection "must not kill the accept loop".
AcceptsUntilStop == acceptor = "ended" => stop
=============================================================================
