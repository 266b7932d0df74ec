------------------------------ MODULE Backend ------------------------------
(***************************************************************************)
(* The HTTP server on top of the connection pool: a handler uses the pool  *)
(* from its worker thread, a janitor (backend/src/main.rs, spawn_cleanup)  *)
(* from its own, and the main thread closes the pool once shutdown has     *)
(* returned, with or without the workers.                                  *)
(*                                                                         *)
(* A handler calls the pool at most once per request, which is enough for  *)
(* it to be anywhere in the pool when the server stops.                    *)
(***************************************************************************)
EXTENDS HttpServer, Pool

ASSUME BackendAssumption == Workers \subseteq Users

VARIABLE called    \* the threads that have used the pool for what they do

vars == <<serverVars, poolVars, called>>

Init == ServerInit /\ PoolInit /\ called = {}

\* What the server does apart from the handlers.
Server(w) ==
  /\ \/ Take(w) \/ End(w) \/ HangUp(w)
     \/ dbpc[w] = "out" /\ Respond(w)
  /\ UNCHANGED <<poolVars, called>>

Ask(w) ==
  /\ Request(w)
  /\ called' = called \ {w}
  /\ UNCHANGED poolVars

\* A handler, or a janitor whose period is over, calls the pool.
Query(t) ==
  /\ t \in Workers => wpc[t] = "handle"
  /\ t \notin called
  /\ called' = called \cup {t}
  /\ CallPool(t)
  /\ UNCHANGED serverVars

InPool(t) == UsePool(t) /\ UNCHANGED <<serverVars, called>>

Woken(t) == Spurious(t) /\ UNCHANGED <<serverVars, called>>

Around == AcceptLoop \/ Shutdown

\* Mutant: the pool is closed as soon as the signal is seen.
CloseEarly ==
  /\ \/ main # "serving" /\ CloseAll
     \/ NotifyAll
  /\ UNCHANGED <<serverVars, called>>

\* main: state.pool.close_all() after server.shutdown().
ClosePool ==
  /\ \/ main \in {"drained", "abandoned"} /\ CloseAll
     \/ NotifyAll
  /\ UNCHANGED <<serverVars, called>>

Next ==
  \/ \E c \in Clients : Connect(c) /\ UNCHANGED <<poolVars, called>>
  \/ (Around \/ Trigger) /\ UNCHANGED <<poolVars, called>>
  \/ \E w \in Workers : Server(w) \/ Ask(w)
  \/ \E t \in Users : Query(t) \/ InPool(t) \/ Woken(t)
  \/ ClosePool

Spec == Init /\ [][Next]_vars

\* The accept thread, the main thread and threads inside the pool run; idle workers
\* take what is handed over.  Nothing is assumed of clients and handlers.
FairSpec ==
  /\ Spec
  /\ WF_vars(AcceptLoop /\ UNCHANGED <<poolVars, called>>)
  /\ WF_vars(Shutdown /\ UNCHANGED <<poolVars, called>>)
  /\ \A w \in Workers : WF_vars((Take(w) \/ End(w)) /\ UNCHANGED <<poolVars, called>>)
  /\ \A t \in Users : WF_vars(InPool(t))
  /\ WF_vars(ClosePool)

\* Clients are cut off by the time budgets, and handlers end.
RequestsEnd ==
  \A w \in Workers :
    /\ WF_vars(Ask(w) \/ (HangUp(w) /\ UNCHANGED <<poolVars, called>>))
    /\ WF_vars(dbpc[w] = "out" /\ Respond(w) /\ UNCHANGED <<poolVars, called>>)

-----------------------------------------------------------------------------
TypeOK == ServerTypes /\ PoolTypes /\ called \subseteq Users

\* A request in flight is never told that the database pool is closed, unless it was
\* abandoned at the end of the grace period.
ServedToTheEnd == denied \cap Workers # {} => main = "abandoned"

\* "Waiting threads are woken so none block forever" (close_all): who sleeps in a
\* closed pool comes out.
NoneSleepForever == \A t \in Users : dbpc[t] = "asleep" /\ Closed ~> dbpc[t] = "out"

\* When requests end, a shutdown gets rid of all workers: those asleep in recv, those
\* with an idle connection, and those that wait for the database.
WorkersEnd == RequestsEnd => (stop ~> live = 0)
=============================================================================
