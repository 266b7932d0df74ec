------------------------------ MODULE Requests ------------------------------
(***************************************************************************)
(* What the handlers of backend/src/routes.rs have in common: the worker   *)
(* threads of the HTTP server, each with one request at a time, and where  *)
(* each of them is in its handler.                                         *)
(***************************************************************************)
EXTENDS Integers, FiniteSets

CONSTANT Threads   \* the worker threads

VARIABLE pc        \* where the request of each is; "idle" without one

\* No request is being served.
Idle == pc = [t \in Threads |-> "idle"]

-----------------------------------------------------------------------------
(* Histories: of each event its age and which it was of that moment. *)

\* One event more, now.
OneMore(events) == events \cup {<<0, Cardinality({e \in events : e[1] = 0}) + 1>>}

\* The events a tick later, those past the window left out.
Aged(events, window) == {<<e[1] + 1, e[2]>> : e \in {f \in events : f[1] + 1 < window}}
==============================================================================
