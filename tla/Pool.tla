-------------------------------- MODULE Pool --------------------------------
(***************************************************************************)
(* The pool of SQLite connections (backend/src/db.rs, Pool): a thread      *)
(* takes a connection, sleeping on a condition variable while there is     *)
(* none, runs statements or one BEGIN IMMEDIATE transaction on it, and the *)
(* guards give it back clean, also when the thread panics.  close_all      *)
(* closes the pool under the threads that use it.                          *)
(*                                                                         *)
(* Steps are the critical sections of the pool's mutex; a notification     *)
(* comes after the mutex is released and is a step of its own.             *)
(***************************************************************************)
EXTENDS Naturals, FiniteSets

CONSTANTS
  Users,    \* the threads that use the pool
  Dbs,      \* its connections
  NoDb      \* a thread without a connection

ASSUME PoolAssumption == IsFiniteSet(Users) /\ IsFiniteSet(Dbs) /\ NoDb \notin Dbs

VARIABLES
  idle,     \* the connections ready for checkout
  gone,     \* the connections that were closed
  begun,    \* the connections with an open transaction
  closer,   \* close_all: not called, about to wake everybody, or over
  dbpc,     \* where each thread is
  db,       \* the connection it holds
  denied    \* the threads whose last call found the pool closed (a history)

poolVars == <<idle, gone, begun, closer, dbpc, db, denied>>

PoolInit ==
  /\ idle = Dbs /\ gone = {} /\ begun = {}
  /\ closer = "open"
  /\ dbpc = [t \in Users |-> "out"]
  /\ db = [t \in Users |-> NoDb]
  /\ denied = {}

Closed == closer # "open"

Sleepers == {t \in Users : dbpc[t] = "asleep"}

Move(t, l) == dbpc' = [dbpc EXCEPT ![t] = l]

-----------------------------------------------------------------------------
CallPool(t) ==
  /\ dbpc[t] = "out"
  /\ Move(t, "checkout")
  /\ denied' = denied \ {t}
  /\ UNCHANGED <<idle, gone, begun, closer, db>>

\* Mutant: waiting threads do not look at the flag again.
CheckoutDeaf(t) ==
  /\ dbpc[t] = "checkout"
  /\ \/ \E d \in idle : /\ idle' = idle \ {d}
                        /\ db' = [db EXCEPT ![t] = d]
                        /\ Move(t, "using")
     \/ idle = {} /\ Move(t, "asleep") /\ UNCHANGED <<idle, db>>
  /\ UNCHANGED <<gone, begun, closer, denied>>

\* checkout: one turn of its loop.
Checkout(t) ==
  /\ dbpc[t] = "checkout"
  /\ \/ /\ Closed
        /\ Move(t, "out")
        /\ denied' = denied \cup {t}
        /\ UNCHANGED <<idle, db>>
     \/ /\ ~Closed
        /\ \E d \in idle : idle' = idle \ {d} /\ db' = [db EXCEPT ![t] = d]
        /\ Move(t, "using")
        /\ UNCHANGED denied
     \/ /\ ~Closed /\ idle = {}
        /\ Move(t, "asleep")
        /\ UNCHANGED <<idle, db, denied>>
  /\ UNCHANGED <<gone, begun, closer>>

\* A condition variable may wake a thread for no reason.
Spurious(t) ==
  /\ dbpc[t] = "asleep"
  /\ Move(t, "checkout")
  /\ UNCHANGED <<idle, gone, begun, closer, db, denied>>

\* with: statements outside a transaction, or a BEGIN that failed; the closure
\* returns, fails or panics.
Use(t) ==
  /\ dbpc[t] = "using"
  /\ Move(t, "return")
  /\ UNCHANGED <<idle, gone, begun, closer, db, denied>>

\* BEGIN IMMEDIATE waits for the write lock of the database.
Begin(t) ==
  /\ dbpc[t] = "using" /\ begun = {}
  /\ begun' = begun \cup {db[t]}
  /\ Move(t, "tx")
  /\ UNCHANGED <<idle, gone, closer, db, denied>>

\* COMMIT; or, when the closure failed or panicked or the COMMIT failed, the
\* ROLLBACK of TxGuard.
EndTx(t) ==
  /\ dbpc[t] = "tx"
  /\ begun' = begun \ {db[t]}
  /\ Move(t, "return")
  /\ UNCHANGED <<idle, gone, closer, db, denied>>

\* Mutant: a connection that comes back late is put in the closed pool.
GiveBackAlways(t) ==
  /\ dbpc[t] = "return"
  /\ db' = [db EXCEPT ![t] = NoDb]
  /\ idle' = idle \cup {db[t]}
  /\ Move(t, "notify")
  /\ UNCHANGED <<gone, begun, closer, denied>>

\* Mutant: the return of a connection wakes nobody.
GiveBackQuietly(t) ==
  /\ dbpc[t] = "return"
  /\ db' = [db EXCEPT ![t] = NoDb]
  /\ idle' = IF Closed THEN idle ELSE idle \cup {db[t]}
  /\ gone' = IF Closed THEN gone \cup {db[t]} ELSE gone
  /\ Move(t, "out")
  /\ UNCHANGED <<begun, closer, denied>>

\* The drop of Checkout: a closed pool takes nothing back.
GiveBack(t) ==
  /\ dbpc[t] = "return"
  /\ db' = [db EXCEPT ![t] = NoDb]
  /\ \/ Closed /\ gone' = gone \cup {db[t]} /\ Move(t, "out") /\ UNCHANGED idle
     \/ ~Closed /\ idle' = idle \cup {db[t]} /\ Move(t, "notify") /\ UNCHANGED gone
  /\ UNCHANGED <<begun, closer, denied>>

\* notify_one: one of the sleepers, if there is any.
Notify(t) ==
  /\ dbpc[t] = "notify"
  /\ \/ Sleepers = {} /\ Move(t, "out")
     \/ \E s \in Sleepers : dbpc' = [dbpc EXCEPT ![t] = "out", ![s] = "checkout"]
  /\ UNCHANGED <<idle, gone, begun, closer, db, denied>>

\* close_all, also from the drop of the pool.
CloseAll ==
  /\ closer = "open"
  /\ closer' = "notify"
  /\ gone' = gone \cup idle
  /\ idle' = {}
  /\ UNCHANGED <<begun, dbpc, db, denied>>

NotifyAll ==
  /\ closer = "notify"
  /\ closer' = "done"
  /\ dbpc' = [t \in Users |-> IF t \in Sleepers THEN "checkout" ELSE dbpc[t]]
  /\ UNCHANGED <<idle, gone, begun, db, denied>>

\* What a thread does on its own once it called the pool.
UsePool(t) == Checkout(t) \/ Use(t) \/ Begin(t) \/ EndTx(t) \/ GiveBack(t) \/ Notify(t)

PoolNext ==
  \/ \E t \in Users : CallPool(t) \/ UsePool(t) \/ Spurious(t)
  \/ CloseAll \/ NotifyAll

PoolSpec == PoolInit /\ [][PoolNext]_poolVars

-----------------------------------------------------------------------------
Held == {db[t] : t \in Users} \ {NoDb}

\* Types.  A thread has a connection exactly while it uses it.
PoolTypes ==
  /\ idle \subseteq Dbs /\ gone \subseteq Dbs /\ begun \subseteq Dbs
  /\ closer \in {"open", "notify", "done"}
  /\ dbpc \in [Users -> {"out", "checkout", "asleep", "using", "tx", "return", "notify"}]
  /\ db \in [Users -> Dbs \cup {NoDb}]
  /\ \A t \in Users : db[t] # NoDb <=> dbpc[t] \in {"using", "tx", "return"}
  /\ denied \subseteq Users

\* Every connection is in exactly one place: ready, closed, or with one thread.  None
\* leaks, none is shared, and a closed pool keeps none ready.
OnePlace ==
  /\ Held = Dbs \ (idle \cup gone)
  /\ idle \cap gone = {}
  /\ \A s, t \in Users : db[s] = db[t] /\ db[s] # NoDb => s = t
  /\ Closed => idle = {}

\* "A connection is never returned to the pool with a transaction still open"
\* (transaction): the open ones belong to threads inside one, whatever failed.
NoneLeftOpen == begun = {db[t] : t \in {t \in Users : dbpc[t] = "tx"}}

\* No wakeup is lost: while somebody sleeps, each ready connection has a thread that
\* will take it or wake a sleeper for it; and after close_all a sleeper will be woken.
NoLostWakeup ==
  Sleepers # {} =>
    /\ Cardinality(idle) <= Cardinality({t \in Users : dbpc[t] \in {"checkout", "notify"}})
    /\ Closed => closer = "notify"
=============================================================================
