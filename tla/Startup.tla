------------------------------ MODULE Startup ------------------------------
(***************************************************************************)
(* Opening the database (Pool::open, ensure_schema and add_missing_columns *)
(* of backend/src/db.rs): a process creates the tables that are missing,   *)
(* adds the columns an older build did not know, creates the indexes, and  *)
(* serves.  Every statement commits by itself; the process may end between *)
(* any two, its supervisor starts it again, and in a deployment the new    *)
(* process opens the file while the old one is still at it.                *)
(***************************************************************************)
EXTENDS Naturals, Sequences, Functions

CONSTANTS
  Procs,        \* processes that open the file
  Tables,       \* SCHEMA, in order
  Columns,      \* of each table the columns that can be added, in order
  Indexed,      \* <<table, column>> pairs that INDEXES need
  MaxFailures   \* bound: processes that end, and statements that fail, by themselves

ASSUME StartupAssumption ==
  /\ Tables \in Seq(STRING) /\ Tables # <<>>
  /\ Columns \in [Range(Tables) -> Seq(STRING)]
  /\ \A t \in Range(Tables) : "no table" \notin Range(Columns[t])
  /\ MaxFailures \in Nat

VARIABLES
  has,       \* the columns of each table, or {"no table"}
  indexes,   \* have the indexes been created?
  step,      \* where each process is
  number,    \* which table it is at
  existing,  \* the columns it found there
  column,    \* which column it is at
  mishaps    \* counter behind the bound

startupVars == <<has, indexes, step, number, existing, column, mishaps>>

AllColumns(t) == Range(Columns[t])
Absent == {"no table"}

\* A file that is new, or from an older build.
StartupInit ==
  /\ has \in [DOMAIN Tables -> {Absent} \cup SUBSET UNION {AllColumns(t) : t \in Range(Tables)}]
  /\ \A n \in DOMAIN Tables : has[n] = Absent \/ has[n] \subseteq AllColumns(Tables[n])
  /\ indexes = FALSE
  /\ step = [p \in Procs |-> "down"]
  /\ number = [p \in Procs |-> 1]
  /\ existing = [p \in Procs |-> {}]
  /\ column = [p \in Procs |-> 1]
  /\ mishaps = 0

StepTo(p, l, n) ==
  /\ step' = [step EXCEPT ![p] = l]
  /\ number' = [number EXCEPT ![p] = n]
  /\ existing' = [existing EXCEPT ![p] = {}]
  /\ column' = [column EXCEPT ![p] = 1]

-----------------------------------------------------------------------------
Start(p) ==
  /\ step[p] = "down"
  /\ StepTo(p, "create", 1)
  /\ UNCHANGED <<has, indexes, mishaps>>

\* CREATE TABLE IF NOT EXISTS leaves an older table as it is.
CreateTable(p) ==
  /\ step[p] = "create"
  /\ LET n == number[p]
     IN  /\ has' = [has EXCEPT ![n] = IF @ = Absent THEN AllColumns(Tables[n]) ELSE @]
         /\ IF n < Len(Tables) THEN StepTo(p, "create", n + 1) ELSE StepTo(p, "look", 1)
  /\ UNCHANGED <<indexes, mishaps>>

\* PRAGMA table_info: the columns that are there now.
LookAtTable(p) ==
  /\ step[p] = "look"
  /\ existing' = [existing EXCEPT ![p] = has[number[p]]]
  /\ step' = [step EXCEPT ![p] = "alter"]
  /\ UNCHANGED <<has, indexes, number, column, mishaps>>

ColumnsOf(p) == Columns[Tables[number[p]]]

\* Mutant: every column is taken for present.
TakenForPresent(p, c) == FALSE

\* Mutant: every column is taken for missing.
TakenForMissing(p, c) == TRUE

\* The column was not among those it found.
FoundMissing(p, c) == c \notin existing[p]

\* ALTER TABLE ADD COLUMN for each that was missing; one that is there by now is an
\* error, and the process gives up.
AddColumn(p) ==
  /\ step[p] = "alter" /\ column[p] <= Len(ColumnsOf(p))
  /\ LET n == number[p]
         c == ColumnsOf(p)[column[p]]
     IN  IF FoundMissing(p, c) /\ c \in has[n]
         THEN StepTo(p, "down", 1) /\ UNCHANGED has
         ELSE /\ has' = IF FoundMissing(p, c) THEN [has EXCEPT ![n] = @ \cup {c}] ELSE has
              /\ column' = [column EXCEPT ![p] = @ + 1]
              /\ UNCHANGED <<step, number, existing>>
  /\ UNCHANGED <<indexes, mishaps>>

\* After a table the next one, and the indexes last.
AfterTable(p) == IF number[p] < Len(Tables) THEN "look" ELSE "index"

TableDone(p) ==
  /\ step[p] = "alter" /\ column[p] > Len(ColumnsOf(p))
  /\ StepTo(p, AfterTable(p), IF number[p] < Len(Tables) THEN number[p] + 1 ELSE number[p])
  /\ UNCHANGED <<has, indexes, mishaps>>

\* CREATE INDEX IF NOT EXISTS fails on a column that is not there.
CreateIndexes(p) ==
  /\ step[p] = "index"
  /\ IF \A i \in Indexed : \E n \in DOMAIN Tables : Tables[n] = i[1] /\ i[2] \in has[n]
       THEN indexes' = TRUE /\ StepTo(p, "connect", 1)
       ELSE UNCHANGED indexes /\ StepTo(p, "down", 1)
  /\ UNCHANGED <<has, mishaps>>

\* The other connections of the pool, which find the schema complete.
OpenPool(p) ==
  /\ step[p] = "connect"
  /\ StepTo(p, "serving", 1)
  /\ UNCHANGED <<has, indexes, mishaps>>

\* A statement fails, as when the file stays locked for longer than the busy timeout;
\* or the process ends: a serving one too.
GiveUp(p) ==
  /\ step[p] # "down" /\ mishaps < MaxFailures
  /\ mishaps' = mishaps + 1
  /\ StepTo(p, "down", 1)
  /\ UNCHANGED <<has, indexes>>

OpenStep(p) ==
  \/ Start(p) \/ CreateTable(p) \/ LookAtTable(p) \/ AddColumn(p) \/ TableDone(p)
  \/ CreateIndexes(p) \/ OpenPool(p)

StartupNext == \E p \in Procs : OpenStep(p) \/ GiveUp(p)

StartupSpec == StartupInit /\ [][StartupNext]_startupVars

-----------------------------------------------------------------------------
\* "every query referencing a newer column fails at runtime" (ensure_schema): a process
\* that serves has every column and index it will ask for, wherever an earlier or
\* another one stopped on the way.
ServesWholeSchema ==
  \A p \in Procs : step[p] = "serving" =>
    indexes /\ \A n \in DOMAIN Tables : has[n] = AllColumns(Tables[n])

\* No half-done migration, and no other process, keeps one that was started from
\* serving for good.
StartsAtLast == \A p \in Procs : step[p] = "create" ~> step[p] = "serving"
==============================================================================
