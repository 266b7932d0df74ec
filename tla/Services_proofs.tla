--------------------------- MODULE Services_proofs ---------------------------
(***************************************************************************)
(* What holds of a start of the server and of the services it calls, for   *)
(* any number of processes, tables, calls and jobs.                        *)
(***************************************************************************)
EXTENDS Startup, Settings, StripeClient, GuideAi, Chapters, RequestReader, FiniteSetTheorems,
        SequenceTheorems, WellFoundedInduction, TLAPS

-----------------------------------------------------------------------------
(***************************************************************************)
(* The secret that signs the sessions, over what the files hold.           *)
(***************************************************************************)

\* What comes from behind a symlink came through the template, and in production the
\* secret is the one of the environment.
SecretTrusted ==
  /\ prod \in BOOLEAN /\ shell \in {"none"} \cup Values
  /\ boot \in {"down", "env", "parse", "load", "serving"}
  /\ DOMAIN files = {".env", ".env.local", ".env.example"}
  /\ files[".env.local"] # "elsewhere" /\ files[".env.example"] # "elsewhere"
  /\ files[".env"] = "elsewhere" => files[".env.example"] = "symlink"
  /\ secret = "elsewhere" => files[".env.example"] = "symlink"
  /\ prod => boot \in {"down", "load", "serving"}
  /\ prod /\ boot \in {"load", "serving"} => secret = shell
  /\ prod /\ boot = "serving" => secret = "good"

LEMMA InitSettings == SettingsInit => SecretTrusted
  BY DEF SettingsInit, SecretTrusted, Contents, Values

LEMMA StepSettings == SecretTrusted /\ [SettingsNext]_settingsVars => SecretTrusted'
<1> SUFFICES ASSUME SecretTrusted, [SettingsNext]_settingsVars PROVE SecretTrusted'
  OBVIOUS
<1> USE DEF SecretTrusted, Booted
<1>1. CASE Exec
  BY <1>1 DEF Exec, Values
<1>2. CASE EnsureEnvFile
  <2>1. PICK made : /\ files' = [files EXCEPT ![".env"] = made]
                    /\ made = "elsewhere" => files[".env"] = "elsewhere" \/ files[".env.example"] \in {"symlink", "elsewhere"}
    BY <1>2 DEF EnsureEnvFile
  <2> QED
    BY <1>2, <2>1 DEF EnsureEnvFile
<1>3. CASE LoadLocalEnv
  BY <1>3 DEF LoadLocalEnv, ParseEnvFile
<1>4. CASE OpenIn
  BY <1>4 DEF OpenIn, SecretAccepted, Values
<1>5. CASE Ends
  BY <1>5 DEF Ends
<1>6. CASE UNCHANGED settingsVars
  BY <1>6 DEF settingsVars
<1> QED
  BY <1>1, <1>2, <1>3, <1>4, <1>5, <1>6 DEF SettingsNext

\* In production only the environment's own good secret signs sessions (open_in,
\* check_prod_jwt_secret), and no secret is read through a symlink (is_symlink): whatever
\* the files hold, and however often the process is started over what it left.
THEOREM SecretsTrusted == SettingsSpec => []ServesTrusted
<1>1. SecretTrusted => ServesTrusted
  BY DEF SecretTrusted, ServesTrusted
<1> QED
  BY <1>1, InitSettings, StepSettings, PTL DEF SettingsSpec

-----------------------------------------------------------------------------
(***************************************************************************)
(* The schema.  Tables and columns are only ever added, whoever adds them, *)
(* so what a process has seen to stays while others are at it.             *)
(***************************************************************************)

Complete(n) == has[n] = AllColumns(Tables[n])

\* The tables as far as the process has seen to them.  No column is ever lost.
Columned(p) ==
  /\ step[p] = "create" => \A n \in DOMAIN Tables : n < number[p] => has[n] # Absent
  /\ step[p] \notin {"down", "create"} => \A n \in DOMAIN Tables : has[n] # Absent
  /\ step[p] \in {"look", "alter"} => \A n \in DOMAIN Tables : n < number[p] => Complete(n)
  /\ step[p] # "alter" => column[p] = 1
  /\ step[p] = "alter" =>
       /\ existing[p] \subseteq has[number[p]]
       /\ \A i \in DOMAIN Columns[Tables[number[p]]] : i < column[p] => Columns[Tables[number[p]]][i] \in has[number[p]]
  /\ step[p] \in {"index", "connect", "serving"} => \A n \in DOMAIN Tables : Complete(n)
  /\ step[p] \in {"connect", "serving"} => indexes

StartupInv ==
  /\ DOMAIN has = DOMAIN Tables
  /\ \A n \in DOMAIN Tables : has[n] = Absent \/ has[n] \subseteq AllColumns(Tables[n])
  /\ indexes \in BOOLEAN
  /\ step \in [Procs -> {"down", "create", "look", "alter", "index", "connect", "serving"}]
  /\ number \in [Procs -> DOMAIN Tables]
  /\ column \in [Procs -> Nat \ {0}]
  /\ DOMAIN existing = Procs
  /\ \A p \in Procs : Columned(p)

\* A table has a name, and its columns are not what an absent table has.
LEMMA TableFacts ==
  /\ Len(Tables) \in Nat \ {0} /\ DOMAIN Tables = 1 .. Len(Tables)
  /\ \A n \in DOMAIN Tables :
       /\ AllColumns(Tables[n]) # Absent
       /\ Columns[Tables[n]] \in Seq(STRING)
       /\ AllColumns(Tables[n]) = {Columns[Tables[n]][i] : i \in DOMAIN Columns[Tables[n]]}
<1>1. Len(Tables) \in Nat \ {0} /\ DOMAIN Tables = 1 .. Len(Tables)
  BY StartupAssumption, EmptySeq, LenProperties DEF StartupAssumption
<1>2. ASSUME NEW n \in DOMAIN Tables PROVE Tables[n] \in Range(Tables)
  BY DEF Range
<1> QED
  <2> SUFFICES ASSUME NEW n \in DOMAIN Tables
               PROVE  /\ AllColumns(Tables[n]) # Absent
                      /\ Columns[Tables[n]] \in Seq(STRING)
                      /\ AllColumns(Tables[n]) = {Columns[Tables[n]][i] : i \in DOMAIN Columns[Tables[n]]}
    BY <1>1
  <2>1. Columns[Tables[n]] \in Seq(STRING) /\ "no table" \notin Range(Columns[Tables[n]])
    BY <1>2, StartupAssumption DEF StartupAssumption
  <2> QED
    BY <2>1 DEF AllColumns, Absent, Range

LEMMA InitStartup == StartupInit => StartupInv
<1> SUFFICES ASSUME StartupInit PROVE StartupInv
  OBVIOUS
<1>1. 1 \in DOMAIN Tables
  BY TableFacts
<1>2. /\ DOMAIN has = DOMAIN Tables
      /\ \A n \in DOMAIN Tables : has[n] = Absent \/ has[n] \subseteq AllColumns(Tables[n])
  BY DEF StartupInit
<1>3. /\ indexes = FALSE /\ step = [p \in Procs |-> "down"] /\ number = [p \in Procs |-> 1]
      /\ existing = [p \in Procs |-> {}] /\ column = [p \in Procs |-> 1]
  BY DEF StartupInit
<1>4. \A p \in Procs : Columned(p)
  BY DEF StartupInit, Columned
<1>5. /\ step \in [Procs -> {"down", "create", "look", "alter", "index", "connect", "serving"}]
      /\ DOMAIN existing = Procs
  BY <1>3
<1>6. number \in [Procs -> DOMAIN Tables]
  BY <1>1, <1>3
<1>7. column \in [Procs -> Nat \ {0}]
  BY <1>3
<1> QED
  BY <1>2, <1>3, <1>4, <1>5, <1>6, <1>7 DEF StartupInv

\* What every step does to the tables: none is dropped, and columns are only added.
Grown ==
  /\ DOMAIN has' = DOMAIN Tables
  /\ \A n \in DOMAIN Tables :
       /\ has'[n] = Absent \/ has'[n] \subseteq AllColumns(Tables[n])
       /\ has[n] # Absent => has'[n] # Absent /\ has[n] \subseteq has'[n]

\* So a process that takes no step loses nothing of what it has seen.
LEMMA OthersStay ==
  ASSUME StartupInv, Grown, indexes => indexes', NEW p \in Procs,
         step'[p] = step[p], number'[p] = number[p], column'[p] = column[p], existing'[p] = existing[p]
  PROVE  Columned(p)'
<1>1. \A n \in DOMAIN Tables : Complete(n) => Complete(n)'
  BY TableFacts DEF Grown, Complete, StartupInv
<1>2. Columned(p) /\ number[p] \in DOMAIN Tables
  BY DEF StartupInv
<1>3. step[p] = "alter" => has[number[p]] \subseteq has'[number[p]]
  BY <1>2 DEF Columned, Grown
<1> QED
  BY <1>1, <1>2, <1>3 DEF Columned, Grown

\* Where a step of p alone leaves every process.
LEMMA StepToEffect ==
  ASSUME StartupInv, NEW p \in Procs, NEW l, NEW n, StepTo(p, l, n)
  PROVE  /\ step'[p] = l /\ number'[p] = n /\ existing'[p] = {} /\ column'[p] = 1
         /\ \A q \in Procs : q # p =>
              /\ step'[q] = step[q] /\ number'[q] = number[q]
              /\ column'[q] = column[q] /\ existing'[q] = existing[q]
BY DEF StepTo, StartupInv

LEMMA StepToStays ==
  ASSUME StartupInv, Grown, indexes' \in BOOLEAN, indexes => indexes', NEW p \in Procs,
         NEW l \in {"down", "create", "look", "index", "connect", "serving"}, NEW n \in DOMAIN Tables,
         StepTo(p, l, n), Columned(p)'
  PROVE  StartupInv'
<1>1. \A q \in Procs : q # p => Columned(q)'
  BY StepToEffect, OthersStay
<1>2. /\ step' \in [Procs -> {"down", "create", "look", "alter", "index", "connect", "serving"}]
      /\ number' \in [Procs -> DOMAIN Tables]
      /\ column' \in [Procs -> Nat \ {0}]
      /\ DOMAIN existing' = Procs
  BY DEF StepTo, StartupInv
<1> QED
  BY <1>1, <1>2 DEF StartupInv, Grown

LEMMA SameTables == ASSUME StartupInv, UNCHANGED has PROVE Grown
BY DEF Grown, StartupInv

\* Giving up leaves what has been done so far.
LEMMA DownStays ==
  ASSUME StartupInv, NEW p \in Procs, StepTo(p, "down", 1), UNCHANGED <<has, indexes>>
  PROVE  StartupInv'
<1>1. Columned(p)'
  BY StepToEffect DEF Columned
<1>2. 1 \in DOMAIN Tables /\ indexes' \in BOOLEAN
  BY TableFacts DEF StartupInv
<1> QED
  BY <1>1, <1>2, SameTables, StepToStays

LEMMA CreateStays == ASSUME StartupInv, NEW p \in Procs, CreateTable(p) PROVE StartupInv'
<1>1. PICK n \in DOMAIN Tables : n = number[p]
  BY DEF StartupInv
<1>2. /\ step[p] = "create" /\ UNCHANGED indexes
      /\ has' = [has EXCEPT ![n] = IF has[n] = Absent THEN AllColumns(Tables[n]) ELSE has[n]]
      /\ IF n < Len(Tables) THEN StepTo(p, "create", n + 1) ELSE StepTo(p, "look", 1)
  BY <1>1 DEF CreateTable
<1>3. \A m \in DOMAIN Tables : m < n => has[m] # Absent
  BY <1>1, <1>2 DEF StartupInv, Columned
<1>4. Grown /\ has'[n] # Absent
  <2>1. DOMAIN has = DOMAIN Tables /\ \A m \in DOMAIN Tables : has[m] = Absent \/ has[m] \subseteq AllColumns(Tables[m])
    BY DEF StartupInv
  <2>2. AllColumns(Tables[n]) # Absent
    BY TableFacts
  <2> QED
    BY <1>2, <2>1, <2>2 DEF Grown
<1>5. \A m \in DOMAIN Tables : m < n => has'[m] # Absent
  BY <1>3, <1>4 DEF Grown
<1>6. n \in 1 .. Len(Tables) /\ DOMAIN Tables = 1 .. Len(Tables) /\ Len(Tables) \in Nat
  BY TableFacts
<1>7. indexes' \in BOOLEAN
  BY <1>2 DEF StartupInv
<1>8. CASE n < Len(Tables)
  <2>1. StepTo(p, "create", n + 1) /\ n + 1 \in DOMAIN Tables
    BY <1>2, <1>6, <1>8
  <2>2. step'[p] = "create" /\ number'[p] = n + 1 /\ column'[p] = 1
    BY <2>1, StepToEffect
  <2>3. \A m \in DOMAIN Tables : m < n + 1 => has'[m] # Absent
    BY <1>4, <1>5, <1>6
  <2>4. Columned(p)'
    BY <2>2, <2>3 DEF Columned
  <2> QED
    BY <1>2, <1>4, <1>7, <2>1, <2>4, StepToStays
<1>9. CASE ~(n < Len(Tables))
  <2>1. StepTo(p, "look", 1) /\ 1 \in DOMAIN Tables
    BY <1>2, <1>6, <1>9
  <2>2. step'[p] = "look" /\ number'[p] = 1 /\ column'[p] = 1
    BY <2>1, StepToEffect
  <2>3. \A m \in DOMAIN Tables : has'[m] # Absent /\ ~(m < 1)
    BY <1>4, <1>5, <1>6, <1>9
  <2>4. Columned(p)'
    BY <2>2, <2>3 DEF Columned
  <2> QED
    BY <1>2, <1>4, <1>7, <2>1, <2>4, StepToStays
<1> QED
  BY <1>8, <1>9

LEMMA LookStays == ASSUME StartupInv, NEW p \in Procs, LookAtTable(p) PROVE StartupInv'
<1>1. PICK n \in DOMAIN Tables : n = number[p]
  BY DEF StartupInv
<1>2. /\ step[p] = "look" /\ UNCHANGED <<has, indexes, number, column>>
      /\ step' = [step EXCEPT ![p] = "alter"] /\ existing' = [existing EXCEPT ![p] = has[n]]
  BY <1>1 DEF LookAtTable
<1>3. Grown
  BY <1>2, SameTables
<1>4. Columned(p)'
  <2>1. /\ column[p] = 1 /\ \A m \in DOMAIN Tables : has[m] # Absent
        /\ \A m \in DOMAIN Tables : m < n => has[m] = AllColumns(Tables[m])
    BY <1>1, <1>2 DEF StartupInv, Columned, Complete
  <2>2. step'[p] = "alter" /\ existing'[p] = has'[n] /\ number'[p] = n /\ column'[p] = 1
    BY <1>1, <1>2, <2>1 DEF StartupInv
  <2>3. \A i \in DOMAIN Columns[Tables[n]] : ~(i < 1)
    BY TableFacts, LenProperties
  <2> QED
    BY <1>2, <2>1, <2>2, <2>3 DEF Columned, Complete
<1>5. \A q \in Procs : q # p => Columned(q)'
  BY <1>2, <1>3, OthersStay DEF StartupInv
<1>6. step' \in [Procs -> {"down", "create", "look", "alter", "index", "connect", "serving"}] /\ DOMAIN existing' = Procs
  BY <1>2 DEF StartupInv
<1> QED
  BY <1>2, <1>4, <1>5, <1>6 DEF StartupInv

LEMMA AddStays == ASSUME StartupInv, NEW p \in Procs, AddColumn(p) PROVE StartupInv'
<1>1. PICK n \in DOMAIN Tables : n = number[p]
  BY DEF StartupInv
<1>2. PICK k \in DOMAIN Columns[Tables[n]] : k = column[p]
  BY <1>1, TableFacts, LenProperties DEF AddColumn, ColumnsOf, StartupInv
<1>3. PICK c \in AllColumns(Tables[n]) : c = Columns[Tables[n]][k]
  BY TableFacts
<1>4. /\ step[p] = "alter" /\ UNCHANGED indexes
      /\ IF c \notin existing[p] /\ c \in has[n]
           THEN StepTo(p, "down", 1) /\ UNCHANGED has
           ELSE /\ has' = IF c \notin existing[p] THEN [has EXCEPT ![n] = has[n] \cup {c}] ELSE has
                /\ column' = [column EXCEPT ![p] = k + 1]
                /\ UNCHANGED <<step, number, existing>>
  BY <1>1, <1>2, <1>3 DEF AddColumn, FoundMissing, ColumnsOf
<1>5. CASE c \notin existing[p] /\ c \in has[n]
  BY <1>4, <1>5, DownStays
<1>6. CASE ~(c \notin existing[p] /\ c \in has[n])
  <2>1. /\ has' = IF c \notin existing[p] THEN [has EXCEPT ![n] = has[n] \cup {c}] ELSE has
        /\ column' = [column EXCEPT ![p] = k + 1]
        /\ UNCHANGED <<step, number, existing>>
    BY <1>4, <1>6
  <2>2. /\ existing[p] \subseteq has[n] /\ \A m \in DOMAIN Tables : has[m] # Absent
        /\ \A i \in DOMAIN Columns[Tables[n]] : i < k => Columns[Tables[n]][i] \in has[n]
        /\ \A m \in DOMAIN Tables : m < n => has[m] = AllColumns(Tables[m])
    BY <1>1, <1>2, <1>4 DEF StartupInv, Columned, Complete
  <2>3. /\ DOMAIN has = DOMAIN Tables /\ column \in [Procs -> Nat \ {0}] /\ k \in Nat \ {0}
        /\ \A m \in DOMAIN Tables : has[m] \subseteq AllColumns(Tables[m])
    BY <1>2, <2>2 DEF StartupInv
  <2>4. /\ DOMAIN has' = DOMAIN Tables /\ c \in has'[n]
        /\ \A m \in DOMAIN Tables : has[m] \subseteq has'[m] /\ has'[m] \subseteq AllColumns(Tables[m])
    BY <1>3, <2>1, <2>2, <2>3
  <2>5. \A m \in DOMAIN Tables : has'[m] # Absent
    <3> SUFFICES ASSUME NEW m \in DOMAIN Tables PROVE has'[m] # Absent
      OBVIOUS
    <3>1. AllColumns(Tables[m]) \cap Absent = {}
      BY StartupAssumption DEF StartupAssumption, AllColumns, Absent, Range
    <3> QED
      BY <2>4, <3>1 DEF Absent
  <2>6. Grown
    BY <2>4, <2>5 DEF Grown
  <2>7. Columned(p)'
    <3>1. \A i \in DOMAIN Columns[Tables[n]] : i < k + 1 => Columns[Tables[n]][i] \in has'[n]
      <4>1. \A i \in DOMAIN Columns[Tables[n]] : i \in Nat
        BY TableFacts, LenProperties
      <4> QED
        BY <1>2, <1>3, <2>2, <2>3, <2>4, <4>1
    <3>2. step'[p] = "alter" /\ number'[p] = n /\ column'[p] = k + 1 /\ existing'[p] = existing[p]
      BY <1>1, <1>4, <2>1, <2>3
    <3>3. existing[p] \subseteq has'[n] /\ \A m \in DOMAIN Tables : m < n => has'[m] = AllColumns(Tables[m])
      BY <2>2, <2>4
    <3> QED
      BY <2>5, <3>1, <3>2, <3>3 DEF Columned, Complete
  <2>8. \A q \in Procs : q # p => Columned(q)'
    BY <1>4, <2>1, <2>3, <2>6, OthersStay
  <2>9. column' \in [Procs -> Nat \ {0}]
    BY <2>1, <2>3
  <2> QED
    BY <1>4, <2>1, <2>6, <2>7, <2>8, <2>9 DEF StartupInv, Grown
<1> QED
  BY <1>5, <1>6

LEMMA DoneStays == ASSUME StartupInv, NEW p \in Procs, TableDone(p) PROVE StartupInv'
<1>1. PICK n \in DOMAIN Tables : n = number[p]
  BY DEF StartupInv
<1>2. /\ step[p] = "alter" /\ column[p] > Len(Columns[Tables[n]]) /\ UNCHANGED <<has, indexes>>
      /\ StepTo(p, IF n < Len(Tables) THEN "look" ELSE "index", IF n < Len(Tables) THEN n + 1 ELSE n)
  BY <1>1 DEF TableDone, ColumnsOf, AfterTable
<1>3. /\ \A i \in DOMAIN Columns[Tables[n]] : i < column[p] => Columns[Tables[n]][i] \in has[n]
      /\ \A m \in DOMAIN Tables : m < n => has[m] = AllColumns(Tables[m])
      /\ \A m \in DOMAIN Tables : has[m] # Absent
      /\ has[n] = Absent \/ has[n] \subseteq AllColumns(Tables[n])
      /\ column[p] \in Nat
  BY <1>1, <1>2 DEF StartupInv, Columned, Complete
<1>4. has[n] = AllColumns(Tables[n])
  <2>1. \A i \in DOMAIN Columns[Tables[n]] : i < column[p]
    BY <1>2, <1>3, TableFacts, LenProperties
  <2>2. AllColumns(Tables[n]) \subseteq has[n]
    BY <1>3, <2>1, TableFacts
  <2> QED
    BY <1>3, <2>2
<1>5. n \in 1 .. Len(Tables) /\ DOMAIN Tables = 1 .. Len(Tables) /\ Len(Tables) \in Nat
  BY TableFacts
<1>6. Grown /\ indexes' \in BOOLEAN
  BY <1>2, SameTables DEF StartupInv
<1>7. CASE n < Len(Tables)
  <2>1. StepTo(p, "look", n + 1) /\ n + 1 \in DOMAIN Tables
    BY <1>2, <1>5, <1>7
  <2>2. step'[p] = "look" /\ number'[p] = n + 1 /\ column'[p] = 1
    BY <2>1, StepToEffect
  <2>3. \A m \in DOMAIN Tables : m < n + 1 => has'[m] = AllColumns(Tables[m])
    BY <1>2, <1>3, <1>4, <1>5
  <2>4. Columned(p)'
    BY <1>2, <1>3, <2>2, <2>3 DEF Columned, Complete
  <2> QED
    BY <1>2, <1>6, <2>1, <2>4, StepToStays
<1>8. CASE ~(n < Len(Tables))
  <2>1. StepTo(p, "index", n)
    BY <1>2, <1>8
  <2>2. step'[p] = "index" /\ number'[p] = n /\ column'[p] = 1
    BY <2>1, StepToEffect
  <2>3. \A m \in DOMAIN Tables : has'[m] = AllColumns(Tables[m])
    BY <1>2, <1>3, <1>4, <1>5, <1>8
  <2>4. Columned(p)'
    BY <1>2, <1>3, <2>2, <2>3 DEF Columned, Complete
  <2> QED
    BY <1>2, <1>6, <2>1, <2>4, StepToStays
<1> QED
  BY <1>7, <1>8

\* The indexes and the pool's connections come after the last table.
LEMMA LastStays == ASSUME StartupInv, NEW p \in Procs, CreateIndexes(p) \/ OpenPool(p) PROVE StartupInv'
<1>1. /\ \A m \in DOMAIN Tables : has[m] # Absent /\ has[m] = AllColumns(Tables[m])
      /\ step[p] = "connect" => indexes
  BY DEF CreateIndexes, OpenPool, StartupInv, Columned, Complete
<1>2. UNCHANGED has /\ 1 \in DOMAIN Tables
  BY TableFacts DEF CreateIndexes, OpenPool
<1>3. CASE UNCHANGED indexes /\ StepTo(p, "down", 1)
  BY <1>2, <1>3, DownStays
<1>4. ASSUME NEW l \in {"connect", "serving"}, indexes' = TRUE, StepTo(p, l, 1) PROVE StartupInv'
  <2>1. step'[p] = l /\ number'[p] = 1 /\ column'[p] = 1
    BY <1>4, StepToEffect
  <2>2. Columned(p)'
    BY <1>1, <1>2, <1>4, <2>1 DEF Columned, Complete
  <2> QED
    BY <1>2, <1>4, <2>2, SameTables, StepToStays
<1>5. CASE step[p] = "connect" /\ UNCHANGED indexes /\ StepTo(p, "serving", 1)
  BY <1>1, <1>4, <1>5 DEF StartupInv
<1> QED
  BY <1>3, <1>4, <1>5 DEF CreateIndexes, OpenPool

LEMMA StepStartup == StartupInv /\ [StartupNext]_startupVars => StartupInv'
<1> SUFFICES ASSUME StartupInv, [StartupNext]_startupVars PROVE StartupInv'
  OBVIOUS
<1>1. ASSUME NEW p \in Procs, Start(p) PROVE StartupInv'
  <2>1. StepTo(p, "create", 1) /\ UNCHANGED <<has, indexes>> /\ indexes' \in BOOLEAN
    BY <1>1 DEF Start, StartupInv
  <2>2. 1 \in DOMAIN Tables /\ \A m \in DOMAIN Tables : ~(m < 1)
    BY TableFacts
  <2>3. step'[p] = "create" /\ number'[p] = 1 /\ column'[p] = 1
    BY <2>1, StepToEffect
  <2>4. Columned(p)'
    BY <2>2, <2>3 DEF Columned
  <2> QED
    BY <2>1, <2>2, <2>4, SameTables, StepToStays
<1>2. ASSUME NEW p \in Procs, GiveUp(p) PROVE StartupInv'
  BY <1>2, DownStays DEF GiveUp
<1>3. CASE UNCHANGED startupVars
  BY <1>3 DEF startupVars, StartupInv, Columned, Complete
<1> QED
  BY <1>1, <1>2, <1>3, CreateStays, LookStays, AddStays, DoneStays, LastStays DEF StartupNext, OpenStep

\* A process that serves has every column and index it will ask for (ensure_schema), for
\* any number of processes that open the file and wherever one of them stopped before.
THEOREM SchemaIsWhole == StartupSpec => []ServesWholeSchema
<1>1. StartupInv => ServesWholeSchema
  BY DEF StartupInv, Columned, Complete, ServesWholeSchema
<1> QED
  BY <1>1, InitStartup, StepStartup, PTL DEF StartupSpec

-----------------------------------------------------------------------------
(***************************************************************************)
(* The calls to Stripe: one session of each, and a circuit that opens only *)
(* after a run of failures.                                                *)
(***************************************************************************)

\* Every session is of the one key of its call.
OneKey == sessions \subseteq {<<c, 0>> : c \in Calls}

\* The count of the circuit is of the last calls to end, and it is open at the limit only.
CountsLast ==
  /\ failures \in 0 .. FailureThreshold /\ openFor \in Nat
  /\ history \in Seq({"reached", "failed"})
  /\ failures <= Len(history)
  /\ \A i \in Len(history) - failures + 1 .. Len(history) : history[i] = "failed"
  /\ openFor > 0 => failures = FailureThreshold

LEMMA InitClient == ClientInit => OneKey /\ CountsLast
  BY ClientAssumption DEF ClientInit, OneKey, CountsLast, ClientAssumption

\* What every step does to the sessions.
LEMMA SessionsStep == OneKey /\ [ClientNext]_clientVars => OneKey'
<1> SUFFICES ASSUME OneKey, [ClientNext]_clientVars PROVE OneKey'
  OBVIOUS
<1>1. ASSUME NEW c \in Calls, NEW status, Transfer(c, status) PROVE OneKey'
  BY <1>1 DEF Transfer, Done, IdempotencyKey, OneKey
<1>2. ASSUME NEW c \in Calls, CallStep(c) PROVE OneKey'
  BY <1>1, <1>2 DEF CallStep, StartCall, Answered, TurnedAway, Lost, Wake, OneKey
<1>3. CASE ClientTick
  BY <1>3 DEF ClientTick, OneKey
<1>4. CASE UNCHANGED clientVars
  BY <1>4 DEF clientVars, OneKey
<1> QED
  BY <1>2, <1>3, <1>4 DEF ClientNext

\* What every step does to the circuit and to the calls that ended.
LEMMA CircuitStep == CountsLast /\ [ClientNext]_clientVars => CountsLast'
<1> SUFFICES ASSUME CountsLast, [ClientNext]_clientVars PROVE CountsLast'
  OBVIOUS
<1> USE ClientAssumption DEF ClientAssumption
<1>1. CASE UNCHANGED <<failures, openFor, history>>
  BY <1>1 DEF CountsLast
<1>2. CASE CircuitSuccess /\ history' = Append(history, "reached")
  BY <1>2 DEF CircuitSuccess, CountsLast
<1>3. CASE CircuitFailure /\ history' = Append(history, "failed")
  <2>1. /\ history' \in Seq({"reached", "failed"}) /\ Len(history') = Len(history) + 1
        /\ history'[Len(history) + 1] = "failed"
        /\ \A i \in 1 .. Len(history) : history'[i] = history[i]
    BY <1>3 DEF CountsLast
  <2>2. /\ failures' \in 0 .. FailureThreshold /\ failures' <= failures + 1
        /\ openFor' \in Nat /\ (openFor' > 0 => failures' = FailureThreshold)
    BY <1>3 DEF CircuitFailure, CountsLast
  <2>3. ASSUME NEW i \in Len(history') - failures' + 1 .. Len(history') PROVE history'[i] = "failed"
    BY <2>1, <2>2 DEF CountsLast
  <2> QED
    BY <2>1, <2>2, <2>3 DEF CountsLast
<1>4. ASSUME NEW c \in Calls, NEW limited, RetryOrFail(c, limited) PROVE CountsLast'
  BY <1>1, <1>3, <1>4 DEF RetryOrFail
<1>5. ASSUME NEW c \in Calls, CallStep(c) PROVE CountsLast'
  BY <1>1, <1>2, <1>4, <1>5 DEF CallStep, StartCall, Answered, TurnedAway, Lost, Wake
<1>6. CASE ClientTick
  BY <1>6 DEF ClientTick, IsOpen, CountsLast
<1> QED
  BY <1>1, <1>5, <1>6 DEF ClientNext, clientVars

\* However often an answer is lost after Stripe acted and the call is tried again, it
\* creates at most one session (StripeClient::post, send_with_retry).
THEOREM SessionsOnce == ClientSpec => []OneSession
<1>1. OneKey => OneSession
  <2> SUFFICES ASSUME OneKey, NEW c \in Calls PROVE Cardinality({k \in sessions : k[1] = c}) <= 1
    BY DEF OneSession
  <2>1. {k \in sessions : k[1] = c} \subseteq {<<c, 0>>}
    BY DEF OneKey
  <2>2. IsFiniteSet({<<c, 0>>}) /\ Cardinality({<<c, 0>>}) = 1
    BY FS_Singleton
  <2> QED
    BY <2>1, <2>2, FS_Subset
<1> QED
  BY <1>1, InitClient, SessionsStep, PTL DEF ClientSpec

\* The circuit is open only after a run of failed calls as long as the threshold, which
\* no success of another thread interrupted (record_success, record_failure).
THEOREM OpensAfterRun == ClientSpec => []OpenAfterRun
<1>1. CountsLast => OpenAfterRun
  BY DEF CountsLast, OpenAfterRun, IsOpen
<1> QED
  BY <1>1, InitClient, CircuitStep, PTL DEF ClientSpec

-----------------------------------------------------------------------------
(***************************************************************************)
(* The breaker of the calls to the model: those that were let in have a    *)
(* bounded number of attempts left.                                        *)
(***************************************************************************)

Calling == {"sending", "sleeping"}

\* The attempts that the calls let in so far may still make, each of which may fail.
AttemptsLeft ==
  {a \in Jobs \X (1 .. MaxAttempts) : stage[a[1]] \in Calling /\ attempt[a[1]] < a[2]}

\* The failures counted and those that may follow without another look at the counter.
StreakBounded ==
  /\ stage \in [Jobs -> {"idle", "asking", "sending", "sleeping", "decoding", "fetching"}]
  /\ attempt \in [Jobs -> 0 .. MaxAttempts - 1]
  /\ streak \in Nat
  /\ streak + Cardinality(AttemptsLeft) <= (BreakerLimit - 1) + Cardinality(Jobs) * MaxAttempts

LEMMA AttemptsFinite ==
  ASSUME NEW S \in SUBSET (Jobs \X (1 .. MaxAttempts))
  PROVE  /\ IsFiniteSet(S) /\ Cardinality(S) \in Nat
         /\ Cardinality(S) <= Cardinality(Jobs) * MaxAttempts
         /\ Cardinality(Jobs) * MaxAttempts \in Nat
<1> USE AiAssumption DEF AiAssumption
<1>1. IsFiniteSet(1 .. MaxAttempts) /\ Cardinality(1 .. MaxAttempts) = MaxAttempts
  BY FS_Interval
<1>2. /\ IsFiniteSet(Jobs \X (1 .. MaxAttempts))
      /\ Cardinality(Jobs \X (1 .. MaxAttempts)) = Cardinality(Jobs) * MaxAttempts
  BY <1>1, FS_Product
<1> QED
  BY <1>2, FS_Subset, FS_CardinalityType

LEMMA InitAi == AiInit => StreakBounded
<1> SUFFICES ASSUME AiInit PROVE StreakBounded
  OBVIOUS
<1> USE AiAssumption DEF AiAssumption
<1>1. AttemptsLeft = {}
  BY DEF AiInit, AttemptsLeft, Calling
<1>2. Cardinality(AttemptsLeft) = 0 /\ Cardinality(Jobs) * MaxAttempts \in Nat
  BY <1>1, FS_EmptySet, AttemptsFinite
<1> QED
  BY <1>2 DEF AiInit, StreakBounded

LEMMA StepAi == StreakBounded /\ [AiNext]_aiVars => StreakBounded'
<1> SUFFICES ASSUME StreakBounded, [AiNext]_aiVars PROVE StreakBounded'
  OBVIOUS
<1> USE AiAssumption DEF AiAssumption, StreakBounded
<1>1. /\ AttemptsLeft \subseteq Jobs \X (1 .. MaxAttempts)
      /\ AttemptsLeft' \subseteq Jobs \X (1 .. MaxAttempts)
  BY DEF AttemptsLeft
<1>2. /\ IsFiniteSet(AttemptsLeft) /\ Cardinality(AttemptsLeft) \in Nat
      /\ IsFiniteSet(AttemptsLeft') /\ Cardinality(AttemptsLeft') \in Nat
      /\ Cardinality(AttemptsLeft') <= Cardinality(Jobs) * MaxAttempts
      /\ Cardinality(Jobs) * MaxAttempts \in Nat
  BY <1>1, AttemptsFinite
\* A step that lets nobody in.
<1>3. ASSUME streak' = streak, AttemptsLeft' \subseteq AttemptsLeft
      PROVE  streak' + Cardinality(AttemptsLeft') <= (BreakerLimit - 1) + Cardinality(Jobs) * MaxAttempts
  BY <1>2, <1>3, FS_Subset
\* A failure uses up one of the attempts left.
<1>4. ASSUME NEW j \in Jobs, stage[j] = "sending", streak' = streak + 1,
             AttemptsLeft' \subseteq AttemptsLeft \ {<<j, attempt[j] + 1>>}
      PROVE  streak' + Cardinality(AttemptsLeft') <= (BreakerLimit - 1) + Cardinality(Jobs) * MaxAttempts
  <2>1. <<j, attempt[j] + 1>> \in AttemptsLeft
    <3>1. attempt[j] + 1 \in 1 .. MaxAttempts /\ attempt[j] < attempt[j] + 1
      OBVIOUS
    <3>2. <<j, attempt[j] + 1>> \in Jobs \X (1 .. MaxAttempts)
      BY <3>1
    <3> QED
      BY <1>4, <3>1, <3>2 DEF AttemptsLeft, Calling
  <2>2. \A a \in AttemptsLeft : /\ IsFiniteSet(AttemptsLeft \ {a})
                                /\ Cardinality(AttemptsLeft \ {a}) = Cardinality(AttemptsLeft) - 1
    BY <1>2, FS_RemoveElement
  <2>3. PICK a \in AttemptsLeft : AttemptsLeft' \subseteq AttemptsLeft \ {a}
    BY <1>4, <2>1
  <2>4. Cardinality(AttemptsLeft') <= Cardinality(AttemptsLeft \ {a})
    BY <2>2, <2>3, FS_Subset
  <2>5. Cardinality(AttemptsLeft') <= Cardinality(AttemptsLeft) - 1
    BY <1>2, <2>2, <2>3, <2>4
  <2> QED
    BY <1>2, <1>4, <2>5
\* A call that is over has no attempts left.
<1>5. ASSUME NEW j \in Jobs, AiReturn(j)
      PROVE  /\ (stage \in [Jobs -> {"idle", "asking", "sending", "sleeping", "decoding", "fetching"}])'
             /\ (attempt \in [Jobs -> 0 .. MaxAttempts - 1])'
             /\ AttemptsLeft' \subseteq {a \in AttemptsLeft : a[1] # j}
  BY <1>5 DEF AiReturn, AttemptsLeft, Calling
<1>6. ASSUME NEW j \in Jobs, Ask(j) PROVE StreakBounded'
  <2>1. AttemptsLeft' \subseteq AttemptsLeft
    BY <1>6 DEF Ask, AttemptsLeft, Calling
  <2> QED
    BY <1>3, <1>6, <2>1 DEF Ask
<1>7. ASSUME NEW j \in Jobs, Breaker(j) PROVE StreakBounded'
  <2>1. CASE Admits(streak)
    BY <1>2, <1>7, <2>1 DEF Breaker, Admits
  <2>2. CASE ~Admits(streak)
    BY <1>3, <1>5, <1>7, <2>2 DEF Breaker
  <2> QED
    BY <2>1, <2>2
<1>8. ASSUME NEW j \in Jobs, AiSuccess(j) PROVE StreakBounded'
  BY <1>2, <1>8 DEF AiSuccess
<1>9. ASSUME NEW j \in Jobs, AiRetry(j) PROVE StreakBounded'
  <2>1. CASE attempt[j] + 1 < MaxAttempts
    <3>1. /\ attempt' = [attempt EXCEPT ![j] = attempt[j] + 1]
          /\ stage' = [stage EXCEPT ![j] = "sleeping"] /\ stage[j] = "sending"
      BY <1>9, <2>1 DEF AiRetry
    <3>2. AttemptsLeft' \subseteq AttemptsLeft \ {<<j, attempt[j] + 1>>}
      BY <3>1 DEF AttemptsLeft, Calling
    <3> QED
      BY <1>4, <1>9, <2>1, <3>1, <3>2 DEF AiRetry
  <2>2. CASE ~(attempt[j] + 1 < MaxAttempts)
    <3>1. AiReturn(j) /\ stage[j] = "sending" /\ streak' = streak + 1
      BY <1>9, <2>2 DEF AiRetry
    <3>2. AttemptsLeft' \subseteq AttemptsLeft \ {<<j, attempt[j] + 1>>}
      BY <1>5, <3>1
    <3> QED
      BY <1>4, <1>5, <3>1, <3>2
  <2> QED
    BY <2>1, <2>2
<1>10. ASSUME NEW j \in Jobs, AiRefused(j) PROVE StreakBounded'
  <2>1. AiReturn(j) /\ stage[j] = "sending" /\ streak' = streak + 1
    BY <1>10 DEF AiRefused
  <2>2. AttemptsLeft' \subseteq AttemptsLeft \ {<<j, attempt[j] + 1>>}
    BY <1>5, <2>1
  <2> QED
    BY <1>4, <1>5, <2>1, <2>2
<1>11. ASSUME NEW j \in Jobs, AiWake(j) PROVE StreakBounded'
  <2>1. AttemptsLeft' \subseteq AttemptsLeft
    BY <1>11 DEF AiWake, AttemptsLeft, Calling
  <2> QED
    BY <1>3, <1>11, <2>1 DEF AiWake
<1>12. ASSUME NEW j \in Jobs, Decode(j) PROVE StreakBounded'
  <2>1. CASE AiReturn(j)
    BY <1>3, <1>5, <1>12, <2>1 DEF Decode
  <2>2. CASE stage' = [stage EXCEPT ![j] = "fetching"] /\ UNCHANGED <<wants, attempt>>
    <3>1. AttemptsLeft' \subseteq AttemptsLeft
      BY <2>2 DEF AttemptsLeft, Calling
    <3> QED
      BY <1>3, <1>12, <2>2, <3>1 DEF Decode
  <2> QED
    BY <1>12, <2>1, <2>2 DEF Decode
<1>13. ASSUME NEW j \in Jobs, Fetch(j) PROVE StreakBounded'
  BY <1>3, <1>5, <1>13 DEF Fetch
<1>14. CASE UNCHANGED aiVars
  <2>1. AttemptsLeft' = AttemptsLeft
    BY <1>14 DEF aiVars, AttemptsLeft
  <2> QED
    BY <1>14, <2>1 DEF aiVars
<1> QED
  BY <1>6, <1>7, <1>8, <1>9, <1>10, <1>11, <1>12, <1>13, <1>14 DEF AiNext, AiStep

\* Jobs that were let in before the breaker opened go on retrying without a look at it
\* (post_retry); together they fail no more often than the attempts they had left.
THEOREM StreakStaysBounded == AiSpec => []FailuresBounded
<1>1. StreakBounded => FailuresBounded
  <2> SUFFICES ASSUME StreakBounded PROVE FailuresBounded
    OBVIOUS
  <2>1. Cardinality(AttemptsLeft) \in Nat /\ Cardinality(Jobs) * MaxAttempts \in Nat
    BY AttemptsFinite DEF AttemptsLeft
  <2> QED
    BY <2>1, AiAssumption DEF AiAssumption, StreakBounded, FailuresBounded
<1> QED
  BY <1>1, InitAi, StepAi, PTL DEF AiSpec

-----------------------------------------------------------------------------
(***************************************************************************)
(* The chapters of a guide: the first place of a quote, and why it is      *)
(* never after the one the model had in mind.                              *)
(***************************************************************************)

\* The least of a set of natural numbers is one of them, and none is less.
LEMMA MinIsLeast ==
  ASSUME NEW S \in SUBSET Nat, S # {}
  PROVE  Min(S) \in S /\ \A y \in S : Min(S) <= y
<1> DEFINE Below == {ss \in Nat \X Nat : ss[1] < ss[2]}
<1>1. OpToRel(<, Nat) = Below
  BY DEF OpToRel
<1>2. IsWellFoundedOn(Below, Nat)
  BY <1>1, NatLessThanWellFounded
<1> HIDE DEF Below
<1>3. PICK x \in S : \A y \in S : ~ (<<y, x>> \in Below)
  BY <1>2, WFMin
<1>4. \A y \in S : x <= y
  <2> TAKE y \in S
  <2>1. x \in Nat /\ y \in Nat /\ ~ (<<y, x>> \in Below)
    BY <1>3
  <2> QED
    BY <2>1 DEF Below
<1> QED
  BY <1>3, <1>4 DEF Min

\* A narration and the quotes are sequences.
LEMMA BoundedSeqs ==
  ASSUME NEW S, NEW n \in Nat, NEW s \in BoundedSeq(S, n)
  PROVE  s \in Seq(S)
  BY DEF BoundedSeq, SeqOf

\* How many tokens are searched for.
LEMMA ProbedFew ==
  ASSUME NEW S, NEW q \in Seq(S)
  PROVE  /\ Probed(q) \in Nat /\ Probed(q) <= Len(q)
         /\ q # <<>> => Probed(q) >= 1
  BY ChaptersAssumption DEF Probed

\* The chapters found so far; for quotes in order, all of them up to here, and the
\* place of the next one is still ahead.
ChaptersInv ==
  /\ narration \in Seq(Words) /\ quotes \in Seq(Seq(QuoteTokens))
  /\ looked \in Nat /\ looked <= Len(quotes) + 1 /\ cursor \in Nat
  /\ found \in Seq([quote : Seq(QuoteTokens), place : Nat])
  /\ \A at \in [DOMAIN quotes -> 1 .. Len(narration)] : InOrder(at) =>
       /\ Len(found) = IF looked <= Len(quotes) THEN looked ELSE Len(quotes)
       /\ \A k \in DOMAIN found : found[k].quote = quotes[k] /\ found[k].place <= at[k]
       /\ looked < Len(quotes) => cursor < at[looked + 1]

LEMMA InitChapters == ChaptersInit => ChaptersInv
<1> SUFFICES ASSUME ChaptersInit PROVE ChaptersInv
  OBVIOUS
<1>1. narration \in Seq(Words)
  BY ChaptersAssumption, BoundedSeqs DEF ChaptersInit
<1>2. quotes \in Seq(Seq(QuoteTokens))
  <2>1. quotes \in Seq(BoundedSeq(QuoteTokens, MaxQuote))
    BY ChaptersAssumption, BoundedSeqs DEF ChaptersInit
  <2>2. BoundedSeq(QuoteTokens, MaxQuote) \subseteq Seq(QuoteTokens)
    BY ChaptersAssumption, BoundedSeqs
  <2> QED
    BY <2>1, <2>2
<1>3. looked = 0 /\ cursor = 0 /\ found = <<>> /\ Len(quotes) \in Nat
  BY <1>2 DEF ChaptersInit
<1>4. ASSUME NEW at \in [DOMAIN quotes -> 1 .. Len(narration)], 0 < Len(quotes)
      PROVE  0 < at[1]
  <2>1. 1 \in DOMAIN quotes /\ Len(narration) \in Nat
    BY <1>1, <1>2, <1>4
  <2>2. at[1] \in 1 .. Len(narration)
    BY <2>1, <1>4
  <2> QED
    BY <2>1, <2>2
<1> QED
  BY <1>1, <1>2, <1>3, <1>4 DEF ChaptersInv

\* A quote that stands after the cursor is matched, there or before.
LEMMA MatchedInTime ==
  ASSUME NEW q \in Seq(QuoteTokens), NEW c \in Nat, NEW i \in Nat, narration \in Seq(Words),
         Verbatim(q, i), c < i
  PROVE  /\ FindQuote(q, c) \in Matches(q, c) /\ FindQuote(q, c) <= i /\ FindQuote(q, c) >= 1
         /\ FindQuote(q, c) \in Nat /\ NextCursor(q, FindQuote(q, c), c) < i + Len(q)
<1>1. Probed(q) \in Nat /\ Probed(q) <= Len(q) /\ Probed(q) >= 1 /\ Len(q) \in Nat /\ Len(narration) \in Nat
  BY ProbedFew DEF Verbatim
<1> DEFINE M == Matches(q, c)
<1>2. i \in M
  <2>1. i \in c + 1 .. Len(narration) + 1 - Probed(q)
    BY <1>1 DEF Verbatim
  <2>2. \A k \in 1 .. Probed(q) : k \in DOMAIN q
    BY <1>1
  <2> QED
    BY <2>1, <2>2 DEF Matches, Verbatim, IsToken
<1>3. M \in SUBSET Nat /\ \A m \in M : m >= 1
  BY <1>1 DEF Matches
<1>4. FindQuote(q, c) = Min(M)
  <2>1. q # <<>> /\ narration # <<>>
    BY <1>1 DEF Verbatim
  <2> QED
    BY <2>1, <1>2 DEF FindQuote
<1> HIDE DEF M
<1>5. Min(M) \in M /\ Min(M) <= i
  <2>1. M \in SUBSET Nat /\ M # {}
    BY <1>2, <1>3
  <2>2. Min(M) \in M /\ \A y \in M : Min(M) <= y
    BY <2>1, MinIsLeast
  <2> QED
    BY <2>2, <1>2
<1>6. NextCursor(q, Min(M), c) = Min(M) + Probed(q) - 1
  BY <1>5 DEF NextCursor, M
<1>7. Min(M) \in Nat /\ Min(M) >= 1
  BY <1>3, <1>5
<1> QED
  BY <1>1, <1>4, <1>5, <1>6, <1>7 DEF M

\* Whatever is found stands in the narration, and the search goes on after it.
LEMMA FoundSomewhere ==
  ASSUME NEW q \in Seq(QuoteTokens), NEW c \in Nat, narration \in Seq(Words)
  PROVE  /\ FindQuote(q, c) \in Nat /\ NextCursor(q, FindQuote(q, c), c) \in Nat \cup {-1}
         /\ FindQuote(q, c) # 0 => NextCursor(q, FindQuote(q, c), c) \in Nat
<1>1. Probed(q) \in Nat /\ Len(narration) \in Nat
  BY ProbedFew
<1> DEFINE M == Matches(q, c)  O == Openings(q, c)
<1>2. M \in SUBSET Nat /\ O \in SUBSET Nat
  BY <1>1 DEF Matches, Openings
<1>3. FindQuote(q, c) = 0 \/ (M # {} /\ FindQuote(q, c) = Min(M)) \/ (O # {} /\ FindQuote(q, c) = Min(O))
  BY DEF FindQuote
<1> HIDE DEF M, O
<1>4. FindQuote(q, c) \in Nat
  <2>1. M # {} => Min(M) \in M
    BY <1>2, MinIsLeast
  <2>2. O # {} => Min(O) \in O
    BY <1>2, MinIsLeast
  <2>3. CASE FindQuote(q, c) = 0
    BY <2>3
  <2>4. CASE M # {} /\ FindQuote(q, c) = Min(M)
    <3>1. FindQuote(q, c) \in M
      BY <2>4, <2>1
    <3> QED
      BY <3>1, <1>2
  <2>5. CASE O # {} /\ FindQuote(q, c) = Min(O)
    <3>1. FindQuote(q, c) \in O
      BY <2>5, <2>2
    <3> QED
      BY <3>1, <1>2
  <2> QED
    BY <1>3, <2>3, <2>4, <2>5
<1>5. \A i \in Nat : NextCursor(q, i, c) \in Nat \cup {-1} /\ (i # 0 => NextCursor(q, i, c) \in Nat)
  BY <1>1 DEF NextCursor
<1> QED
  BY <1>4, <1>5

LEMMA StepChapters == ChaptersInv /\ [ChaptersNext]_chapterVars => ChaptersInv'
<1> SUFFICES ASSUME ChaptersInv, [ChaptersNext]_chapterVars PROVE ChaptersInv'
  OBVIOUS
<1> USE DEF ChaptersInv
<1>0. Len(quotes) \in Nat /\ Len(found) \in Nat /\ Len(narration) \in Nat
  OBVIOUS
<1>1. CASE AttachNext
  <2> DEFINE q == quotes[looked + 1]  i == FindQuote(q, cursor)
             chapter == [quote |-> q, place |-> i]
  <2>1. looked + 1 \in DOMAIN quotes /\ q \in Seq(QuoteTokens)
    BY <1>1, <1>0 DEF AttachNext
  <2>2. i \in Nat /\ (i # 0 => NextCursor(q, i, cursor) \in Nat)
    BY <2>1, FoundSomewhere
  <2>3. /\ looked < Len(quotes) /\ looked' = looked + 1 /\ narration' = narration /\ quotes' = quotes
        /\ IF i = 0 THEN cursor' = cursor /\ found' = found
           ELSE cursor' = NextCursor(q, i, cursor) /\ found' = Append(found, chapter)
    BY <1>1 DEF AttachNext
  <2>4. chapter \in [quote : Seq(QuoteTokens), place : Nat]
    BY <2>1, <2>2
  <2>5. cursor' \in Nat /\ found' \in Seq([quote : Seq(QuoteTokens), place : Nat])
    <3> DEFINE R == [quote : Seq(QuoteTokens), place : Nat]
    <3> HIDE DEF q, i, chapter, R
    <3>1. found \in Seq(R) /\ cursor \in Nat
      BY DEF R
    <3>2. chapter \in R => Append(found, chapter) \in Seq(R)
      BY <3>1
    <3>3. found' \in Seq(R) /\ cursor' \in Nat
      BY <2>2, <2>3, <2>4, <3>1, <3>2 DEF R
    <3> QED
      BY <3>3 DEF R
  <2>6. looked' \in Nat /\ looked' <= Len(quotes') + 1 /\ narration' \in Seq(Words)
        /\ quotes' \in Seq(Seq(QuoteTokens))
    BY <2>3, <1>0
  <2>7. ASSUME NEW at \in [DOMAIN quotes -> 1 .. Len(narration)], InOrder(at)
        PROVE  /\ Len(found') = looked + 1
               /\ \A k \in DOMAIN found' : found'[k].quote = quotes[k] /\ found'[k].place <= at[k]
               /\ looked + 1 < Len(quotes) => cursor' < at[looked + 2]
    <3>1. Len(found) = looked /\ cursor < at[looked + 1]
      BY <2>7, <2>3, <1>0
    <3>2. Verbatim(q, at[looked + 1]) /\ at[looked + 1] \in Nat
      BY <2>1, <2>7, <1>0 DEF InOrder
    <3>3. /\ i <= at[looked + 1] /\ i # 0
          /\ NextCursor(q, i, cursor) < at[looked + 1] + Len(q)
      BY <3>1, <3>2, <2>1, MatchedInTime
    <3>4. found' = Append(found, chapter) /\ cursor' = NextCursor(q, i, cursor)
      BY <3>3, <2>3
    <3>5. Len(found') = looked + 1 /\ DOMAIN found' = 1 .. looked + 1
      BY <3>1, <3>4, <1>0
    <3>6. ASSUME NEW k \in DOMAIN found'
          PROVE  found'[k].quote = quotes[k] /\ found'[k].place <= at[k]
      <4>1. CASE k = looked + 1
        <5>1. found'[k] = chapter
          <6> HIDE DEF chapter
          <6> QED
            BY <4>1, <3>1, <3>4, <1>0
        <5> QED
          BY <5>1, <4>1, <3>3
      <4>2. CASE k # looked + 1
        <5>1. k \in DOMAIN found
          BY <4>2, <3>5, <3>1, <1>0
        <5>2. found'[k] = found[k]
          <6> HIDE DEF chapter
          <6> QED
            BY <5>1, <3>4
        <5> QED
          BY <5>1, <5>2, <2>7
      <4> QED
        BY <4>1, <4>2
    <3>7. looked + 1 < Len(quotes) => at[looked + 1] + Len(q) <= at[looked + 2]
      <4> SUFFICES ASSUME looked + 1 < Len(quotes) PROVE at[looked + 1] + Len(q) <= at[looked + 2]
        OBVIOUS
      <4>1. looked + 1 \in 1 .. Len(quotes) - 1 /\ (looked + 1) + 1 = looked + 2
        BY <1>0
      <4> QED
        BY <4>1, <2>7 DEF InOrder
    <3>8. looked + 1 < Len(quotes) => at[looked + 2] \in Nat
      <4> SUFFICES ASSUME looked + 1 < Len(quotes) PROVE at[looked + 2] \in Nat
        OBVIOUS
      <4>1. looked + 2 \in DOMAIN quotes
        BY <1>0
      <4>2. at[looked + 2] \in 1 .. Len(narration)
        BY <4>1, <2>7
      <4> QED
        BY <4>2, <1>0
    <3>9. Len(q) \in Nat /\ cursor' \in Nat
      BY <2>1, <2>5
    <3>10. looked + 1 < Len(quotes) => cursor' < at[looked + 2]
      <4> DEFINE x == at[looked + 1]  y == at[looked + 2]  n == Len(q)
      <4> SUFFICES ASSUME looked + 1 < Len(quotes) PROVE cursor' < y
        OBVIOUS
      <4>1. cursor' < x + n
        BY <3>3, <3>4
      <4>2. x + n <= y
        BY <3>7
      <4>3. x \in Nat /\ y \in Nat /\ n \in Nat /\ cursor' \in Nat
        BY <3>2, <3>8, <3>9
      <4> HIDE DEF x, y, n
      <4> QED
        BY <4>1, <4>2, <4>3
    <3> QED
      BY <3>5, <3>6, <3>10
  <2>8. \A at : InOrder(at)' = InOrder(at)
    BY <2>3 DEF InOrder, Verbatim
  <2>9. looked' <= Len(quotes') /\ (looked' < Len(quotes') <=> looked + 1 < Len(quotes)) /\ looked' + 1 = looked + 2
    BY <2>3, <1>0
  <2> HIDE DEF q, i, chapter
  <2> QED
    BY <2>3, <2>5, <2>6, <2>7, <2>8, <2>9
<1>2. CASE FirstFromStart
  <2>1. /\ looked = Len(quotes) /\ looked' = looked + 1 /\ narration' = narration /\ quotes' = quotes
        /\ cursor' = cursor
        /\ found' = IF found = <<>> THEN found ELSE [found EXCEPT ![1].place = 0]
    BY <1>2 DEF FirstFromStart
  <2>2. /\ found' \in Seq([quote : Seq(QuoteTokens), place : Nat]) /\ Len(found') = Len(found)
        /\ DOMAIN found' = DOMAIN found
        /\ \A k \in DOMAIN found : found'[k].quote = found[k].quote /\ (found'[k].place = found[k].place \/ found'[k].place = 0)
    <3>1. CASE found = <<>>
      BY <3>1, <2>1
    <3>2. CASE found # <<>>
      <4> DEFINE R == [quote : Seq(QuoteTokens), place : Nat]
                 first == [found[1] EXCEPT !.place = 0]
      <4>1. 1 \in DOMAIN found /\ found[1] \in R /\ found' = [found EXCEPT ![1] = first]
        <5>1. found' = [found EXCEPT ![1] = first]
          BY <3>2, <2>1
        <5>2. found \in Seq(R)
          OBVIOUS
        <5> HIDE DEF R
        <5>3. 1 \in DOMAIN found /\ found[1] \in R
          BY <3>2, <5>2, EmptySeq, ElementOfSeq
        <5> QED
          BY <5>1, <5>3
      <4>2. first \in R /\ first.quote = found[1].quote /\ first.place = 0
        BY <4>1
      <4>3. found \in Seq(R)
        OBVIOUS
      <4> HIDE DEF R, first
      <4>4. found' \in Seq(R) /\ Len(found') = Len(found) /\ DOMAIN found' = DOMAIN found
        BY <4>1, <4>2, <4>3
      <4>5. \A k \in DOMAIN found : found'[k] = IF k = 1 THEN first ELSE found[k]
        BY <4>1, <4>3
      <4> QED
        BY <4>2, <4>4, <4>5 DEF R
    <3> QED
      BY <3>1, <3>2
  <2>3. \A at : InOrder(at)' = InOrder(at)
    BY <2>1 DEF InOrder, Verbatim
  <2>4. ASSUME NEW at \in [DOMAIN quotes -> 1 .. Len(narration)], InOrder(at)
        PROVE  /\ Len(found') = Len(quotes)
               /\ \A k \in DOMAIN found' : found'[k].quote = quotes[k] /\ found'[k].place <= at[k]
    <3>1. Len(found) = Len(quotes) /\ DOMAIN found = DOMAIN quotes
      BY <2>1, <2>4, <1>0
    <3>2. \A k \in DOMAIN quotes : at[k] >= 0
      BY <2>4, <1>0
    <3> QED
      BY <2>2, <2>4, <3>1, <3>2
  <2>5. looked' > Len(quotes') /\ looked' <= Len(quotes') + 1 /\ looked' \in Nat
    BY <2>1, <1>0
  <2>6. /\ cursor' \in Nat /\ found' \in Seq([quote : Seq(QuoteTokens), place : Nat])
        /\ narration' \in Seq(Words) /\ quotes' \in Seq(Seq(QuoteTokens))
    BY <2>1, <2>2
  <2>7. ~ (looked' <= Len(quotes')) /\ ~ (looked' < Len(quotes'))
    BY <2>5, <2>6
  <2>8. ASSUME NEW at \in [DOMAIN quotes' -> 1 .. Len(narration')], InOrder(at)'
        PROVE  /\ Len(found') = Len(quotes')
               /\ \A k \in DOMAIN found' : found'[k].quote = quotes'[k] /\ found'[k].place <= at[k]
    BY <2>1, <2>3, <2>4, <2>8
  <2> QED
    BY <2>5, <2>6, <2>7, <2>8
<1>3. CASE UNCHANGED chapterVars
  <2>1. \A at : InOrder(at)' = InOrder(at)
    BY <1>3 DEF InOrder, Verbatim, chapterVars
  <2> QED
    BY <1>3, <2>1 DEF chapterVars
<1> QED
  BY <1>1, <1>2, <1>3 DEF ChaptersNext

\* Quotes that stand in the narration word for word and one after the other are all
\* found, and no chapter starts after its quote, however long the narration and however
\* many the quotes (attach_chapter_times, find_quote_time).
THEOREM EveryQuoteIsPlaced == ChaptersSpec => []QuotesPlaced
<1>1. ChaptersInv => QuotesPlaced
  BY DEF ChaptersInv, QuotesPlaced
<1> QED
  BY <1>1, InitChapters, StepChapters, PTL DEF ChaptersSpec

-----------------------------------------------------------------------------
(***************************************************************************)
(* The reader finds every request where the client put it.                 *)
(***************************************************************************)

\* "x" is any field the reader does not look at.
FieldNames == Lines \cup {"none", "length", "bad length", "chunked", "coding", "expect", "close",
                         "keep-alive", "folded", "long", "x"}

Tokens == [is : {"line", "field", "size", "blank"}, val : FieldNames, n : Nat]

MessageShapes ==
  [stray : Nat, line : Tokens, fields : Seq(Tokens), body : Seq(Tokens),
   chunks : BOOLEAN, trailer : Seq(Tokens)]

\* The fields of a message that say how its body is sent.
Named(m, names) == {j \in DOMAIN m.fields : m.fields[j].val \in names}

\* The client sends its body as its header fields say, or these contradict one another, or
\* they announce chunks and the body begins with what is none.
Framing(m) ==
  LET coded  == Named(m, {"chunked", "coding"}) # {}
      sized  == Named(m, {"length"})
      faulty == Named(m, {"bad length"}) # {}
      differ == \E i, j \in sized : m.fields[i].n # m.fields[j].n
      exact  == \A j \in sized : m.fields[j].n = Len(m.body)
  IN  \/ m.chunks /\ coded
      \/ ~m.chunks /\ coded /\ (sized # {} \/ faulty)
      \/ ~m.chunks /\ coded /\ (m.body = <<>> \/ m.body[1].is # "size")
      \/ ~m.chunks /\ ~coded /\ (faulty \/ differ)
      \/ ~m.chunks /\ ~coded /\ exact /\ (sized = {} => m.body = <<>>)

\* A request begins with a request line, right or wrong, and its header and trailer end at
\* their first empty line.  Of a body nothing is assumed.
Framed(m) ==
  /\ m \in MessageShapes
  /\ m.line.is = "line"
  /\ \A j \in DOMAIN m.fields : m.fields[j].is # "blank"
  /\ \A j \in DOMAIN m.trailer : m.trailer[j].is # "blank"
  /\ Framing(m)

\* What the client sends is well framed, whatever the bytes of a body look like.
WellFramed == \A m \in Messages : Framed(m)

LEMMA TokensAre ==
  /\ Blank \in Tokens /\ Blank.is = "blank"
  /\ \A n \in Nat : Size(n) \in Tokens /\ Size(n).is = "size" /\ Size(n).n = n
<1>1. "none" \in FieldNames
  BY DEF FieldNames
<1>0. 0 \in Nat
  OBVIOUS
<1>2. \A i \in {"line", "field", "size", "blank"}, v \in FieldNames, n \in Nat :
         [is |-> i, val |-> v, n |-> n] \in Tokens
  BY DEF Tokens
<1>3. Blank \in Tokens /\ \A n \in Nat : Size(n) \in Tokens
  BY <1>0, <1>1, <1>2 DEF Blank, Size
<1>4. Blank.is = "blank" /\ \A n : Size(n).is = "size" /\ Size(n).n = n
  BY Zenon DEF Blank, Size
<1> QED
  BY <1>3, <1>4

\* The tokens of what is put together.
LEMMA Joined ==
  ASSUME NEW S, NEW s \in Seq(S), NEW t \in Seq(S), NEW r, r = s \o t
  PROVE  /\ r \in Seq(S) /\ Len(r) = Len(s) + Len(t) /\ Len(s) \in Nat /\ Len(t) \in Nat
         /\ \A i \in 1 .. Len(s) : r[i] = s[i]
         /\ \A j \in 1 .. Len(t) : r[Len(s) + j] = t[j]
<1>1. Len(s) \in Nat /\ Len(t) \in Nat
  OBVIOUS
<1>2. /\ r \in Seq(S) /\ Len(r) = Len(s) + Len(t)
      /\ \A i \in 1 .. Len(s) + Len(t) : r[i] = IF i <= Len(s) THEN s[i] ELSE t[i - Len(s)]
  BY ConcatProperties
<1> QED
  BY <1>1, <1>2

LEMMA JoinedFour ==
  ASSUME NEW S, NEW a \in Seq(S), NEW b \in Seq(S), NEW c \in Seq(S), NEW d \in Seq(S),
         NEW r, r = a \o b \o c \o d
  PROVE  /\ r \in Seq(S) /\ Len(r) = Len(a) + Len(b) + Len(c) + Len(d)
         /\ Len(a) \in Nat /\ Len(b) \in Nat /\ Len(c) \in Nat /\ Len(d) \in Nat
         /\ \A i \in 1 .. Len(a) : r[i] = a[i]
         /\ \A i \in 1 .. Len(b) : r[Len(a) + i] = b[i]
         /\ \A i \in 1 .. Len(c) : r[Len(a) + Len(b) + i] = c[i]
         /\ \A i \in 1 .. Len(d) : r[Len(a) + Len(b) + Len(c) + i] = d[i]
<1> DEFINE x == a \o b
           y == x \o c
<1>1. /\ x \in Seq(S) /\ Len(x) = Len(a) + Len(b) /\ Len(a) \in Nat /\ Len(b) \in Nat
      /\ \A i \in 1 .. Len(a) : x[i] = a[i]
      /\ \A j \in 1 .. Len(b) : x[Len(a) + j] = b[j]
  BY Joined
<1> HIDE DEF x
<1>x. x \in Seq(S)
  BY <1>1
<1>2. /\ y \in Seq(S) /\ Len(y) = Len(x) + Len(c) /\ Len(c) \in Nat
      /\ \A i \in 1 .. Len(x) : y[i] = x[i]
      /\ \A j \in 1 .. Len(c) : y[Len(x) + j] = c[j]
  BY <1>x, Joined
<1> HIDE DEF y
<1>y. y \in Seq(S)
  BY <1>2
<1>3. r = y \o d
  BY DEF x, y
<1>4. /\ r \in Seq(S) /\ Len(r) = Len(y) + Len(d) /\ Len(d) \in Nat
      /\ \A i \in 1 .. Len(y) : r[i] = y[i]
      /\ \A j \in 1 .. Len(d) : r[Len(y) + j] = d[j]
  BY <1>y, <1>3, Joined
<1>5. \A i \in 1 .. Len(x) : r[i] = x[i]
  BY <1>1, <1>2, <1>4
<1>6. (\A i \in 1 .. Len(a) : r[i] = a[i]) /\ \A i \in 1 .. Len(b) : r[Len(a) + i] = b[i]
  BY <1>1, <1>5
<1>7. \A i \in 1 .. Len(c) : r[Len(a) + Len(b) + i] = c[i]
  BY <1>1, <1>2, <1>4
<1>8. \A i \in 1 .. Len(d) : r[Len(a) + Len(b) + Len(c) + i] = d[i]
  BY <1>1, <1>2, <1>4
<1> QED
  BY <1>1, <1>2, <1>4, <1>6, <1>7, <1>8

\* Where the header block of a message ends.
Block(m) == m.stray + Len(m.fields) + 2

LEMMA HeaderIs ==
  ASSUME NEW m \in MessageShapes
  PROVE  /\ Header(m) \in Seq(Tokens) /\ Len(Header(m)) = Block(m)
         /\ m.stray \in Nat /\ Len(m.fields) \in Nat /\ Block(m) \in Nat
         /\ \A i \in 1 .. m.stray : Header(m)[i] = Blank
         /\ Header(m)[m.stray + 1] = m.line
         /\ \A j \in 1 .. Len(m.fields) : Header(m)[m.stray + 1 + j] = m.fields[j]
         /\ Header(m)[Block(m)] = Blank
<1>1. m.stray \in Nat /\ m.line \in Tokens /\ m.fields \in Seq(Tokens) /\ Len(m.fields) \in Nat
  BY DEF MessageShapes
<1> DEFINE empty == [i \in 1 .. m.stray |-> Blank]
           line  == <<m.line>>
           end   == <<Blank>>
           f     == m.fields
<1>2. empty \in Seq(Tokens) /\ Len(empty) = m.stray /\ \A i \in 1 .. m.stray : empty[i] = Blank
  BY <1>1, TokensAre
<1>3. line \in Seq(Tokens) /\ Len(line) = 1 /\ line[1] = m.line
  BY <1>1
<1>4. end \in Seq(Tokens) /\ Len(end) = 1 /\ end[1] = Blank
  BY TokensAre
<1>5. f \in Seq(Tokens) /\ Header(m) = empty \o line \o f \o end
  BY <1>1 DEF Header
<1>t. empty \in Seq(Tokens) /\ line \in Seq(Tokens) /\ end \in Seq(Tokens)
  BY <1>2, <1>3, <1>4
<1> HIDE DEF empty, line, end, f
<1>6. /\ Header(m) \in Seq(Tokens) /\ Len(Header(m)) = Len(empty) + Len(line) + Len(f) + Len(end)
      /\ Len(f) \in Nat
      /\ \A i \in 1 .. Len(empty) : Header(m)[i] = empty[i]
      /\ \A i \in 1 .. Len(line) : Header(m)[Len(empty) + i] = line[i]
      /\ \A i \in 1 .. Len(f) : Header(m)[Len(empty) + Len(line) + i] = f[i]
      /\ \A i \in 1 .. Len(end) : Header(m)[Len(empty) + Len(line) + Len(f) + i] = end[i]
  BY <1>t, <1>5, JoinedFour
<1>7. Block(m) = m.stray + 1 + Len(f) + 1
  BY <1>1 DEF Block, f
<1>8. \A i \in 1 .. m.stray : Header(m)[i] = Blank
  BY <1>2, <1>6
<1>9. Header(m)[m.stray + 1] = m.line
  <2>1. 1 \in 1 .. Len(line)
    BY <1>3
  <2>2. Header(m)[Len(empty) + 1] = line[1]
    BY <1>6, <2>1
  <2> QED
    BY <1>2, <1>3, <2>2
<1>10. \A i \in 1 .. Len(f) : Header(m)[m.stray + 1 + i] = f[i]
  BY <1>2, <1>3, <1>6
<1>11. Header(m)[m.stray + 1 + Len(f) + 1] = Blank
  BY <1>2, <1>3, <1>4, <1>6
<1> QED
  BY <1>1, <1>2, <1>3, <1>4, <1>6, <1>7, <1>8, <1>9, <1>10, <1>11 DEF f

LEMMA ChunkedIs ==
  ASSUME NEW b \in Seq(Tokens)
  PROVE  /\ Chunked(b) \in Seq(Tokens) /\ Len(Chunked(b)) = 3 * Len(b) + 1
         /\ \A j \in 1 .. Len(b) : /\ Chunked(b)[3 * (j - 1) + 1] = Size(1)
                                   /\ Chunked(b)[3 * (j - 1) + 2] = b[j]
                                   /\ Chunked(b)[3 * (j - 1) + 3] = Blank
         /\ Chunked(b)[3 * Len(b) + 1] = Size(0)
<1>1. Len(b) \in Nat /\ \A j \in 1 .. Len(b) : b[j] \in Tokens
  OBVIOUS
<1>2. \A i \in 1 .. 3 * Len(b) + 1 :
         Chunked(b)[i] = IF i > 3 * Len(b) THEN Size(0)
                         ELSE IF i % 3 = 1 THEN Size(1)
                         ELSE IF i % 3 = 2 THEN b[(i + 1) \div 3]
                         ELSE Blank
  BY DEF Chunked
<1>3. \A i \in 1 .. 3 * Len(b) + 1 : Chunked(b)[i] \in Tokens
  <2> TAKE i \in 1 .. 3 * Len(b) + 1
  <2>1. ASSUME i <= 3 * Len(b), i % 3 = 2 PROVE (i + 1) \div 3 \in 1 .. Len(b)
    BY <1>1, <2>1, SMT
  <2> QED
    BY <1>1, <1>2, <2>1, TokensAre
<1>4. Chunked(b) \in Seq(Tokens) /\ Len(Chunked(b)) = 3 * Len(b) + 1
  <2>1. DOMAIN Chunked(b) = 1 .. 3 * Len(b) + 1 /\ 3 * Len(b) + 1 \in Nat
    BY <1>1 DEF Chunked
  <2>2. Chunked(b) \in [1 .. 3 * Len(b) + 1 -> Tokens]
    BY <1>3, <2>1 DEF Chunked
  <2> QED
    BY <2>1, <2>2
<1>5. ASSUME NEW j \in 1 .. Len(b)
      PROVE  /\ Chunked(b)[3 * (j - 1) + 1] = Size(1)
             /\ Chunked(b)[3 * (j - 1) + 2] = b[j]
             /\ Chunked(b)[3 * (j - 1) + 3] = Blank
  <2>1. j \in Nat /\ j >= 1 /\ j <= Len(b)
    BY <1>1
  <2>2. /\ 3 * (j - 1) + 1 \in 1 .. 3 * Len(b) /\ (3 * (j - 1) + 1) % 3 = 1
    BY <1>1, <2>1, SMT
  <2>3. /\ 3 * (j - 1) + 2 \in 1 .. 3 * Len(b) /\ (3 * (j - 1) + 2) % 3 = 2
        /\ (3 * (j - 1) + 2 + 1) \div 3 = j
    BY <1>1, <2>1, SMT
  <2>4. /\ 3 * (j - 1) + 3 \in 1 .. 3 * Len(b) /\ (3 * (j - 1) + 3) % 3 = 0
    BY <1>1, <2>1, SMT
  <2>5. Chunked(b)[3 * (j - 1) + 1] = Size(1)
    BY <1>1, <1>2, <2>2
  <2>6. Chunked(b)[3 * (j - 1) + 2] = b[j]
    BY <1>1, <1>2, <2>3
  <2>7. Chunked(b)[3 * (j - 1) + 3] = Blank
    BY <1>1, <1>2, <2>4
  <2> QED
    BY <2>5, <2>6, <2>7
<1>6. Chunked(b)[3 * Len(b) + 1] = Size(0)
  BY <1>1, <1>2
<1> QED
  BY <1>4, <1>5, <1>6

\* The tokens of a message, one by one.
LEMMA OnWireIs ==
  ASSUME NEW m \in MessageShapes
  PROVE  /\ OnWire(m) \in Seq(Tokens) /\ Len(OnWire(m)) \in Nat /\ Len(OnWire(m)) >= Block(m)
         /\ \A i \in 1 .. m.stray : OnWire(m)[i] = Blank
         /\ OnWire(m)[m.stray + 1] = m.line
         /\ \A j \in 1 .. Len(m.fields) : OnWire(m)[m.stray + 1 + j] = m.fields[j]
         /\ OnWire(m)[Block(m)] = Blank
         /\ ~m.chunks => /\ Len(OnWire(m)) = Block(m) + Len(m.body)
                         /\ \A j \in 1 .. Len(m.body) : OnWire(m)[Block(m) + j] = m.body[j]
         /\ m.chunks =>
              /\ Len(OnWire(m)) = Block(m) + 3 * Len(m.body) + Len(m.trailer) + 2
              /\ \A j \in 1 .. Len(m.body) : /\ OnWire(m)[Block(m) + 3 * (j - 1) + 1] = Size(1)
                                             /\ OnWire(m)[Block(m) + 3 * (j - 1) + 2] = m.body[j]
                                             /\ OnWire(m)[Block(m) + 3 * (j - 1) + 3] = Blank
              /\ OnWire(m)[Block(m) + 3 * Len(m.body) + 1] = Size(0)
              /\ \A j \in 1 .. Len(m.trailer) :
                   OnWire(m)[Block(m) + 3 * Len(m.body) + 1 + j] = m.trailer[j]
              /\ OnWire(m)[Len(OnWire(m))] = Blank
<1> DEFINE B == Block(m)
           n == Len(m.body)
           t == Len(m.trailer)
<1>1. m.body \in Seq(Tokens) /\ m.trailer \in Seq(Tokens) /\ n \in Nat /\ t \in Nat /\ m.chunks \in BOOLEAN
  BY DEF MessageShapes
<1>2. Header(m) \in Seq(Tokens) /\ Len(Header(m)) = B /\ B \in Nat
  BY HeaderIs
<1>3. ASSUME NEW s \in Seq(Tokens), OnWire(m) = Header(m) \o s
      PROVE  /\ OnWire(m) \in Seq(Tokens) /\ Len(OnWire(m)) = B + Len(s) /\ Len(s) \in Nat
             /\ \A i \in 1 .. B : OnWire(m)[i] = Header(m)[i]
             /\ \A j \in 1 .. Len(s) : OnWire(m)[B + j] = s[j]
  <2>1. Header(m) \in Seq(Tokens)
    BY <1>2
  <2>2. /\ OnWire(m) \in Seq(Tokens) /\ Len(OnWire(m)) = Len(Header(m)) + Len(s) /\ Len(s) \in Nat
        /\ \A i \in 1 .. Len(Header(m)) : OnWire(m)[i] = Header(m)[i]
        /\ \A j \in 1 .. Len(s) : OnWire(m)[Len(Header(m)) + j] = s[j]
    BY <1>3, <2>1, Joined
  <2> QED
    BY <1>2, <2>2
<1>4. ASSUME NEW s \in Seq(Tokens), OnWire(m) = Header(m) \o s
      PROVE  /\ OnWire(m) \in Seq(Tokens) /\ Len(OnWire(m)) \in Nat /\ Len(OnWire(m)) >= B
             /\ \A i \in 1 .. m.stray : OnWire(m)[i] = Blank
             /\ OnWire(m)[m.stray + 1] = m.line
             /\ \A j \in 1 .. Len(m.fields) : OnWire(m)[m.stray + 1 + j] = m.fields[j]
             /\ OnWire(m)[B] = Blank
  <2>1. m.stray \in Nat /\ Len(m.fields) \in Nat /\ B = m.stray + Len(m.fields) + 2
    BY HeaderIs DEF Block
  <2>2. /\ \A i \in 1 .. m.stray : i \in 1 .. B
        /\ m.stray + 1 \in 1 .. B /\ B \in 1 .. B
        /\ \A j \in 1 .. Len(m.fields) : m.stray + 1 + j \in 1 .. B
    BY <2>1
  <2>3. B + Len(s) \in Nat /\ B + Len(s) >= B
    BY <1>2, <1>3, <1>4
  <2> HIDE DEF B
  <2> QED
    BY <1>3, <1>4, <2>1, <2>2, <2>3, HeaderIs DEF B
<1>5. CASE ~m.chunks
  <2>1. OnWire(m) = Header(m) \o m.body
    BY <1>5 DEF OnWire, Content
  <2> QED
    BY <1>1, <1>3, <1>4, <1>5, <2>1
<1>6. CASE m.chunks
  <2> DEFINE c   == Chunked(m.body)
             f   == m.trailer
             end == <<Blank>>
             s   == c \o f \o end
             k   == 3 * n + 1
             no  == <<>>
  <2>1. /\ c \in Seq(Tokens) /\ Len(c) = k /\ c[k] = Size(0)
        /\ \A j \in 1 .. n : c[3 * (j - 1) + 1] = Size(1) /\ c[3 * (j - 1) + 2] = m.body[j] /\ c[3 * (j - 1) + 3] = Blank
    BY <1>1, ChunkedIs
  <2>2. f \in Seq(Tokens) /\ Len(f) = t
    BY <1>1
  <2>3. end \in Seq(Tokens) /\ Len(end) = 1 /\ end[1] = Blank
    BY TokensAre
  <2>4. OnWire(m) = Header(m) \o s
    BY <1>6 DEF OnWire, Content
  <2>5. k \in Nat /\ no \in Seq(Tokens) /\ Len(no) = 0
    BY <1>1
  <2> HIDE DEF c, f, end
  <2>6. s = no \o c \o f \o end
    BY <2>1, ConcatEmptySeq
  <2> HIDE DEF s, n, t, k, no
  <2>7. /\ s \in Seq(Tokens) /\ Len(s) = 0 + Len(c) + Len(f) + Len(end)
        /\ \A i \in 1 .. Len(c) : s[0 + i] = c[i]
        /\ \A i \in 1 .. Len(f) : s[0 + Len(c) + i] = f[i]
        /\ \A i \in 1 .. Len(end) : s[0 + Len(c) + Len(f) + i] = end[i]
    <3>1. no \in Seq(Tokens) /\ c \in Seq(Tokens) /\ f \in Seq(Tokens) /\ end \in Seq(Tokens)
      BY <2>1, <2>2, <2>3, <2>5
    <3>2. /\ s \in Seq(Tokens) /\ Len(s) = Len(no) + Len(c) + Len(f) + Len(end)
          /\ \A i \in 1 .. Len(c) : s[Len(no) + i] = c[i]
          /\ \A i \in 1 .. Len(f) : s[Len(no) + Len(c) + i] = f[i]
          /\ \A i \in 1 .. Len(end) : s[Len(no) + Len(c) + Len(f) + i] = end[i]
      BY <2>6, <3>1, JoinedFour
    <3> QED
      BY <2>5, <3>2
  <2>8. /\ Len(s) = k + t + 1
        /\ \A i \in 1 .. k : s[i] = c[i]
        /\ \A i \in 1 .. t : s[k + i] = f[i]
        /\ s[k + t + 1] = Blank
    BY <1>1, <2>1, <2>2, <2>3, <2>5, <2>7
  <2>9. Len(OnWire(m)) = B + (k + t + 1) /\ \A j \in 1 .. k + t + 1 : OnWire(m)[B + j] = s[j]
    BY <1>3, <2>4, <2>7, <2>8
  <2>10. k = 3 * n + 1
    BY DEF k
  <2> HIDE DEF B
  <2>11. \A j \in 1 .. n : /\ OnWire(m)[B + 3 * (j - 1) + 1] = Size(1)
                           /\ OnWire(m)[B + 3 * (j - 1) + 2] = m.body[j]
                           /\ OnWire(m)[B + 3 * (j - 1) + 3] = Blank
    <3> TAKE j \in 1 .. n
    <3>1. /\ 3 * (j - 1) + 1 \in 1 .. k /\ 3 * (j - 1) + 2 \in 1 .. k
          /\ 3 * (j - 1) + 3 \in 1 .. k
      BY <1>1, <2>10
    <3>2. /\ B + 3 * (j - 1) + 1 = B + (3 * (j - 1) + 1) /\ B + 3 * (j - 1) + 2 = B + (3 * (j - 1) + 2)
          /\ B + 3 * (j - 1) + 3 = B + (3 * (j - 1) + 3)
      BY <1>1, <1>2
    <3>3. \A i \in 1 .. k : OnWire(m)[B + i] = c[i]
      BY <1>1, <2>5, <2>8, <2>9
    <3> QED
      BY <2>1, <3>1, <3>2, <3>3
  <2>12. OnWire(m)[B + 3 * n + 1] = Size(0)
    <3>1. k \in 1 .. k /\ k \in 1 .. k + t + 1 /\ B + 3 * n + 1 = B + k
      BY <1>1, <1>2, <2>10
    <3> QED
      BY <2>1, <2>8, <2>9, <3>1
  <2>13. \A j \in 1 .. t : OnWire(m)[B + 3 * n + 1 + j] = f[j]
    <3> TAKE j \in 1 .. t
    <3>1. k + j \in 1 .. k + t + 1 /\ B + 3 * n + 1 + j = B + (k + j)
      BY <1>1, <1>2, <2>5, <2>10
    <3> QED
      BY <2>8, <2>9, <3>1
  <2>14. OnWire(m)[Len(OnWire(m))] = Blank
    <3>1. k + t + 1 \in 1 .. k + t + 1
      BY <1>1, <2>5
    <3> QED
      BY <2>8, <2>9, <3>1
  <2>15. Len(OnWire(m)) = B + 3 * n + t + 2
    BY <1>1, <1>2, <2>9, <2>10
  <2> QED
    BY <1>4, <1>6, <2>4, <2>7, <2>11, <2>12, <2>13, <2>14, <2>15 DEF B, n, t, f
<1> QED
  BY <1>1, <1>5, <1>6
-----------------------------------------------------------------------------
(* Where the reader is in the request it reads.                            *)

Current == sent[Len(served) + 1]

At(i) == place = Place(Len(served) + 1, i)

Begins(s, t) == Len(s) <= Len(t) /\ \A i \in 1 .. Len(s) : s[i] = t[i]

ReaderTypes ==
  /\ sent \in Seq(Messages) /\ served \in Seq(Seq(Tokens))
  /\ fields \in Seq(Tokens) /\ body \in Seq(Tokens) /\ left \in Nat
  /\ phase \in {"line", "fields", "framing", "bytes", "size", "chunk", "trailer", "serve", "closed"}

\* Before a request line, maybe behind some of the empty lines before it.
AtStart ==
  /\ fields = <<>> /\ body = <<>>
  /\ \E b \in Nat : place = <<Len(served) + 1, b + 1>> /\ (Arrived => b <= Current.stray)

InHead(m) ==
  /\ body = <<>>
  /\ \/ phase = "fields" /\ Begins(fields, m.fields) /\ At(m.stray + 2 + Len(fields))
     \/ phase = "framing" /\ fields = m.fields /\ At(Block(m) + 1)

InBytes(m) ==
  ~m.chunks /\ left = Len(m.body) - Len(body) /\ At(Block(m) + 1 + Len(body))

InSize(m) ==
  IF m.chunks
    THEN At(Block(m) + 3 * Len(body) + 1)
    ELSE body = <<>> /\ At(Block(m) + 1) /\ (m.body = <<>> \/ m.body[1].is # "size")

InChunk(m) ==
  /\ m.chunks
  /\ \/ left = 1 /\ Len(body) < Len(m.body) /\ At(Block(m) + 3 * Len(body) + 2)
     \/ left = 0 /\ Len(body) > 0 /\ At(Block(m) + 3 * Len(body))

InTrailer(m) ==
  /\ m.chunks /\ body = m.body
  /\ \E j \in 0 .. Len(m.trailer) : At(Block(m) + 3 * Len(m.body) + 2 + j)

\* In a request, each phase has its place in it.
InRequest(m) ==
  /\ phase \in {"fields", "framing"} => InHead(m)
  /\ phase \in {"bytes", "size", "chunk"} => Begins(body, m.body)
  /\ phase = "bytes" => InBytes(m)
  /\ phase = "size" => InSize(m)
  /\ phase = "chunk" => InChunk(m)
  /\ phase = "trailer" => InTrailer(m)
  /\ phase = "serve" => body = m.body /\ place = <<Len(served) + 2, 1>>

\* The inductive invariant behind OnlyWhatWasSent.
ReaderInv ==
  /\ ReaderTypes
  /\ OnlyWhatWasSent
  /\ phase = "line" => AtStart
  /\ phase \notin {"line", "closed"} => Len(served) < Len(sent) /\ InRequest(Current)
-----------------------------------------------------------------------------
(* What a step reads.                                                      *)

\* Everything a step can be about: a request that is well framed.
Reads == WellFramed /\ ReaderInv

LEMMA CurrentIs ==
  ASSUME Reads, Len(served) < Len(sent)
  PROVE  /\ Framed(Current) /\ Current \in MessageShapes
         /\ Len(served) \in Nat /\ Len(served) + 1 \in 1 .. Len(sent)
         /\ Current.fields \in Seq(Tokens) /\ Current.body \in Seq(Tokens)
         /\ Current.trailer \in Seq(Tokens) /\ Current.stray \in Nat /\ Current.chunks \in BOOLEAN
<1>1. Len(served) \in Nat /\ Len(served) + 1 \in 1 .. Len(sent)
  BY DEF Reads, ReaderInv, ReaderTypes
<1>2. Current \in Messages
  BY <1>1 DEF Reads, ReaderInv, ReaderTypes, Current
<1>3. Framed(Current) /\ Current \in MessageShapes
  BY <1>2 DEF Reads, WellFramed, Framed
<1> QED
  BY <1>1, <1>3 DEF MessageShapes

LEMMA TokenAt ==
  ASSUME Reads, Len(served) < Len(sent), NEW i \in 1 .. Len(OnWire(Current)), At(i)
  PROVE  /\ place = <<Len(served) + 1, i>> /\ Arrived /\ Token = OnWire(Current)[i]
         /\ Token \in Tokens
         /\ Take => place' = Place(Len(served) + 1, i + 1)
<1>1. Current = sent[Len(served) + 1] /\ OnWire(Current) \in Seq(Tokens) /\ Len(served) + 1 \in 1 .. Len(sent)
  BY CurrentIs, OnWireIs DEF Current
<1>2. place = <<Len(served) + 1, i>>
  BY <1>1 DEF At, Place
<1>3. place[1] = Len(served) + 1 /\ place[2] = i
  BY <1>2
<1>4. Token = OnWire(Current)[i] /\ Arrived
  BY <1>1, <1>3 DEF Token, Arrived
<1>5. Take => place' = Place(Len(served) + 1, i + 1)
  BY <1>3 DEF Take
<1> QED
  BY <1>1, <1>2, <1>4, <1>5

\* The requests stay, and so does the one that is read.
SameSent == UNCHANGED <<sent, served>>

LEMMA SameRequest ==
  ASSUME SameSent
  PROVE  /\ Current' = Current /\ Len(served)' = Len(served) /\ Len(sent)' = Len(sent)
         /\ \A i : place' = Place(Len(served) + 1, i) => At(i)'
  BY DEF SameSent, Current, At, Place

LEMMA StillSent ==
  ASSUME ReaderInv, SameSent
  PROVE  OnlyWhatWasSent'
  BY DEF ReaderInv, SameSent, OnlyWhatWasSent

\* A connection that is closed has answered what it has.
LEMMA RefusedKeeps ==
  ASSUME ReaderInv, UNCHANGED sent, NEW status, Refuse(status)
  PROVE  ReaderInv'
<1>1. OnlyWhatWasSent'
  BY StillSent DEF Refuse, SameSent
<1>2. ReaderTypes'
  BY DEF ReaderInv, ReaderTypes, Refuse, perRequest
<1> QED
  BY <1>1, <1>2 DEF ReaderInv, Refuse

\* One token more of a sequence that is part of another.
LEMMA BeginsOn ==
  ASSUME NEW s \in Seq(Tokens), NEW t \in Seq(Tokens), Begins(s, t), Len(s) < Len(t),
         NEW x, x = t[Len(s) + 1]
  PROVE  /\ Append(s, x) \in Seq(Tokens) /\ Len(Append(s, x)) = Len(s) + 1
         /\ Begins(Append(s, x), t)
<1>1. Len(s) \in Nat /\ Len(t) \in Nat /\ x \in Tokens
  OBVIOUS
<1>2. /\ Append(s, x) \in Seq(Tokens) /\ Len(Append(s, x)) = Len(s) + 1
      /\ \A i \in 1 .. Len(s) : Append(s, x)[i] = s[i]
      /\ Append(s, x)[Len(s) + 1] = x
  BY <1>1, AppendProperties
<1>3. \A i \in 1 .. Len(s) + 1 : Append(s, x)[i] = t[i]
  BY <1>1, <1>2 DEF Begins
<1> QED
  BY <1>1, <1>2, <1>3 DEF Begins

LEMMA BeginsAll ==
  ASSUME NEW s \in Seq(Tokens), NEW t \in Seq(Tokens), Begins(s, t), Len(s) = Len(t)
  PROVE  s = t
  BY SeqEqual DEF Begins

LEMMA NothingBegins ==
  ASSUME NEW t \in Seq(Tokens)
  PROVE  Begins(<<>>, t) /\ <<>> \in Seq(Tokens) /\ Len(<<>>) = 0
  BY EmptySeq DEF Begins

-----------------------------------------------------------------------------
(* The lines of a request.                                                 *)

\* The first token of a message is a line.
LEMMA FirstToken ==
  ASSUME NEW m, Framed(m)
  PROVE  OnWire(m)[1] \in Tokens /\ OnWire(m)[1].is \in {"blank", "line"} /\ Len(OnWire(m)) >= 1
<1>1. m \in MessageShapes /\ m.line \in Tokens /\ m.stray \in Nat /\ m.line.is = "line"
  BY DEF Framed, MessageShapes
<1>2. Len(OnWire(m)) >= 1
  BY <1>1, OnWireIs, HeaderIs DEF Block
<1>3. CASE m.stray = 0
  BY <1>1, <1>2, <1>3, OnWireIs
<1>4. CASE m.stray # 0
  BY <1>1, <1>2, <1>4, OnWireIs, TokensAre
<1> QED
  BY <1>2, <1>3, <1>4

LEMMA LineKeeps ==
  ASSUME Reads, RequestLine
  PROVE  ReaderInv'
<1>1. phase = "line" /\ AtStart /\ ReaderTypes /\ UNCHANGED sent
  BY DEF RequestLine, TakeLine, Reads, ReaderInv
<1>2. PICK b \in Nat : place = <<Len(served) + 1, b + 1>> /\ (Arrived => b <= Current.stray)
  BY <1>1 DEF AtStart
<1>3. Arrived /\ Take
  BY DEF RequestLine, TakeLine
<1>4. Len(served) < Len(sent) /\ Len(served) \in Nat
  BY <1>1, <1>2, <1>3 DEF Arrived, ReaderTypes
<1>5. b <= Current.stray /\ Current.stray \in Nat /\ Current \in MessageShapes /\ Framed(Current)
  BY <1>2, <1>3, <1>4, CurrentIs
<1>6. Len(OnWire(Current)) \in Nat /\ Len(OnWire(Current)) >= Current.stray + 2
  BY <1>5, OnWireIs, HeaderIs DEF Block
<1>7. b + 1 \in 1 .. Len(OnWire(Current)) /\ At(b + 1)
  <2>1. b + 1 \in 1 .. Len(OnWire(Current))
    BY <1>5, <1>6
  <2> QED
    BY <1>2, <2>1 DEF At, Place, Current
<1>8. Token = OnWire(Current)[b + 1] /\ place' = Place(Len(served) + 1, b + 2)
  BY <1>3, <1>4, <1>7, TokenAt
<1>9. b < Current.stray => Token.is = "blank"
  BY <1>5, <1>8, OnWireIs, TokensAre
<1>10. b = Current.stray => Token.is = "line"
  BY <1>5, <1>8, OnWireIs DEF Framed
<1>11. fields = <<>> /\ body = <<>>
  BY <1>1 DEF AtStart
<1>12. CASE Token.is = "blank"
  <2>1. UNCHANGED <<phase, version, fields, body, left, served, replies>>
    BY <1>12 DEF RequestLine
  <2>2. b < Current.stray
    BY <1>5, <1>10, <1>12
  <2>3. place' = <<Len(served) + 1, (b + 1) + 1>>
    BY <1>5, <1>6, <1>8, <2>2 DEF Place, Current
  <2>4. SameSent /\ Current' = Current /\ b + 1 <= Current.stray /\ b + 1 \in Nat
    BY <1>1, <1>5, <2>1, <2>2, SameRequest DEF SameSent
  <2>5. AtStart'
    BY <1>11, <2>1, <2>3, <2>4 DEF AtStart
  <2>6. ReaderTypes'
    BY <1>1, <2>1 DEF ReaderTypes
  <2> QED
    BY <1>1, <2>1, <2>4, <2>5, <2>6, StillSent DEF ReaderInv, Reads
<1>13. CASE Token.is = "line" /\ Token.val \in Good
  <2>1. phase' = "fields" /\ UNCHANGED <<fields, body, left, served, replies>>
    BY <1>13 DEF RequestLine
  <2>2. b = Current.stray
    BY <1>5, <1>9, <1>13
  <2>3. SameSent /\ Current' = Current /\ Len(served)' = Len(served) /\ Len(sent)' = Len(sent)
        /\ \A i : place' = Place(Len(served) + 1, i) => At(i)'
    BY <1>1, <2>1, SameRequest DEF SameSent
  <2>4. Begins(fields', Current.fields) /\ Len(fields') = 0
    BY <1>4, <1>11, <2>1, CurrentIs, NothingBegins
  <2>5. At(Current.stray + 2 + Len(fields))'
    BY <1>5, <1>8, <2>2, <2>3, <2>4
  <2>6. InHead(Current)'
    BY <1>11, <2>1, <2>3, <2>4, <2>5 DEF InHead
  <2>7. ReaderTypes'
    BY <1>1, <2>1 DEF ReaderTypes
  <2> QED
    BY <1>4, <2>1, <2>3, <2>6, <2>7, StillSent DEF ReaderInv, Reads, InRequest
<1>14. CASE ~(Token.is = "blank") /\ ~(Token.is = "line" /\ Token.val \in Good)
  BY <1>1, <1>14, RefusedKeeps DEF RequestLine, Reads
<1> QED
  BY <1>12, <1>13, <1>14

LEMMA FieldKeeps ==
  ASSUME Reads, FieldLine
  PROVE  ReaderInv'
<1> DEFINE m == Current
<1>1. phase = "fields" /\ ReaderTypes /\ UNCHANGED sent /\ Len(served) < Len(sent) /\ Take
  BY DEF FieldLine, TakeLine, Reads, ReaderInv
<1>2. InHead(m)
  BY <1>1 DEF Reads, ReaderInv, InRequest
<1>3. body = <<>> /\ Begins(fields, m.fields) /\ At(m.stray + 2 + Len(fields))
  BY <1>1, <1>2 DEF InHead
<1>4. /\ Framed(m) /\ m \in MessageShapes /\ m.stray \in Nat /\ m.fields \in Seq(Tokens)
      /\ fields \in Seq(Tokens) /\ Len(fields) \in Nat /\ Len(m.fields) \in Nat /\ Len(fields) <= Len(m.fields)
  BY <1>1, <1>3, CurrentIs DEF ReaderTypes, Begins
<1>5. Len(OnWire(m)) \in Nat /\ Len(OnWire(m)) >= m.stray + Len(m.fields) + 2
  BY <1>4, OnWireIs, HeaderIs DEF Block
<1>6. m.stray + 2 + Len(fields) \in 1 .. Len(OnWire(m))
  BY <1>4, <1>5
<1>7. Token = OnWire(m)[m.stray + 2 + Len(fields)] /\ Token \in Tokens
      /\ place' = Place(Len(served) + 1, m.stray + 2 + Len(fields) + 1)
  BY <1>1, <1>3, <1>6, TokenAt
<1>8. ASSUME SameSent
      PROVE  /\ Current' = m /\ Len(served)' = Len(served) /\ Len(sent)' = Len(sent) /\ OnlyWhatWasSent'
             /\ \A i : place' = Place(Len(served) + 1, i) => At(i)'
  BY <1>8, SameRequest, StillSent DEF Reads
<1> HIDE DEF m
<1>9. ASSUME Len(fields) < Len(m.fields)
      PROVE  Token = m.fields[Len(fields) + 1] /\ Token.is # "blank"
  <2> DEFINE a == m.stray
             c == Len(fields)
             n == Len(m.fields)
  <2>0. a \in Nat /\ c \in Nat /\ n \in Nat /\ c < n
    BY <1>4, <1>9
  <2> HIDE DEF a, c, n
  <2>a. c + 1 \in 1 .. n /\ a + 1 + (c + 1) = a + 2 + c
    BY <2>0
  <2>1. Len(fields) + 1 \in 1 .. Len(m.fields) /\ m.stray + 1 + (Len(fields) + 1) = m.stray + 2 + Len(fields)
    BY <2>a DEF a, c, n
  <2>2. OnWire(m)[m.stray + 1 + (Len(fields) + 1)] = m.fields[Len(fields) + 1]
    BY <1>4, <2>1, OnWireIs
  <2>3. Token = m.fields[Len(fields) + 1]
    BY <1>7, <2>1, <2>2
  <2>4. \A k \in DOMAIN m.fields : m.fields[k].is # "blank"
    BY <1>4 DEF Framed
  <2>5. DOMAIN m.fields = 1 .. Len(m.fields)
    BY <1>4
  <2> QED
    BY <2>1, <2>3, <2>4, <2>5
<1>10. ASSUME Len(fields) = Len(m.fields)
       PROVE  Token.is = "blank" /\ fields = m.fields
  <2>1. m.stray + 2 + Len(fields) = Block(m)
    BY <1>4, <1>10 DEF Block
  <2> QED
    BY <1>3, <1>4, <1>7, <1>10, <2>1, OnWireIs, TokensAre, BeginsAll
<1>11. CASE Token.is = "blank"
  <2>1. phase' = "framing" /\ UNCHANGED <<version, fields, body, left, served, replies>>
    BY <1>11 DEF FieldLine
  <2>2. Len(fields) = Len(m.fields) /\ fields = m.fields
    BY <1>4, <1>9, <1>10, <1>11
  <2>3. SameSent /\ m.stray + 2 + Len(fields) + 1 = Block(m) + 1
    BY <1>1, <1>4, <2>1, <2>2 DEF SameSent, Block
  <2>4. InHead(m)'
    BY <1>3, <1>7, <1>8, <2>1, <2>2, <2>3 DEF InHead, m
  <2>5. ReaderTypes'
    BY <1>1, <2>1 DEF ReaderTypes
  <2> QED
    BY <1>1, <1>8, <2>1, <2>3, <2>4, <2>5 DEF ReaderInv, InRequest, m
<1>12. CASE Token.is = "field" /\ Token.val # "folded"
  <2>1. fields' = Append(fields, Token) /\ UNCHANGED <<phase, version, body, left, served, replies>>
    BY <1>12 DEF FieldLine
  <2>2. Len(fields) < Len(m.fields)
    BY <1>4, <1>10, <1>12
  <2>3. fields' \in Seq(Tokens) /\ Len(fields') = Len(fields) + 1 /\ Begins(fields', m.fields)
    <3>1. Token = m.fields[Len(fields) + 1]
      BY <1>9, <2>2
    <3>2. /\ Append(fields, Token) \in Seq(Tokens) /\ Len(Append(fields, Token)) = Len(fields) + 1
          /\ Begins(Append(fields, Token), m.fields)
      BY <1>3, <1>4, <2>2, <3>1, BeginsOn
    <3> QED
      BY <2>1, <3>2
  <2>4. SameSent /\ m.stray + 2 + Len(fields) + 1 = m.stray + 2 + Len(fields')
    <3>1. SameSent
      BY <1>1, <2>1 DEF SameSent
    <3>2. Len(fields') = Len(fields) + 1 /\ Len(fields) \in Nat /\ m.stray \in Nat
      BY <1>4, <2>3
    <3> QED
      BY <3>1, <3>2
  <2>5. InHead(m)'
    BY <1>1, <1>3, <1>7, <1>8, <2>1, <2>3, <2>4 DEF InHead, m
  <2>6. ReaderTypes'
    BY <1>1, <2>1, <2>3 DEF ReaderTypes
  <2> QED
    BY <1>1, <1>8, <2>1, <2>4, <2>5, <2>6 DEF ReaderInv, InRequest, m
<1>13. CASE ~(Token.is = "blank") /\ ~(Token.is = "field" /\ Token.val # "folded")
  BY <1>1, <1>13, RefusedKeeps DEF FieldLine, Reads
<1> QED
  BY <1>11, <1>12, <1>13

\* The first of the fields of some names, if there is one.
LEMMA FirstIs ==
  ASSUME fields \in Seq(Tokens), NEW names
  PROVE  \/ /\ \A k \in DOMAIN fields : fields[k].val \notin names
            /\ First(names) = [val |-> "none", n |-> 0]
         \/ \E k \in DOMAIN fields : fields[k].val \in names /\ First(names) = fields[k]
<1> DEFINE known == {k \in DOMAIN fields : fields[k].val \in names}
<1>1. First(names) = IF known = {} THEN [val |-> "none", n |-> 0] ELSE fields[Min(known)]
  BY DEF First
<1>2. known \in SUBSET Nat
  BY DEF known
<1>3. CASE known = {}
  BY <1>1, <1>3
<1>4. CASE known # {}
  <2> HIDE DEF known
  <2>1. Min(known) \in known
    BY <1>2, <1>4, MinIsLeast
  <2> QED
    BY <1>1, <1>4, <2>1 DEF known
<1> QED
  BY <1>3, <1>4

\* A field has a number, and so has the first one of some names.
LEMMA FieldsHaveNumbers ==
  ASSUME fields \in Seq(Tokens)
  PROVE  /\ \A k \in DOMAIN fields : fields[k].n \in Nat
         /\ \A names : First(names).n \in Nat
<1>1. \A tok \in Tokens : tok.n \in Nat
  BY DEF Tokens
<1>2. \A k \in DOMAIN fields : fields[k] \in Tokens
  OBVIOUS
<1>3. \A k \in DOMAIN fields : fields[k].n \in Nat
  BY <1>1, <1>2
<1>4. ASSUME NEW names PROVE First(names).n \in Nat
  <2>1. CASE First(names) = [val |-> "none", n |-> 0]
    BY <2>1
  <2>2. CASE \E k \in DOMAIN fields : fields[k].val \in names /\ First(names) = fields[k]
    BY <1>3, <2>2
  <2> QED
    BY <2>1, <2>2, FirstIs
<1> QED
  BY <1>3, <1>4

\* When the reader goes on, it has understood how the body is sent.
LEMMA FrameUnderstood ==
  ASSUME Reads, Frame, phase' # "closed"
  PROVE  /\ phase' \in {"bytes", "size"} /\ left' \in Nat
         /\ phase' = "bytes" => ~Current.chunks /\ left' = Len(Current.body)
         /\ phase' = "size" /\ ~Current.chunks => Current.body = <<>> \/ Current.body[1].is # "size"
<1> DEFINE m == Current
           coded == Named(m, {"chunked", "coding"}) # {}
           sized == Named(m, {"length"})
           faulty == Named(m, {"bad length"}) # {}
           f == First({"length"})
<1>1. phase = "framing" /\ ReaderTypes /\ Len(served) < Len(sent) /\ fields = m.fields
  BY DEF Frame, Reads, ReaderInv, InRequest, InHead
<1>2. Framing(m) /\ m.chunks \in BOOLEAN /\ fields \in Seq(Tokens) /\ m.body \in Seq(Tokens)
  BY <1>1, CurrentIs DEF Framed, ReaderTypes
<1>3. /\ left' = f.n /\ ~BothWays /\ Coding # "coding" /\ ~(Coding = "none" /\ NoLength)
      /\ phase' = IF Coding = "chunked" THEN "size" ELSE "bytes"
  BY DEF Frame, f
<1>4. (Coding = "none" /\ ~coded) \/ (Coding \in {"chunked", "coding"} /\ coded)
  <2>1. CASE /\ \A k \in DOMAIN fields : fields[k].val \notin {"chunked", "coding"}
             /\ First({"chunked", "coding"}) = [val |-> "none", n |-> 0]
    BY <1>1, <2>1 DEF Coding, Named
  <2>2. ASSUME NEW k \in DOMAIN fields, fields[k].val \in {"chunked", "coding"},
               First({"chunked", "coding"}) = fields[k]
        PROVE  Coding \in {"chunked", "coding"} /\ coded
    BY <1>1, <2>2 DEF Coding, Named
  <2> QED
    BY <1>2, <2>1, <2>2, FirstIs
<1>5. sized = {k \in DOMAIN fields : fields[k].val = "length"}
  BY <1>1 DEF Named
<1>6. Has("bad length") <=> faulty
  BY <1>1 DEF Has, Named
<1>7. Lengths = {fields[k].n : k \in sized}
  BY <1>5 DEF Lengths
<1>8. (sized = {} /\ f.n = 0) \/ (\E k \in sized : f.n = fields[k].n)
  <2>1. CASE /\ \A k \in DOMAIN fields : fields[k].val \notin {"length"}
             /\ First({"length"}) = [val |-> "none", n |-> 0]
    BY <1>5, <2>1
  <2>2. ASSUME NEW k \in DOMAIN fields, fields[k].val \in {"length"}, First({"length"}) = fields[k]
        PROVE  \E i \in sized : f.n = fields[i].n
    BY <1>5, <2>2
  <2> QED
    BY <1>2, <2>1, <2>2, FirstIs
<1>9. f.n \in Nat
  BY <1>2, FieldsHaveNumbers
<1> HIDE DEF m, coded, sized, faulty, f
<1>10. /\ \/ m.chunks /\ coded
          \/ ~m.chunks /\ coded /\ (sized # {} \/ faulty)
          \/ ~m.chunks /\ coded /\ (m.body = <<>> \/ m.body[1].is # "size")
          \/ ~m.chunks /\ ~coded /\ (faulty \/ \E i, j \in sized : m.fields[i].n # m.fields[j].n)
          \/ /\ ~m.chunks /\ ~coded
             /\ \A j \in sized : m.fields[j].n = Len(m.body)
             /\ sized = {} => m.body = <<>>
  BY <1>2 DEF Framing, coded, sized, faulty
<1>11. CASE Coding = "none"
  <2>1. ~coded /\ ~faulty /\ phase' = "bytes"
    BY <1>3, <1>4, <1>6, <1>11 DEF NoLength
  <2>2. \A i, j \in sized : m.fields[i].n = m.fields[j].n
    BY <1>1, <1>3, <1>7, <1>11 DEF NoLength
  <2>3. /\ ~m.chunks /\ \A j \in sized : m.fields[j].n = Len(m.body)
        /\ sized = {} => m.body = <<>>
    BY <1>10, <2>1, <2>2
  <2>4. f.n = Len(m.body)
    <3>1. CASE sized = {}
      BY <1>8, <2>3, <3>1, EmptySeq
    <3>2. CASE sized # {}
      BY <1>1, <1>8, <2>3, <3>2
    <3> QED
      BY <3>1, <3>2
  <2> QED
    BY <1>3, <1>9, <2>1, <2>3, <2>4 DEF m
<1>12. CASE Coding \in {"chunked", "coding"}
  <2>1. coded /\ phase' = "size" /\ Lengths = {} /\ ~faulty
    BY <1>3, <1>4, <1>6, <1>12 DEF BothWays
  <2>2. sized = {}
    BY <1>7, <2>1
  <2> QED
    BY <1>3, <1>9, <1>10, <2>1, <2>2 DEF m
<1> QED
  BY <1>4, <1>11, <1>12

LEMMA FrameKeeps ==
  ASSUME Reads, Frame
  PROVE  ReaderInv'
<1>1. phase = "framing" /\ ReaderTypes /\ Len(served) < Len(sent) /\ SameSent
      /\ UNCHANGED <<fields, body, place>>
  BY DEF Frame, Reads, ReaderInv, SameSent
<1>2. body = <<>> /\ At(Block(Current) + 1)
  BY <1>1 DEF Reads, ReaderInv, InRequest, InHead
<1>3. /\ Current' = Current /\ Len(served)' = Len(served) /\ Len(sent)' = Len(sent) /\ OnlyWhatWasSent'
      /\ At(Block(Current) + 1)'
  BY <1>1, <1>2, SameRequest, StillSent DEF Reads, At
<1>4. Current.body \in Seq(Tokens) /\ Block(Current) \in Nat /\ Len(Current.body) \in Nat
  BY <1>1, CurrentIs, HeaderIs
<1>5. Begins(<<>>, Current.body) /\ Len(<<>>) = 0
  BY <1>4, NothingBegins
<1>6. CASE phase' = "closed"
  <2>1. left' \in Nat
    <3>1. First({"length"}).n \in Nat
      BY <1>1, FieldsHaveNumbers DEF ReaderTypes
    <3> QED
      BY <3>1 DEF Frame
  <2> QED
    BY <1>1, <1>3, <1>6, <2>1 DEF ReaderInv, ReaderTypes, SameSent
<1>7. CASE phase' # "closed"
  <2>1. /\ phase' \in {"bytes", "size"} /\ left' \in Nat
        /\ phase' = "bytes" => ~Current.chunks /\ left' = Len(Current.body)
        /\ phase' = "size" /\ ~Current.chunks => Current.body = <<>> \/ Current.body[1].is # "size"
    BY <1>7, FrameUnderstood
  <2>2. body' = <<>> /\ Len(body') = 0 /\ Begins(body', Current.body)
    BY <1>1, <1>2, <1>5
  <2>3. phase' = "bytes" => InBytes(Current)'
    <3>1. Block(Current) + 1 + 0 = Block(Current) + 1 /\ Len(Current.body) - 0 = Len(Current.body)
      BY <1>4
    <3> QED
      BY <1>3, <2>1, <2>2, <3>1 DEF InBytes
  <2>4. phase' = "size" => InSize(Current)'
    <3>1. Block(Current) + 3 * 0 + 1 = Block(Current) + 1
      BY <1>4
    <3> QED
      BY <1>3, <2>1, <2>2, <3>1 DEF InSize
  <2>5. ReaderTypes'
    BY <1>1, <2>1 DEF ReaderTypes, SameSent
  <2> QED
    BY <1>1, <1>3, <2>1, <2>2, <2>3, <2>4, <2>5 DEF ReaderInv, InRequest
<1> QED
  BY <1>6, <1>7

-----------------------------------------------------------------------------
(* The body of a request.                                                  *)

LEMMA BytesKeep ==
  ASSUME Reads, BodyByte, phase = "bytes"
  PROVE  ReaderInv'
<1> DEFINE m == Current
<1>1. /\ ReaderTypes /\ Len(served) < Len(sent) /\ left > 0 /\ Take /\ SameSent /\ left' = left - 1
      /\ body' = Append(body, Token) /\ UNCHANGED <<phase, fields>>
  BY DEF BodyByte, Reads, ReaderInv, SameSent
<1>2. InBytes(m) /\ Begins(body, m.body)
  BY DEF Reads, ReaderInv, InRequest
<1>3. ~m.chunks /\ left = Len(m.body) - Len(body) /\ At(Block(m) + 1 + Len(body))
  BY <1>2 DEF InBytes
<1>4. /\ m \in MessageShapes /\ m.body \in Seq(Tokens) /\ Len(m.body) \in Nat
      /\ body \in Seq(Tokens) /\ Len(body) \in Nat /\ left \in Nat /\ Block(m) \in Nat
  BY <1>1, CurrentIs, HeaderIs DEF ReaderTypes
<1>5. Len(OnWire(m)) = Block(m) + Len(m.body) /\ \A j \in 1 .. Len(m.body) : OnWire(m)[Block(m) + j] = m.body[j]
  BY <1>3, <1>4, OnWireIs
<1>6. /\ Current' = m /\ Len(served)' = Len(served) /\ Len(sent)' = Len(sent) /\ OnlyWhatWasSent'
      /\ \A i : place' = Place(Len(served) + 1, i) => At(i)'
  BY <1>1, SameRequest, StillSent DEF Reads
<1>7. /\ Len(body) < Len(m.body) /\ Len(body) + 1 \in 1 .. Len(m.body)
      /\ Block(m) + 1 + Len(body) \in 1 .. Len(OnWire(m)) /\ Block(m) + 1 + Len(body) = Block(m) + (Len(body) + 1)
  <2>1. Len(body) < Len(m.body)
    BY <1>4, <1>1, <1>3
  <2> HIDE DEF m
  <2>2. Len(body) + 1 \in 1 .. Len(m.body)
    BY <1>4, <2>1
  <2>3. Block(m) + 1 + Len(body) = Block(m) + (Len(body) + 1)
    BY <1>4
  <2>4. Block(m) + 1 + Len(body) \in 1 .. Len(OnWire(m))
    BY <1>4, <1>5, <2>1
  <2> QED
    BY <2>1, <2>2, <2>3, <2>4
<1>8. Token = OnWire(m)[Block(m) + 1 + Len(body)] /\ place' = Place(Len(served) + 1, Block(m) + 1 + Len(body) + 1)
  BY <1>1, <1>3, <1>7, TokenAt
<1> HIDE DEF m
<1>9. Token = m.body[Len(body) + 1]
  BY <1>5, <1>7, <1>8
<1>10. body' \in Seq(Tokens) /\ Len(body') = Len(body) + 1 /\ Begins(body', m.body)
  <2>1. /\ Append(body, Token) \in Seq(Tokens) /\ Len(Append(body, Token)) = Len(body) + 1
        /\ Begins(Append(body, Token), m.body)
    BY <1>2, <1>4, <1>7, <1>9, BeginsOn
  <2> QED
    BY <1>1, <2>1
<1>11. /\ left' \in Nat /\ left' = Len(m.body) - Len(body')
       /\ Block(m) + 1 + Len(body) + 1 = Block(m) + 1 + Len(body')
  <2>1. Block(m) + 1 + Len(body) + 1 = Block(m) + 1 + Len(body')
    BY <1>4, <1>10
  <2>2. left' = left - 1 /\ left = Len(m.body) - Len(body) /\ left \in Nat /\ left > 0
    BY <1>1, <1>3, <1>4
  <2>3. left' \in Nat /\ left' = Len(m.body) - Len(body')
    BY <1>4, <1>10, <2>2
  <2> QED
    BY <2>1, <2>3
<1>12. At(Block(m) + 1 + Len(body))'
  BY <1>6, <1>8, <1>11 DEF m
<1>13. InBytes(m)'
  BY <1>3, <1>6, <1>11, <1>12 DEF InBytes, m
<1>14. ReaderTypes'
  BY <1>1, <1>10, <1>11 DEF ReaderTypes, SameSent
<1>15. phase' = "bytes" /\ InRequest(Current)'
  BY <1>1, <1>6, <1>10, <1>13 DEF InRequest, m
<1> QED
  BY <1>1, <1>6, <1>14, <1>15 DEF ReaderInv

LEMMA ChunkByteKeeps ==
  ASSUME Reads, BodyByte, phase = "chunk"
  PROVE  ReaderInv'
<1> DEFINE m == Current
           i == Block(m) + 3 * Len(body) + 2
<1>1. /\ ReaderTypes /\ Len(served) < Len(sent) /\ left > 0 /\ Take /\ SameSent /\ left' = left - 1
      /\ body' = Append(body, Token) /\ UNCHANGED <<phase, fields>>
  BY DEF BodyByte, Reads, ReaderInv, SameSent
<1>2. InChunk(m) /\ Begins(body, m.body)
  BY DEF Reads, ReaderInv, InRequest
<1>3. m.chunks /\ left = 1 /\ Len(body) < Len(m.body) /\ At(i)
  BY <1>1, <1>2 DEF InChunk
<1>4. /\ m \in MessageShapes /\ m.body \in Seq(Tokens) /\ Len(m.body) \in Nat /\ m.trailer \in Seq(Tokens)
      /\ Len(m.trailer) \in Nat /\ body \in Seq(Tokens) /\ Len(body) \in Nat /\ Block(m) \in Nat
  BY <1>1, CurrentIs, HeaderIs DEF ReaderTypes
<1>5. /\ Len(OnWire(m)) = Block(m) + 3 * Len(m.body) + Len(m.trailer) + 2
      /\ \A j \in 1 .. Len(m.body) : OnWire(m)[Block(m) + 3 * (j - 1) + 2] = m.body[j]
  BY <1>3, <1>4, OnWireIs
<1>6. /\ Current' = m /\ Len(served)' = Len(served) /\ Len(sent)' = Len(sent) /\ OnlyWhatWasSent'
      /\ \A k : place' = Place(Len(served) + 1, k) => At(k)'
  BY <1>1, SameRequest, StillSent DEF Reads
<1>7. /\ Len(body) + 1 \in 1 .. Len(m.body) /\ i \in 1 .. Len(OnWire(m))
      /\ i = Block(m) + 3 * ((Len(body) + 1) - 1) + 2
  <2> DEFINE B == Block(m)
             n == Len(m.body)
             t == Len(m.trailer)
             c == Len(body)
             l == Len(OnWire(m))
  <2>1. B \in Nat /\ n \in Nat /\ t \in Nat /\ c \in Nat /\ c < n /\ l = B + 3 * n + t + 2
    BY <1>3, <1>4, <1>5
  <2>2. i = B + 3 * c + 2
    OBVIOUS
  <2> HIDE DEF B, n, t, c, l, i
  <2>3. c + 1 \in 1 .. n /\ i \in 1 .. l /\ i = B + 3 * ((c + 1) - 1) + 2
    BY <2>1, <2>2
  <2> QED
    BY <2>3 DEF B, n, c, l
<1>8. Token = OnWire(m)[i] /\ place' = Place(Len(served) + 1, i + 1)
  BY <1>1, <1>3, <1>7, TokenAt
<1> HIDE DEF m
<1>9. Token = m.body[Len(body) + 1]
  BY <1>5, <1>7, <1>8
<1>10. body' \in Seq(Tokens) /\ Len(body') = Len(body) + 1 /\ Begins(body', m.body)
  <2>1. /\ Append(body, Token) \in Seq(Tokens) /\ Len(Append(body, Token)) = Len(body) + 1
        /\ Begins(Append(body, Token), m.body)
    BY <1>2, <1>3, <1>4, <1>9, BeginsOn
  <2> QED
    BY <1>1, <2>1
<1>11. i + 1 = Block(m) + 3 * Len(body') /\ left' = 0 /\ Len(body') > 0
  BY <1>1, <1>3, <1>4, <1>10
<1>12. At(Block(m) + 3 * Len(body))'
  BY <1>6, <1>8, <1>11 DEF m
<1>13. InChunk(m)'
  BY <1>3, <1>6, <1>11, <1>12 DEF InChunk, m
<1>14. ReaderTypes'
  BY <1>1, <1>10, <1>11 DEF ReaderTypes, SameSent
<1>15. phase' = "chunk" /\ InRequest(Current)'
  BY <1>1, <1>6, <1>10, <1>13 DEF InRequest, m
<1> QED
  BY <1>1, <1>6, <1>14, <1>15 DEF ReaderInv

\* All bytes there are to come have come.
LEMMA BodyDoneKeeps ==
  ASSUME Reads, BodyDone
  PROVE  ReaderInv'
<1> DEFINE m == Current
<1>1. /\ ReaderTypes /\ Len(served) < Len(sent) /\ phase = "bytes" /\ left = 0 /\ phase' = "serve" /\ SameSent
      /\ UNCHANGED <<body, fields, left, place>>
  BY DEF BodyDone, Reads, ReaderInv, SameSent, perRequest
<1>2. InBytes(m) /\ Begins(body, m.body)
  BY <1>1 DEF Reads, ReaderInv, InRequest
<1>3. ~m.chunks /\ left = Len(m.body) - Len(body) /\ At(Block(m) + 1 + Len(body))
  BY <1>2 DEF InBytes
<1>4. /\ m \in MessageShapes /\ m.body \in Seq(Tokens) /\ Len(m.body) \in Nat
      /\ body \in Seq(Tokens) /\ Len(body) \in Nat /\ Block(m) \in Nat /\ Len(served) \in Nat
  BY <1>1, CurrentIs, HeaderIs DEF ReaderTypes
<1>5. Len(OnWire(m)) = Block(m) + Len(m.body)
  BY <1>3, <1>4, OnWireIs
<1>6. Len(body) = Len(m.body) /\ Block(m) + 1 + Len(body) > Len(OnWire(m)) /\ Len(served) + 1 + 1 = Len(served) + 2
  BY <1>1, <1>3, <1>4, <1>5
<1>7. body = m.body
  BY <1>2, <1>4, <1>6, BeginsAll
<1>8. place = <<Len(served) + 2, 1>>
  BY <1>3, <1>6 DEF At, Place, Current
<1>9. Current' = m /\ Len(served)' = Len(served) /\ Len(sent)' = Len(sent) /\ OnlyWhatWasSent'
  BY <1>1, SameRequest, StillSent DEF Reads
<1>10. ReaderTypes'
  BY <1>1 DEF ReaderTypes, SameSent
<1>11. InRequest(Current)'
  BY <1>1, <1>7, <1>8, <1>9 DEF InRequest
<1> QED
  BY <1>1, <1>9, <1>10, <1>11 DEF ReaderInv

\* Where a body is sent as it is, no chunk size is found.
LEMMA NoChunkFound ==
  ASSUME Reads, phase = "size", Arrived, ~Current.chunks
  PROVE  Token.is # "size"
<1> DEFINE m == Current
           k == Len(served) + 1
<1>1. InSize(m) /\ ReaderTypes /\ Len(served) < Len(sent)
  BY DEF Reads, ReaderInv, InRequest
<1>2. At(Block(m) + 1) /\ (m.body = <<>> \/ m.body[1].is # "size")
  BY <1>1 DEF InSize
<1>3. /\ m \in MessageShapes /\ m.body \in Seq(Tokens) /\ Len(m.body) \in Nat /\ Block(m) \in Nat
      /\ Len(sent) \in Nat /\ k \in Nat /\ k >= 1
  BY <1>1, CurrentIs, HeaderIs DEF ReaderTypes
<1>4. Len(OnWire(m)) = Block(m) + Len(m.body) /\ \A j \in 1 .. Len(m.body) : OnWire(m)[Block(m) + j] = m.body[j]
  BY <1>3, OnWireIs
<1>5. CASE m.body = <<>>
  <2>1. Block(m) + 1 > Len(OnWire(m))
    BY <1>3, <1>4, <1>5, EmptySeq
  <2>2. place = <<k + 1, 1>>
    BY <1>2, <2>1 DEF At, Place, Current
  <2>3. place[1] = k + 1 /\ place[2] = 1
    BY <2>2
  <2>4. k + 1 \in 1 .. Len(sent)
    BY <1>3, <2>3 DEF Arrived
  <2>5. sent[k + 1] \in Messages
    BY <1>1, <2>4 DEF ReaderTypes
  <2>6. Framed(sent[k + 1])
    BY <2>5 DEF Reads, WellFramed
  <2>7. OnWire(sent[k + 1])[1].is \in {"blank", "line"}
    BY <2>6, FirstToken
  <2> QED
    BY <2>3, <2>7 DEF Token
<1>6. CASE m.body # <<>>
  <2>1. Len(m.body) >= 1 /\ 1 \in 1 .. Len(m.body)
    BY <1>3, <1>6, EmptySeq
  <2>2. Block(m) + 1 \in 1 .. Len(OnWire(m))
    BY <1>3, <1>4, <2>1
  <2>3. Token = OnWire(m)[Block(m) + 1]
    BY <1>1, <1>2, <2>2, TokenAt
  <2> QED
    BY <1>2, <1>4, <1>6, <2>1, <2>3
<1> QED
  BY <1>5, <1>6

\* A chunk size that is taken is the size of the next chunk, or the end of the body.
LEMMA SizeTaken ==
  ASSUME Reads, phase = "size", Take, Token.is = "size"
  PROVE  /\ Current.chunks
         /\ \/ /\ Token.n = 1 /\ Len(body) < Len(Current.body)
               /\ place' = Place(Len(served) + 1, Block(Current) + 3 * Len(body) + 2)
            \/ /\ Token.n = 0 /\ body = Current.body
               /\ place' = Place(Len(served) + 1, Block(Current) + 3 * Len(body) + 2)
<1> DEFINE m == Current
           i == Block(m) + 3 * Len(body) + 1
<1>1. InSize(m) /\ ReaderTypes /\ Len(served) < Len(sent) /\ Begins(body, m.body)
  BY DEF Reads, ReaderInv, InRequest
<1>2. m.chunks
  BY NoChunkFound DEF Take
<1>3. At(i)
  BY <1>1, <1>2 DEF InSize
<1>4. /\ m \in MessageShapes /\ m.body \in Seq(Tokens) /\ Len(m.body) \in Nat /\ m.trailer \in Seq(Tokens)
      /\ Len(m.trailer) \in Nat /\ body \in Seq(Tokens) /\ Len(body) \in Nat /\ Block(m) \in Nat
      /\ Len(body) <= Len(m.body)
  BY <1>1, CurrentIs, HeaderIs DEF ReaderTypes, Begins
<1>5. /\ Len(OnWire(m)) = Block(m) + 3 * Len(m.body) + Len(m.trailer) + 2
      /\ \A j \in 1 .. Len(m.body) : OnWire(m)[Block(m) + 3 * (j - 1) + 1] = Size(1)
      /\ OnWire(m)[Block(m) + 3 * Len(m.body) + 1] = Size(0)
  BY <1>2, <1>4, OnWireIs
<1>6. i \in 1 .. Len(OnWire(m)) /\ i + 1 = Block(m) + 3 * Len(body) + 2
  <2> HIDE DEF m
  <2> DEFINE B == Block(m)
             n == Len(m.body)
             t == Len(m.trailer)
             c == Len(body)
  <2>1. B \in Nat /\ n \in Nat /\ t \in Nat /\ c \in Nat /\ c <= n /\ Len(OnWire(m)) = B + 3 * n + t + 2
    BY <1>4, <1>5
  <2> HIDE DEF B, n, t, c
  <2>2. B + 3 * c + 1 \in 1 .. B + 3 * n + t + 2 /\ B + 3 * c + 1 + 1 = B + 3 * c + 2
    BY <2>1
  <2> QED
    BY <2>1, <2>2 DEF B, n, t, c
<1>7. Token = OnWire(m)[i] /\ place' = Place(Len(served) + 1, i + 1)
  BY <1>1, <1>3, <1>6, TokenAt
<1> HIDE DEF m
<1>8. CASE Len(body) < Len(m.body)
  <2>1. Len(body) + 1 \in 1 .. Len(m.body) /\ i = Block(m) + 3 * ((Len(body) + 1) - 1) + 1
    BY <1>4, <1>8
  <2>2. Token = Size(1)
    BY <1>5, <1>7, <2>1
  <2> QED
    BY <1>2, <1>6, <1>7, <1>8, <2>2, TokensAre DEF m
<1>9. CASE Len(body) = Len(m.body)
  <2>1. Token = Size(0)
    BY <1>5, <1>7, <1>9
  <2>2. body = m.body
    BY <1>1, <1>4, <1>9, BeginsAll DEF m
  <2> QED
    BY <1>2, <1>6, <1>7, <2>1, <2>2, TokensAre DEF m
<1> QED
  BY <1>4, <1>8, <1>9

LEMMA ChunkSizeKeeps ==
  ASSUME Reads, ChunkSize
  PROVE  ReaderInv'
<1> DEFINE m == Current
<1>1. phase = "size" /\ ReaderTypes /\ Len(served) < Len(sent) /\ UNCHANGED sent /\ Begins(body, m.body)
  BY DEF ChunkSize, Reads, ReaderInv, InRequest
<1>2. CASE \E status : Refuse(status)
  BY <1>1, <1>2, RefusedKeeps DEF Reads
<1>3. CASE ~ \E status : Refuse(status)
  <2>1. /\ Take /\ Token.is = "size" /\ SameSent /\ UNCHANGED <<fields, body>>
        /\ \/ Token.n = 0 /\ phase' = "trailer" /\ left' = left
           \/ Token.n # 0 /\ phase' = "chunk" /\ left' = Token.n
    BY <1>3 DEF ChunkSize, SameSent, perRequest
  <2>2. /\ m.chunks
        /\ \/ /\ Token.n = 1 /\ Len(body) < Len(m.body)
              /\ place' = Place(Len(served) + 1, Block(m) + 3 * Len(body) + 2)
           \/ /\ Token.n = 0 /\ body = m.body
              /\ place' = Place(Len(served) + 1, Block(m) + 3 * Len(body) + 2)
    BY <1>1, <2>1, SizeTaken
  <2>3. /\ Current' = m /\ Len(served)' = Len(served) /\ Len(sent)' = Len(sent) /\ OnlyWhatWasSent'
        /\ \A k : place' = Place(Len(served) + 1, k) => At(k)'
    BY <2>1, SameRequest, StillSent DEF Reads
  <2>4. Len(m.trailer) \in Nat /\ Block(m) \in Nat /\ Len(m.body) \in Nat
    BY <1>1, CurrentIs, HeaderIs
  <2> HIDE DEF m
  <2>5. CASE Token.n = 0
    <3>1. phase' = "trailer" /\ body' = m.body /\ left' = left
          /\ place' = Place(Len(served) + 1, Block(m) + 3 * Len(m.body) + 2)
      BY <2>1, <2>2, <2>5
    <3>2. 0 \in 0 .. Len(m.trailer) /\ Block(m) + 3 * Len(m.body) + 2 + 0 = Block(m) + 3 * Len(m.body) + 2
      BY <2>4
    <3>3. At(Block(m) + 3 * Len(m.body) + 2)'
      BY <2>3, <3>1 DEF m
    <3>4. InTrailer(m)'
      BY <2>2, <2>3, <3>1, <3>2, <3>3 DEF InTrailer, m
    <3>5. ReaderTypes'
      BY <1>1, <2>1, <3>1 DEF ReaderTypes, SameSent
    <3> QED
      BY <1>1, <2>3, <3>1, <3>4, <3>5 DEF ReaderInv, InRequest, m
  <2>6. CASE Token.n # 0
    <3>1. /\ phase' = "chunk" /\ left' = 1 /\ Len(body') < Len(m.body) /\ body' = body
          /\ place' = Place(Len(served) + 1, Block(m) + 3 * Len(body') + 2)
      BY <2>1, <2>2, <2>6
    <3>2. At(Block(m) + 3 * Len(body) + 2)'
      BY <2>3, <3>1 DEF m
    <3>3. InChunk(m)'
      BY <2>2, <2>3, <3>1, <3>2 DEF InChunk, m
    <3>4. ReaderTypes'
      BY <1>1, <2>1, <3>1 DEF ReaderTypes, SameSent
    <3> QED
      BY <1>1, <2>3, <3>1, <3>3, <3>4 DEF ReaderInv, InRequest, m
  <2> QED
    BY <2>5, <2>6
<1> QED
  BY <1>2, <1>3

LEMMA ChunkEndKeeps ==
  ASSUME Reads, ChunkEnd
  PROVE  ReaderInv'
<1> DEFINE m == Current
           i == Block(m) + 3 * Len(body)
<1>1. /\ phase = "chunk" /\ left = 0 /\ ReaderTypes /\ Len(served) < Len(sent) /\ UNCHANGED sent
      /\ Begins(body, m.body) /\ Take
  BY DEF ChunkEnd, Reads, ReaderInv, InRequest
<1>2. m.chunks /\ At(i)
  BY <1>1 DEF Reads, ReaderInv, InRequest, InChunk
<1>3. Refuse(400) \/ (phase' = "size" /\ UNCHANGED <<perRequest, served>>)
  BY DEF ChunkEnd
<1>4. CASE Refuse(400)
  BY <1>1, <1>4, RefusedKeeps DEF Reads
<1>5. CASE phase' = "size" /\ UNCHANGED <<perRequest, served>>
  <2>1. SameSent /\ UNCHANGED <<fields, body, left>>
    BY <1>1, <1>5 DEF SameSent, perRequest
  <2>2. /\ m \in MessageShapes /\ Len(m.body) \in Nat /\ m.trailer \in Seq(Tokens)
        /\ Len(m.trailer) \in Nat /\ Len(body) \in Nat /\ Block(m) \in Nat
        /\ Len(body) <= Len(m.body) /\ Block(m) >= 1
    <3>1. m \in MessageShapes /\ m.body \in Seq(Tokens) /\ m.trailer \in Seq(Tokens) /\ body \in Seq(Tokens)
      BY <1>1, CurrentIs DEF ReaderTypes
    <3>2. Block(m) \in Nat /\ Block(m) >= 1
      BY <3>1, HeaderIs DEF Block
    <3> QED
      BY <1>1, <3>1, <3>2 DEF Begins
  <2>3. Len(OnWire(m)) = Block(m) + 3 * Len(m.body) + Len(m.trailer) + 2
    BY <1>2, <2>2, OnWireIs
  <2>4. i \in 1 .. Len(OnWire(m)) /\ i + 1 = Block(m) + 3 * Len(body) + 1
    <3> DEFINE B == Block(m)
               n == Len(m.body)
               t == Len(m.trailer)
               c == Len(body)
               l == Len(OnWire(m))
    <3>1. /\ B \in Nat /\ B >= 1 /\ n \in Nat /\ t \in Nat /\ c \in Nat /\ c <= n
          /\ l = B + 3 * n + t + 2
      BY <2>2, <2>3
    <3> HIDE DEF B, n, t, c, l
    <3>2. B + 3 * c \in 1 .. l
      BY <3>1
    <3> QED
      BY <3>2 DEF B, c, l
  <2>5. place' = Place(Len(served) + 1, i + 1)
    BY <1>1, <1>2, <2>4, TokenAt
  <2>6. /\ Current' = m /\ Len(served)' = Len(served) /\ Len(sent)' = Len(sent) /\ OnlyWhatWasSent'
        /\ \A k : place' = Place(Len(served) + 1, k) => At(k)'
    BY <2>1, SameRequest, StillSent DEF Reads
  <2> HIDE DEF m
  <2>7. At(Block(m) + 3 * Len(body) + 1)'
    BY <2>1, <2>4, <2>5, <2>6 DEF m
  <2>8. InSize(m)' /\ Begins(body, m.body)'
    BY <1>1, <1>2, <2>1, <2>6, <2>7 DEF InSize, m
  <2>9. ReaderTypes'
    BY <1>1, <1>5, <2>1 DEF ReaderTypes, SameSent
  <2> QED
    BY <1>1, <1>5, <2>6, <2>8, <2>9 DEF ReaderInv, InRequest, m
<1> QED
  BY <1>3, <1>4, <1>5

LEMMA TrailerKeeps ==
  ASSUME Reads, Trailer
  PROVE  ReaderInv'
<1> DEFINE m == Current
           e == Block(m) + 3 * Len(m.body) + 2
<1>1. /\ phase = "trailer" /\ ReaderTypes /\ Len(served) < Len(sent) /\ Take /\ SameSent
      /\ phase' = (IF Token.is = "blank" THEN "serve" ELSE phase) /\ UNCHANGED <<fields, body, left>>
  BY DEF Trailer, TakeLine, Reads, ReaderInv, SameSent
<1>2. m.chunks /\ body = m.body /\ \E j \in 0 .. Len(m.trailer) : At(e + j)
  BY <1>1 DEF Reads, ReaderInv, InRequest, InTrailer
<1>3. PICK j \in 0 .. Len(m.trailer) : At(e + j)
  BY <1>2
<1>4. /\ Framed(m) /\ m \in MessageShapes /\ Len(m.body) \in Nat /\ Len(m.trailer) \in Nat /\ Block(m) \in Nat
      /\ Len(served) \in Nat /\ e \in Nat /\ j \in Nat /\ j <= Len(m.trailer) /\ e >= 1
  <2>1. Framed(m) /\ m \in MessageShapes /\ m.body \in Seq(Tokens) /\ m.trailer \in Seq(Tokens) /\ Len(served) \in Nat
    BY <1>1, CurrentIs
  <2>2. Len(m.body) \in Nat /\ Len(m.trailer) \in Nat /\ Block(m) \in Nat
    BY <2>1, HeaderIs
  <2> HIDE DEF m
  <2> QED
    BY <1>3, <2>1, <2>2
<1>5. /\ Len(OnWire(m)) = Block(m) + 3 * Len(m.body) + Len(m.trailer) + 2
      /\ \A k \in 1 .. Len(m.trailer) : OnWire(m)[Block(m) + 3 * Len(m.body) + 1 + k] = m.trailer[k]
      /\ OnWire(m)[Len(OnWire(m))] = Blank
  BY <1>2, <1>4, OnWireIs
<1>6. /\ Current' = m /\ Len(served)' = Len(served) /\ Len(sent)' = Len(sent) /\ OnlyWhatWasSent'
      /\ \A k : place' = Place(Len(served) + 1, k) => At(k)'
  BY <1>1, SameRequest, StillSent DEF Reads
<1>7. e + j \in 1 .. Len(OnWire(m)) /\ Len(OnWire(m)) = e + Len(m.trailer)
  <2> DEFINE l == Len(OnWire(m))
             B == Block(m)
             n == Len(m.body)
             t == Len(m.trailer)
  <2>1. /\ B \in Nat /\ n \in Nat /\ t \in Nat /\ j \in Nat /\ j <= t
        /\ l = B + 3 * n + t + 2 /\ e = B + 3 * n + 2
    BY <1>4, <1>5
  <2> HIDE DEF l, B, n, t, e
  <2>2. e + j \in 1 .. l /\ l = e + t
    BY <2>1
  <2> QED
    BY <2>2 DEF l, t
<1>8. Token = OnWire(m)[e + j] /\ place' = Place(Len(served) + 1, e + j + 1)
  BY <1>1, <1>3, <1>7, TokenAt
<1>9. ReaderTypes'
  BY <1>1 DEF ReaderTypes, SameSent
<1>10. CASE j < Len(m.trailer)
  <2> HIDE DEF m
  <2> DEFINE B == Block(m)
             n == Len(m.body)
             t == Len(m.trailer)
  <2>0. B \in Nat /\ n \in Nat /\ t \in Nat /\ j \in Nat /\ j < t /\ e = B + 3 * n + 2
    BY <1>4, <1>10
  <2> HIDE DEF B, n, t, e
  <2>a. /\ j + 1 \in 1 .. t /\ j + 1 \in 0 .. t /\ B + 3 * n + 1 + (j + 1) = e + j
        /\ e + j + 1 = e + (j + 1)
    BY <2>0
  <2> USE DEF e
  <2>1. j + 1 \in 1 .. Len(m.trailer) /\ Block(m) + 3 * Len(m.body) + 1 + (j + 1) = e + j
    BY <2>a DEF B, n, t
  <2>2. Token = m.trailer[j + 1]
    BY <1>5, <1>8, <2>1
  <2>3. Token.is # "blank"
    BY <1>4, <2>1, <2>2 DEF Framed
  <2>4. phase' = "trailer"
    BY <1>1, <2>3
  <2>5. j + 1 \in 0 .. Len(m.trailer) /\ e + j + 1 = e + (j + 1)
    BY <2>a DEF t
  <2>6. At(Block(m) + 3 * Len(m.body) + 2 + (j + 1))'
    BY <1>6, <1>8, <2>5 DEF m
  <2>7. InTrailer(m)'
    BY <1>1, <1>2, <1>6, <2>5, <2>6 DEF InTrailer, m
  <2> QED
    BY <1>1, <1>6, <1>9, <2>4, <2>7 DEF ReaderInv, InRequest, m
<1>11. CASE j = Len(m.trailer)
  <2>1. Token.is = "blank"
    BY <1>5, <1>7, <1>8, <1>11, TokensAre
  <2>2. phase' = "serve"
    BY <1>1, <2>1
  <2>3. e + j + 1 > Len(OnWire(m)) /\ Len(served) + 1 + 1 = Len(served) + 2
    <3> HIDE DEF m
    <3> QED
      BY <1>4, <1>7, <1>11
  <2>4. place' = <<Len(served) + 2, 1>>
    BY <1>8, <2>3 DEF Place, Current
  <2>5. InRequest(Current)'
    BY <1>1, <1>2, <1>6, <2>2, <2>4 DEF InRequest
  <2> QED
    BY <1>1, <1>6, <1>9, <2>2, <2>5 DEF ReaderInv
<1> QED
  BY <1>4, <1>10, <1>11

\* What is served is the request that was read.
LEMMA ServeKeeps ==
  ASSUME Reads, ServeRequest
  PROVE  ReaderInv'
<1> DEFINE m == Current
<1>1. /\ phase = "serve" /\ ReaderTypes /\ Len(served) < Len(sent) /\ UNCHANGED <<sent, place>>
      /\ served' = Append(served, body) /\ fields' = <<>> /\ body' = <<>> /\ left' = 0
      /\ phase' \in {"line", "closed"}
  BY DEF ServeRequest, Reads, ReaderInv
<1>2. body = m.body /\ place = <<Len(served) + 2, 1>>
  BY <1>1 DEF Reads, ReaderInv, InRequest
<1>3. Len(served) \in Nat /\ Len(sent) \in Nat /\ body \in Seq(Tokens) /\ served \in Seq(Seq(Tokens))
  BY <1>1 DEF ReaderTypes
<1>4. /\ served' \in Seq(Seq(Tokens)) /\ Len(served') = Len(served) + 1
      /\ \A k \in 1 .. Len(served) : served'[k] = served[k]
      /\ served'[Len(served) + 1] = body
  <2>1. /\ Append(served, body) \in Seq(Seq(Tokens)) /\ Len(Append(served, body)) = Len(served) + 1
        /\ \A k \in 1 .. Len(served) : Append(served, body)[k] = served[k]
        /\ Append(served, body)[Len(served) + 1] = body
    BY <1>3, AppendProperties
  <2> QED
    BY <1>1, <2>1
<1>5. OnlyWhatWasSent'
  <2>1. Len(served') <= Len(sent')
    BY <1>1, <1>3, <1>4
  <2>2. ASSUME NEW k \in DOMAIN served' PROVE served'[k] = sent'[k].body
    <3>1. k \in 1 .. Len(served) + 1
      BY <1>4, <2>2
    <3>2. CASE k = Len(served) + 1
      BY <1>1, <1>2, <1>4, <3>2 DEF Current
    <3>3. CASE k \in 1 .. Len(served)
      <4>1. k \in DOMAIN served
        BY <1>3, <3>3
      <4>2. served[k] = sent[k].body
        BY <4>1 DEF Reads, ReaderInv, OnlyWhatWasSent
      <4> QED
        BY <1>1, <1>4, <3>3, <4>2
    <3> QED
      BY <1>3, <3>1, <3>2, <3>3
  <2> QED
    BY <2>1, <2>2 DEF OnlyWhatWasSent
<1>6. ReaderTypes'
  <2>1. <<>> \in Seq(Tokens) /\ 0 \in Nat
    OBVIOUS
  <2> QED
    BY <1>1, <1>4, <2>1 DEF ReaderTypes
<1>7. phase' = "line" => AtStart'
  <2>1. place' = <<Len(served') + 1, 0 + 1>>
    BY <1>1, <1>2, <1>3, <1>4
  <2>2. Arrived' => 0 <= Current'.stray
    <3> SUFFICES ASSUME Arrived' PROVE 0 <= Current'.stray
      OBVIOUS
    <3>1. place'[1] = Len(served) + 2 /\ Len(served) + 2 <= Len(sent)
      BY <1>1, <1>2 DEF Arrived
    <3>2. Len(served) + 2 \in 1 .. Len(sent) /\ Len(served') + 1 = Len(served) + 2
      BY <1>3, <1>4, <3>1
    <3>3. Current' = sent[Len(served) + 2]
      BY <1>1, <3>2 DEF Current
    <3>4. sent[Len(served) + 2] \in Messages
      BY <1>1, <3>2 DEF ReaderTypes
    <3>5. Current' \in MessageShapes
      BY <3>3, <3>4 DEF Reads, WellFramed, Framed
    <3>6. Current'.stray \in Nat
      BY <3>5 DEF MessageShapes
    <3> QED
      BY <3>6
  <2>3. 0 \in Nat
    OBVIOUS
  <2> QED
    BY <1>1, <2>1, <2>2, <2>3 DEF AtStart
<1> QED
  BY <1>1, <1>5, <1>6, <1>7 DEF ReaderInv

LEMMA ReaderStep ==
  ASSUME WellFramed, ReaderInv, [ReaderNext]_readerVars
  PROVE  ReaderInv'
<1> USE DEF Reads
<1>1. CASE RequestLine
  BY <1>1, LineKeeps
<1>2. CASE FieldLine
  BY <1>2, FieldKeeps
<1>3. CASE Frame
  BY <1>3, FrameKeeps
<1>4. CASE TooLong(MaxHeader)
  BY <1>4, RefusedKeeps DEF TooLong
<1>5. CASE BodyByte
  <2>1. phase \in {"bytes", "chunk"}
    BY <1>5 DEF BodyByte
  <2> QED
    BY <1>5, <2>1, BytesKeep, ChunkByteKeeps
<1>6. CASE BodyDone
  BY <1>6, BodyDoneKeeps
<1>7. CASE ChunkSize
  BY <1>7, ChunkSizeKeeps
<1>8. CASE ChunkEnd
  BY <1>8, ChunkEndKeeps
<1>9. CASE Trailer
  BY <1>9, TrailerKeeps
<1>10. CASE ServeRequest
  BY <1>10, ServeKeeps
<1>11. CASE HangUp
  BY <1>11, RefusedKeeps DEF HangUp
<1>12. CASE TimedOut
  <2>1. UNCHANGED sent /\ \E status : Refuse(status)
    BY <1>12 DEF TimedOut
  <2> QED
    BY <2>1, RefusedKeeps
<1>13. CASE Shutdown \/ UNCHANGED readerVars
  <2>1. SameSent /\ UNCHANGED <<place, phase, fields, body, left>>
    BY <1>13 DEF Shutdown, readerVars, perRequest, SameSent
  <2>2. Current' = Current /\ Len(served)' = Len(served) /\ Len(sent)' = Len(sent) /\ OnlyWhatWasSent'
    BY <2>1, SameRequest, StillSent
  <2>3. ReaderTypes'
    BY <2>1 DEF ReaderInv, ReaderTypes, SameSent
  <2>4. Arrived' = Arrived /\ \A i : At(i)' = At(i)
    BY <2>1 DEF Arrived, At, Place, SameSent
  <2>5. phase' = "line" => AtStart'
    BY <2>1, <2>2, <2>4 DEF ReaderInv, AtStart
  <2>6. ASSUME NEW m
        PROVE  /\ InHead(m)' = InHead(m) /\ InBytes(m)' = InBytes(m) /\ InSize(m)' = InSize(m)
               /\ InChunk(m)' = InChunk(m) /\ InTrailer(m)' = InTrailer(m)
    BY <2>1, <2>4 DEF InHead, InBytes, InSize, InChunk, InTrailer
  <2>7. phase' \notin {"line", "closed"} => Len(served)' < Len(sent)' /\ InRequest(Current)'
    BY <2>1, <2>2, <2>6 DEF ReaderInv, InRequest
  <2> QED
    BY <2>2, <2>3, <2>5, <2>7 DEF ReaderInv
<1> QED
  BY <1>1, <1>2, <1>3, <1>4, <1>5, <1>6, <1>7, <1>8, <1>9, <1>10, <1>11, <1>12, <1>13 DEF ReaderNext

LEMMA ReaderStart ==
  ASSUME WellFramed, ReaderInit
  PROVE  ReaderInv
<1>1. sent \in Seq(Messages)
  BY BoundedSeqs, ReaderAssumption DEF ReaderInit
<1>2. served = <<>> /\ fields = <<>> /\ body = <<>> /\ left = 0 /\ phase = "line" /\ place = <<1, 1>>
  BY DEF ReaderInit
<1>3. <<>> \in Seq(Tokens) /\ <<>> \in Seq(Seq(Tokens)) /\ Len(<<>>) = 0 /\ 0 \in Nat /\ Len(sent) \in Nat
  BY <1>1
<1>4. ReaderTypes
  BY <1>1, <1>2, <1>3 DEF ReaderTypes
<1>5. OnlyWhatWasSent
  BY <1>2, <1>3 DEF OnlyWhatWasSent
<1>6. place = <<Len(served) + 1, 0 + 1>>
  BY <1>2, <1>3
<1>7. Arrived => 0 <= Current.stray
  <2> SUFFICES ASSUME Arrived PROVE 0 <= Current.stray
    OBVIOUS
  <2>1. Len(served) + 1 \in 1 .. Len(sent)
    BY <1>2, <1>3 DEF Arrived
  <2>2. Current \in Messages
    BY <1>1, <2>1 DEF Current
  <2>3. Current \in MessageShapes
    BY <2>2 DEF WellFramed, Framed
  <2>4. Current.stray \in Nat
    BY <2>3 DEF MessageShapes
  <2> QED
    BY <2>4
<1>8. AtStart
  BY <1>2, <1>3, <1>6, <1>7 DEF AtStart
<1> QED
  BY <1>2, <1>4, <1>5, <1>8 DEF ReaderInv

\* "Request smuggling vector: reject instead of guessing" (http.rs, read_body): a client that
\* frames its requests well, or contradicts itself in their header fields, is never
\* misunderstood.  The handlers get the requests it sent, in order and with the bodies it
\* sent, whatever these look like, however many requests share the connection, and
\* wherever it breaks off.
THEOREM OnlySentIsServed ==
  ASSUME WellFramed
  PROVE  ReaderInit /\ [][ReaderNext]_readerVars => []OnlyWhatWasSent
<1>1. ReaderInit => ReaderInv
  BY ReaderStart
<1>2. ReaderInv /\ [ReaderNext]_readerVars => ReaderInv'
  BY ReaderStep
<1>3. ReaderInv => OnlyWhatWasSent
  BY DEF ReaderInv
<1> QED
  BY <1>1, <1>2, <1>3, PTL
==============================================================================
