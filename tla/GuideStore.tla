----------------------------- MODULE GuideStore -----------------------------
(***************************************************************************)
(* The row of one guide in the SQLite table Guides, and the statements     *)
(* backend/src/db.rs runs against it.  SQLite executes each statement      *)
(* atomically; what is not atomic is a read followed by a write.           *)
(*                                                                         *)
(* The row keeps what the background jobs and the handlers decide on:      *)
(* whether a column is filled, who owns the row, and the status of every   *)
(* step in jobs_json.  Titles, dates, the words themselves and the chunk   *)
(* counters of a job are left out.                                         *)
(***************************************************************************)
EXTENDS Naturals

CONSTANTS
  Users,     \* signed-in callers
  Anon,      \* no caller: a NULL created_by, or a request without a session
  Chapters,  \* the chapters an analysis of the transcript can produce
  NoRow      \* the slug has no row

Callers == Users \cup {Anon}

Steps == {"pipeline", "analyze", "thumbnail", "tts", "chapter-timing",
          "chapter-images", "chapter-real-images"}

\* "none": jobs_json has no such step, or the step carries no status.
Status == {"none", "running", "done", "failed"}

\* chapters_json: the chapters listed, those with a generated image, those
\* with a real image.
ChapterLists == [idx : SUBSET Chapters, gen : SUBSET Chapters, real : SUBSET Chapters]

NoChapters == [idx |-> {}, gen |-> {}, real |-> {}]

Listed(cs) == [idx |-> cs, gen |-> {}, real |-> {}]

\* created_at tells two guides created under the same slug apart.  thumb is an
\* external address sent by the client ("url") or the generated cover file.
Guides == [created : Nat, owner : Callers, text : BOOLEAN, summary : BOOLEAN,
           chapters : ChapterLists, thumb : {"none", "url", "cover"},
           audio : BOOLEAN, timing : BOOLEAN, jobs : [Steps -> Status]]

Rows == Guides \cup {NoRow}

ASSUME StoreAssumption ==
  /\ Anon \notin Users
  /\ NoRow \notin Guides

VARIABLE guide    \* the row of the slug, or NoRow

-----------------------------------------------------------------------------
\* A row without an owner may be written by anyone, an owned row by its owner.
CallerMayWrite(g, a) == g.owner \in {Anon, a}

JobRunning(g, step) == g.jobs[step] = "running"

\* Mutant: the UPDATE sets created_by and created_at too.
OverwrittenAll(g, new) == new

\* The columns of an UPDATE never include created_by and created_at.
Overwritten(g, new) == [new EXCEPT !.created = g.created, !.owner = g.owner]

\* Mutant: the caller is missing from the WHERE clause.
UpdateGuideAnyone(new, a) ==
  guide' = IF guide # NoRow THEN Overwritten(guide, new) ELSE guide

\* UPDATE ... WHERE slug = ? AND (created_by = ? OR created_by IS NULL)
UpdateGuide(new, a) ==
  guide' = IF guide # NoRow /\ CallerMayWrite(guide, a)
             THEN Overwritten(guide, new) ELSE guide

\* UPDATE ... WHERE slug = ?
UpdateGuideBySlug(new) ==
  guide' = IF guide # NoRow THEN Overwritten(guide, new) ELSE guide

\* A slug that is taken is a unique-constraint error and leaves the row alone.
InsertGuide(new) == guide' = IF guide = NoRow THEN new ELSE guide

DeleteGuide(a) ==
  guide' = IF guide # NoRow /\ CallerMayWrite(guide, a) THEN NoRow ELSE guide

\* merge_job: read, patch one step of jobs_json and write it back inside one
\* BEGIN IMMEDIATE transaction.  A missing row is a no-op.
MergeJob(step, status) ==
  guide' = IF guide # NoRow THEN [guide EXCEPT !.jobs[step] = status] ELSE guide
=============================================================================
