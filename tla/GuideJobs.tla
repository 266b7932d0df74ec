------------------------------ MODULE GuideJobs ------------------------------
(***************************************************************************)
(* The handlers and background jobs of backend/src/guides.rs working on    *)
(* one guide: every thread reads the row, spends a long time in an         *)
(* external call (Grok, Kokoro, Unsplash, the source page), and writes the *)
(* whole row back from what it read, next to merge_job patching the status *)
(* of one step.                                                            *)
(*                                                                         *)
(* A thread is a slot of Procs.  It runs one HTTP request; when the        *)
(* handler spawns a job as its last act, the slot becomes that job.        *)
(* Steps are the database statements and file writes of a thread; what it  *)
(* computes between them touches nothing shared.                           *)
(***************************************************************************)
EXTENDS GuideStore

CONSTANTS
  Procs,        \* threads
  Endpoints,    \* the endpoints clients use
  Bodies,       \* what clients write into POST /api/guides themselves
  Absent,       \* no body, no jobs in a body
  DbFaults,     \* may a statement fail (SQLITE_BUSY after 5 s, disk error)?
  MaxRequests,  \* bound: requests started
  MaxCreates,   \* bound: POST /api/guides requests started
  MaxCrashes    \* bound: restarts of the server

AllEndpoints == {"create", "delete", "analyze", "thumbnail", "chapter-timing", "tts",
                 "chapter-images", "chapter-real-images", "auto-chapters", "date", "audio",
                 "publish"}

\* What record_from_body takes from a body: any field of the row but its owner and
\* its times, the addresses of files and the statuses of the jobs included.
Posts == [text : BOOLEAN, summary : BOOLEAN, chapters : ChapterLists,
          thumb : {"none", "url", "cover"}, audio : BOOLEAN, timing : BOOLEAN,
          jobs : [Steps -> Status] \cup {Absent}]

ASSUME JobsAssumption ==
  /\ Endpoints \subseteq AllEndpoints
  /\ Bodies \subseteq Posts
  /\ Absent \notin Posts \cup [Steps -> Status]
  /\ DbFaults \in BOOLEAN
  /\ MaxRequests \in Nat /\ MaxCreates \in Nat /\ MaxCrashes \in Nat

Disks == [mp3 : BOOLEAN, cover : BOOLEAN, gen : SUBSET Chapters, real : SUBSET Chapters]

VARIABLES
  pc,        \* where each thread is
  task,      \* what it runs: a request, or one of the jobs
  actor,     \* the caller of its request
  read,      \* the row it read last
  chs,       \* the chapter list an image job fills in
  todo,      \* the chapters an image job has not tried yet
  body,      \* the body of its request
  disk,      \* files under backend/public: <slug>.mp3, the cover, the images
  parts,     \* <slug>.parts: absent, without or with a timing.json
  cleanups,  \* cleanup threads sleeping their 60 s before they remove it
  page,      \* the guide as a browser's page loaded it
  claimed,   \* history: the files the bodies clients wrote named
  requests, creates, crashes   \* counters behind the bounds

local  == <<pc, task, actor, read, chs, todo, body>>
bounds == <<requests, creates, crashes>>
client == <<page, claimed>>
vars   == <<guide, local, disk, parts, cleanups, client, bounds>>

-----------------------------------------------------------------------------
\* record_from_body.
NewGuide(a, n, b) ==
  [created |-> n, owner |-> a, text |-> b.text, summary |-> b.summary, chapters |-> b.chapters,
   thumb |-> b.thumb, audio |-> b.audio, timing |-> b.timing,
   jobs |-> IF b.jobs = Absent THEN [s \in Steps |-> "none"] ELSE b.jobs]

\* What an update of g with body b writes: audio, timing, jobs and chapters fall back
\* on those of g, the other columns do not.
Replaced(g, b) ==
  [NewGuide(g.owner, g.created, b) EXCEPT
     !.audio = @ \/ g.audio, !.timing = @ \/ g.timing,
     !.jobs = IF b.jobs = Absent THEN g.jobs ELSE @,
     !.chapters = IF b.chapters.idx = {} THEN g.chapters ELSE @]

\* A finished speech or thumbnail job counts as naming its file.
Finished(b, step) == b.jobs # Absent /\ b.jobs[step] = "done"

Claim(d, b) ==
  [mp3 |-> d.mp3 \/ b.audio \/ Finished(b, "tts"),
   cover |-> d.cover \/ b.thumb = "cover" \/ Finished(b, "thumbnail"),
   gen |-> d.gen \cup b.chapters.gen, real |-> d.real \cup b.chapters.real]

NoFiles == [mp3 |-> FALSE, cover |-> FALSE, gen |-> {}, real |-> {}]

\* The server starts on a free slug, or on a guide inserted in an earlier run of
\* the server that was stopped before its pipeline did anything.
Init ==
  /\ \/ guide = NoRow /\ claimed = NoFiles
     \/ \E a \in Callers, b \in Bodies :
          guide = NewGuide(a, 0, b) /\ claimed = Claim(NoFiles, b)
  /\ pc = [p \in Procs |-> "idle"]
  /\ task = [p \in Procs |-> "none"]
  /\ actor = [p \in Procs |-> Anon]
  /\ read = [p \in Procs |-> NoRow]
  /\ chs = [p \in Procs |-> NoChapters]
  /\ todo = [p \in Procs |-> {}]
  /\ body = [p \in Procs |-> Absent]
  /\ disk = NoFiles
  /\ parts = "absent"
  /\ cleanups = 0
  /\ page = Absent
  /\ requests = 0 /\ creates = 0 /\ crashes = 0

\* The outcomes of a database statement.
DbOk == IF DbFaults THEN BOOLEAN ELSE {TRUE}

\* Thread p goes on to l holding the row r.
Goto(p, l, r) ==
  /\ pc' = [pc EXCEPT ![p] = l]
  /\ read' = [read EXCEPT ![p] = r]
  /\ UNCHANGED <<task, actor, chs, todo, body>>

\* Thread p ends.
Exit(p) ==
  /\ pc' = [pc EXCEPT ![p] = "idle"]
  /\ task' = [task EXCEPT ![p] = "none"]
  /\ actor' = [actor EXCEPT ![p] = Anon]
  /\ read' = [read EXCEPT ![p] = NoRow]
  /\ chs' = [chs EXCEPT ![p] = NoChapters]
  /\ todo' = [todo EXCEPT ![p] = {}]
  /\ body' = [body EXCEPT ![p] = Absent]

\* The order run_pipeline calls the stages in, ignoring their results.
NextStage == [analyze |-> "thumbnail", thumbnail |-> "tts", tts |-> "timing",
              timing |-> "images", images |-> "pipelineDone"]

\* Mutant: a stage that returns early ends the pipeline (a `?` on its result).
LeaveQuits(p, stage) == Exit(p)

\* Thread p returns from a stage: the pipeline calls the next one, a request
\* or a manual job ends.
Leave(p, stage) ==
  IF task[p] = "pipeline"
    THEN /\ pc' = [pc EXCEPT ![p] = NextStage[stage]]
         /\ read' = [read EXCEPT ![p] = NoRow]
         /\ chs' = [chs EXCEPT ![p] = NoChapters]
         /\ todo' = [todo EXCEPT ![p] = {}]
         /\ UNCHANGED <<task, actor, body>>
    ELSE Exit(p)

\* get_guide: continue at l when the row is found and is as wanted.
ReadThen(p, wanted, l, stage) ==
  \E ok \in DbOk :
    IF ok /\ guide # NoRow /\ wanted
      THEN Goto(p, l, guide)
      ELSE Leave(p, stage)

\* merge_job with its error ignored, as every call site does.
Merge(step, status) == \E ok \in DbOk : IF ok THEN MergeJob(step, status) ELSE UNCHANGED guide

-----------------------------------------------------------------------------
(* Requests.  Each starts with get_guide (require_writable) and the checks *)
(* of its handler; a request that is turned away changes nothing and is    *)
(* left out.                                                               *)

Receive(p, e) ==
  /\ e \in Endpoints
  /\ pc[p] = "idle"
  /\ requests < MaxRequests
  /\ requests' = requests + 1

Begin(p, a, l) ==
  /\ pc' = [pc EXCEPT ![p] = l]
  /\ task' = [task EXCEPT ![p] = "request"]
  /\ actor' = [actor EXCEPT ![p] = a]
  /\ read' = [read EXCEPT ![p] = guide]
  /\ UNCHANGED <<guide, chs, todo, disk, parts, cleanups, crashes>>

\* GET /api/guides/:slug as a page uses it (publish in GuideProgress.tsx): while the
\* speech job runs, the words rendered so far stand in for the timing.
CopyOf(g) ==
  LET partial == ~g.timing /\ JobRunning(g, "tts") /\ parts = "words"
  IN  [text |-> g.text \/ partial, summary |-> g.summary, chapters |-> g.chapters,
       thumb |-> g.thumb, audio |-> g.audio, timing |-> g.timing \/ partial, jobs |-> g.jobs]

\* The POST of the copy is counted by the bounds when the page loads; a copy the page
\* throws away for a later one is left out.
PageLoads ==
  /\ "publish" \in Endpoints
  /\ guide # NoRow /\ page = Absent
  /\ requests < MaxRequests /\ creates < MaxCreates
  /\ requests' = requests + 1 /\ creates' = creates + 1
  /\ page' = CopyOf(guide)
  /\ UNCHANGED <<guide, local, disk, parts, cleanups, claimed, crashes>>

\* A POST /api/guides with a body a client wrote.
Written(p) ==
  /\ Receive(p, "create")
  /\ creates < MaxCreates
  /\ creates' = creates + 1
  /\ \E b \in Bodies : body' = [body EXCEPT ![p] = b] /\ claimed' = Claim(claimed, b)
  /\ UNCHANGED page

\* A POST /api/guides with the whole copy a page holds.
Published(p) ==
  /\ pc[p] = "idle"
  /\ page # Absent
  /\ body' = [body EXCEPT ![p] = page]
  /\ page' = Absent
  /\ UNCHANGED <<claimed, requests, creates>>

\* An insert when the slug is free, an update when it is taken and the caller may
\* write it, otherwise 409.
ReceiveCreate(p, a) ==
  /\ Written(p) \/ Published(p)
  /\ \/ guide = NoRow /\ Begin(p, a, "insert")
     \/ guide # NoRow /\ CallerMayWrite(guide, a) /\ Begin(p, a, "update")

\* DELETE /api/guides/:slug is one statement.
ReceiveDelete(p, a) ==
  /\ Receive(p, "delete")
  /\ DeleteGuide(a)
  /\ UNCHANGED <<local, disk, parts, cleanups, client, creates, crashes>>

\* What each endpoint asks of the row it read, and where it goes on.
Acceptable(e, g) ==
  CASE e = "thumbnail"           -> g.thumb = "none" /\ g.text
    [] e = "tts"                 -> g.text /\ ~JobRunning(g, "tts")
    [] e = "chapter-images"      -> /\ ~JobRunning(g, "chapter-images")
                                    /\ g.chapters.idx \ g.chapters.gen # {}
    [] e = "chapter-real-images" -> /\ ~JobRunning(g, "chapter-real-images")
                                    /\ g.chapters.idx \ g.chapters.real # {}
    [] e = "auto-chapters"       -> g.text /\ g.timing
    [] OTHER                     -> TRUE

Entry(e) ==
  CASE e = "analyze"             -> "analyze"
    [] e = "thumbnail"           -> "thumbnail"
    [] e = "chapter-timing"      -> "timing"
    [] e = "tts"                 -> "spawnTts"
    [] e = "chapter-images"      -> "spawnImages"
    [] e = "chapter-real-images" -> "spawnReal"
    [] e = "auto-chapters"       -> "autoWrite"
    [] e = "date"                -> "dateWrite"
    [] e = "audio"               -> "uploadFile"

ReceiveOther(p, a, e) ==
  /\ e \notin {"create", "delete", "publish"}
  /\ Receive(p, e)
  /\ guide # NoRow /\ CallerMayWrite(guide, a) /\ Acceptable(e, guide)
  /\ Begin(p, a, Entry(e))
  /\ UNCHANGED <<body, client, creates>>

\* insert_new.  When the slug was taken meanwhile the insert fails (an explicit
\* slug) or picks another slug: nothing happens to this one.
InsertNew(p) ==
  /\ pc[p] = "insert"
  /\ \E ok \in DbOk :
       IF ok /\ guide = NoRow
         THEN /\ InsertGuide(NewGuide(actor[p], creates, body[p]))
              /\ Goto(p, "spawnPipeline", NoRow)
         ELSE UNCHANGED guide /\ Exit(p)
  /\ UNCHANGED <<disk, parts, cleanups, client, bounds>>

\* update_existing writes over the row read before.
UpdateExisting(p) ==
  /\ pc[p] = "update"
  /\ \E ok \in DbOk :
       IF ok THEN UpdateGuide(Replaced(read[p], body[p]), actor[p]) ELSE UNCHANGED guide
  /\ Exit(p)
  /\ UNCHANGED <<disk, parts, cleanups, client, bounds>>

\* auto_chapters, refresh_date and upload_audio write the row they read before
\* the external call (or the upload); a failed call writes nothing.
EditFails(p) ==
  /\ pc[p] \in {"autoWrite", "dateWrite", "uploadFile"}
  /\ Exit(p)
  /\ UNCHANGED <<guide, disk, parts, cleanups, client, bounds>>

Edited(p) ==
  CASE pc[p] = "autoWrite"   -> {[read[p] EXCEPT !.chapters = Listed(cs)] :
                                   cs \in (SUBSET Chapters) \ {{}}}
    [] pc[p] = "dateWrite"   -> {read[p]}
    [] pc[p] = "uploadWrite" -> {[read[p] EXCEPT !.audio = TRUE]}

EditWrite(p) ==
  /\ pc[p] \in {"autoWrite", "dateWrite", "uploadWrite"}
  /\ \E ok \in DbOk, new \in Edited(p) :
       IF ok THEN UpdateGuide(new, actor[p]) ELSE UNCHANGED guide
  /\ Exit(p)
  /\ UNCHANGED <<disk, parts, cleanups, client, bounds>>

\* Mutant: the row is written although the file was not.
UploadNothing(p) ==
  /\ pc[p] = "uploadFile"
  /\ Goto(p, "uploadWrite", read[p])
  /\ UNCHANGED <<guide, disk, parts, cleanups, client, bounds>>

\* upload_audio writes the file first.
UploadFile(p) ==
  /\ pc[p] = "uploadFile"
  /\ disk' = [disk EXCEPT !.mp3 = TRUE]
  /\ Goto(p, "uploadWrite", read[p])
  /\ UNCHANGED <<guide, parts, cleanups, client, bounds>>

\* merge_job(running) and spawn: the slot of the request becomes the job.
Spawn(p, at, step, first) ==
  /\ pc[p] = at
  /\ Merge(step, "running")
  /\ pc' = [pc EXCEPT ![p] = first]
  /\ task' = [task EXCEPT ![p] = step]
  /\ actor' = [actor EXCEPT ![p] = Anon]
  /\ read' = [read EXCEPT ![p] = NoRow]
  /\ body' = [body EXCEPT ![p] = Absent]
  /\ UNCHANGED <<chs, todo, disk, parts, cleanups, client, bounds>>

SpawnPipeline(p) == Spawn(p, "spawnPipeline", "pipeline", "analyze")
SpawnTts(p)      == Spawn(p, "spawnTts", "tts", "tts")
SpawnImages(p)   == Spawn(p, "spawnImages", "chapter-images", "images")
SpawnReal(p)     == Spawn(p, "spawnReal", "chapter-real-images", "images")

-----------------------------------------------------------------------------
(* run_analyze, called by the pipeline and by the analyze and summary      *)
(* handlers.                                                               *)

Untouched == UNCHANGED <<disk, parts, cleanups, client, bounds>>

\* A guide that has its summary, author and chapters is left alone; the author
\* may still be missing when the summary is there.
AnalyzeRead(p) ==
  /\ pc[p] = "analyze"
  /\ \/ ReadThen(p, guide.text, "analyzeMark", "analyze")
     \/ guide # NoRow /\ guide.summary /\ guide.chapters.idx # {} /\ Leave(p, "analyze")
  /\ UNCHANGED guide /\ Untouched

AnalyzeMark(p) ==
  /\ pc[p] = "analyzeMark"
  /\ Merge("analyze", "running")
  /\ Goto(p, "analyzeCall", NoRow)
  /\ Untouched

\* Mutant: the failure is only logged.
AnalyzeFailsSilently(p) ==
  /\ pc[p] = "analyzeCall"
  /\ Leave(p, "analyze")
  /\ UNCHANGED guide /\ Untouched

AnalyzeFails(p) ==
  /\ pc[p] = "analyzeCall"
  /\ Merge("analyze", "failed")
  /\ Leave(p, "analyze")
  /\ Untouched

\* The slice of the reply panics (parse_model_json, its last brace before its first):
\* the thread of a job is gone, the one of a request is unwound to its worker.  No
\* status is written.  The slot is kept, to tell what was left behind.
AnalyzePanics(p) ==
  /\ pc[p] = "analyzeCall"
  /\ Goto(p, "panicked", NoRow)
  /\ UNCHANGED guide /\ Untouched

AnalyzeReply(p) ==
  /\ pc[p] = "analyzeCall"
  /\ ReadThen(p, TRUE, "analyzeWrite", "analyze")
  /\ UNCHANGED guide /\ Untouched

AnalyzeWrite(p) ==
  /\ pc[p] = "analyzeWrite"
  /\ \E ok \in DbOk, cs \in SUBSET Chapters :
       IF ok
         THEN /\ UpdateGuideBySlug([read[p] EXCEPT !.summary = TRUE,
                    !.chapters = IF read[p].chapters.idx = {} THEN Listed(cs) ELSE @])
              /\ Goto(p, "analyzeDone", NoRow)
         ELSE UNCHANGED guide /\ Leave(p, "analyze")
  /\ Untouched

AnalyzeDone(p) ==
  /\ pc[p] = "analyzeDone"
  /\ Merge("analyze", "done")
  /\ Leave(p, "analyze")
  /\ Untouched

-----------------------------------------------------------------------------
(* run_thumbnail.                                                          *)

ThumbRead(p) ==
  /\ pc[p] = "thumbnail"
  /\ ReadThen(p, guide.thumb = "none" /\ guide.text, "thumbCall", "thumbnail")
  /\ UNCHANGED guide /\ Untouched

\* The picture could not be made (failed), or its file not written (no status).
ThumbFails(p) ==
  /\ pc[p] = "thumbCall"
  /\ Merge("thumbnail", "failed") \/ UNCHANGED guide
  /\ Leave(p, "thumbnail")
  /\ Untouched

\* The cover file is written before the row is read again.
ThumbReply(p) ==
  /\ pc[p] = "thumbCall"
  /\ disk' = [disk EXCEPT !.cover = TRUE]
  /\ ReadThen(p, TRUE, "thumbWrite", "thumbnail")
  /\ UNCHANGED <<guide, parts, cleanups, client, bounds>>

ThumbWrite(p) ==
  /\ pc[p] = "thumbWrite"
  /\ \E ok \in DbOk :
       IF ok THEN /\ UpdateGuideBySlug([read[p] EXCEPT !.thumb = "cover"])
                  /\ Goto(p, "thumbDone", NoRow)
             ELSE UNCHANGED guide /\ Leave(p, "thumbnail")
  /\ Untouched

ThumbDone(p) ==
  /\ pc[p] = "thumbDone"
  /\ Merge("thumbnail", "done")
  /\ Leave(p, "thumbnail")
  /\ Untouched
-----------------------------------------------------------------------------
(* run_tts_job and the node helper it waits for.                           *)

\* Empties <slug>.parts and starts render-guide.mjs.
TtsRead(p) ==
  /\ pc[p] = "tts"
  /\ ReadThen(p, guide.text, "render", "tts")
  /\ parts' = IF pc'[p] = "render" THEN "empty" ELSE parts
  /\ UNCHANGED <<guide, disk, cleanups, client, bounds>>

\* onChunk rewrites timing.json, best effort: it needs the directory.  The
\* progress line patches the chunk counters of the job and no status.
RenderChunk(p) ==
  /\ pc[p] = "render"
  /\ parts = "empty"
  /\ parts' = "words"
  /\ UNCHANGED <<guide, local, disk, cleanups, client, bounds>>

\* The helper writes the canonical mp3 last.
RenderEnds(p) ==
  /\ pc[p] = "render"
  /\ disk' = [disk EXCEPT !.mp3 = TRUE]
  /\ Goto(p, "rendered", NoRow)
  /\ UNCHANGED <<guide, parts, cleanups, client, bounds>>

TtsFailed(p) ==
  /\ cleanups' = cleanups + 1
  /\ Merge("tts", "failed")
  /\ Leave(p, "tts")
  /\ UNCHANGED <<disk, parts, client, bounds>>

\* The helper exits with an error.
RenderFails(p) == pc[p] = "render" /\ TtsFailed(p)

\* It ended well, but printed no RESULT line.
NoResult(p) == pc[p] = "rendered" /\ TtsFailed(p)

TtsReply(p) ==
  /\ pc[p] = "rendered"
  /\ ReadThen(p, TRUE, "ttsWrite", "tts")
  /\ UNCHANGED guide /\ Untouched

\* The RESULT line of the helper has both the transcript and the words.
TtsWrite(p) ==
  /\ pc[p] = "ttsWrite"
  /\ \E ok \in DbOk :
       IF ok THEN UpdateGuideBySlug([read[p] EXCEPT !.text = TRUE, !.audio = TRUE,
                                                    !.timing = TRUE])
             ELSE UNCHANGED guide
  /\ Goto(p, "ttsDone", NoRow)
  /\ Untouched

TtsDone(p) ==
  /\ pc[p] = "ttsDone"
  /\ Merge("tts", "done")
  /\ cleanups' = cleanups + 1
  /\ Leave(p, "tts")
  /\ UNCHANGED <<disk, parts, client, bounds>>

\* schedule_parts_cleanup, 60 s later, whoever uses the directory by then.
CleanupParts ==
  /\ cleanups > 0
  /\ cleanups' = cleanups - 1
  /\ parts' = "absent"
  /\ UNCHANGED <<guide, local, disk, client, bounds>>

-----------------------------------------------------------------------------
(* run_chapter_timing: chapters whose quote is not found are dropped, and  *)
(* the rewritten list carries no images.                                   *)

TimingRead(p) ==
  /\ pc[p] = "timing"
  /\ \/ ReadThen(p, guide.chapters.idx # {} /\ guide.timing, "timingWrite", "timing")
     \/ Leave(p, "timing")      \* no quote was found
  /\ UNCHANGED guide /\ Untouched

TimingWrite(p) ==
  /\ pc[p] = "timingWrite"
  /\ \E ok \in DbOk, cs \in (SUBSET read[p].chapters.idx) \ {{}} :
       IF ok THEN /\ UpdateGuideBySlug([read[p] EXCEPT !.chapters = Listed(cs)])
                  /\ Goto(p, "timingDone", NoRow)
             ELSE UNCHANGED guide /\ Leave(p, "timing")
  /\ Untouched

TimingDone(p) ==
  /\ pc[p] = "timingDone"
  /\ Merge("chapter-timing", "done")
  /\ Leave(p, "timing")
  /\ Untouched

-----------------------------------------------------------------------------
(* run_chapter_images and run_real_images: the chapters are those read at  *)
(* the start, the rest of the row is read again at the end.                *)

Real(p) == task[p] = "chapter-real-images"

ImageStep(p) == IF Real(p) THEN "chapter-real-images" ELSE "chapter-images"

Missing(p, list) == IF Real(p) THEN list.idx \ list.real ELSE list.idx \ list.gen

ImagesRead(p) ==
  /\ pc[p] = "images"
  /\ \E ok \in DbOk :
       IF ok /\ guide # NoRow
         THEN /\ pc' = [pc EXCEPT ![p] = "imagesCall"]
              /\ chs' = [chs EXCEPT ![p] = guide.chapters]
              /\ todo' = [todo EXCEPT ![p] = Missing(p, guide.chapters)]
              /\ UNCHANGED <<task, actor, read, body>>
         ELSE Leave(p, "images")
  /\ UNCHANGED guide /\ Untouched

\* The file first, then the path in the list the job holds.
ImageMade(p) ==
  /\ pc[p] = "imagesCall"
  /\ \E c \in todo[p] :
       /\ todo' = [todo EXCEPT ![p] = @ \ {c}]
       /\ IF Real(p) THEN /\ disk' = [disk EXCEPT !.real = @ \cup {c}]
                          /\ chs' = [chs EXCEPT ![p].real = @ \cup {c}]
                     ELSE /\ disk' = [disk EXCEPT !.gen = @ \cup {c}]
                          /\ chs' = [chs EXCEPT ![p].gen = @ \cup {c}]
  /\ UNCHANGED <<guide, pc, task, actor, read, body, parts, cleanups, client, bounds>>

\* A file that cannot be written, or a photo that is not found, is skipped.
ImageSkipped(p) ==
  /\ pc[p] = "imagesCall"
  /\ \E c \in todo[p] : todo' = [todo EXCEPT ![p] = @ \ {c}]
  /\ UNCHANGED <<guide, pc, task, actor, read, chs, body>> /\ Untouched

\* The first generated image that fails ends its job; the list is thrown away.
ImageFails(p) ==
  /\ pc[p] = "imagesCall" /\ ~Real(p) /\ todo[p] # {}
  /\ Merge("chapter-images", "failed")
  /\ Leave(p, "images")
  /\ Untouched

ImagesReply(p) ==
  /\ pc[p] = "imagesCall" /\ todo[p] = {}
  /\ ReadThen(p, TRUE, "imagesWrite", "images")
  /\ UNCHANGED guide /\ Untouched

ImagesWrite(p) ==
  /\ pc[p] = "imagesWrite"
  /\ \E ok \in DbOk :
       IF ok THEN UpdateGuideBySlug([read[p] EXCEPT !.chapters = chs[p]])
             ELSE UNCHANGED guide
  /\ Goto(p, "imagesDone", NoRow)
  /\ Untouched

ImagesDone(p) ==
  /\ pc[p] = "imagesDone"
  /\ Merge(ImageStep(p), "done")
  /\ Leave(p, "images")
  /\ Untouched

\* The pipeline of a guide created with skipImages.
ImagesSkipped(p) ==
  /\ pc[p] = "images" /\ task[p] = "pipeline"
  /\ Merge("chapter-images", "done")
  /\ Leave(p, "images")
  /\ Untouched

\* The pipeline reports done whatever its stages did.
PipelineDone(p) ==
  /\ pc[p] = "pipelineDone"
  /\ Merge("pipeline", "done")
  /\ Exit(p)
  /\ Untouched

\* A job opens its own connection and gives up silently when it cannot.
JobCannotOpen(p) ==
  /\ DbFaults
  /\ \/ pc[p] = "analyze" /\ task[p] = "pipeline" /\ Exit(p)
     \/ pc[p] = "tts" /\ Leave(p, "tts")
     \/ pc[p] = "images" /\ Leave(p, "images")
  /\ UNCHANGED guide /\ Untouched

-----------------------------------------------------------------------------
\* The process dies and starts again: the threads are gone, the row and the
\* files stay as they are.
Crash ==
  /\ crashes < MaxCrashes
  /\ crashes' = crashes + 1
  /\ pc' = [p \in Procs |-> "idle"]
  /\ task' = [p \in Procs |-> "none"]
  /\ actor' = [p \in Procs |-> Anon]
  /\ read' = [p \in Procs |-> NoRow]
  /\ chs' = [p \in Procs |-> NoChapters]
  /\ todo' = [p \in Procs |-> {}]
  /\ body' = [p \in Procs |-> Absent]
  /\ cleanups' = 0
  /\ UNCHANGED <<guide, disk, parts, client, requests, creates>>

Request(p) ==
  \E a \in Callers :
    \/ ReceiveCreate(p, a)
    \/ ReceiveDelete(p, a)
    \/ \E e \in Endpoints : ReceiveOther(p, a, e)

Handle(p) == InsertNew(p) \/ UpdateExisting(p) \/ EditFails(p) \/ EditWrite(p)
             \/ UploadFile(p) \/ SpawnPipeline(p) \/ SpawnTts(p) \/ SpawnImages(p)
             \/ SpawnReal(p)

Analyze(p) == AnalyzeRead(p) \/ AnalyzeMark(p) \/ AnalyzeFails(p) \/ AnalyzePanics(p)
              \/ AnalyzeReply(p) \/ AnalyzeWrite(p) \/ AnalyzeDone(p)

Thumbnail(p) == ThumbRead(p) \/ ThumbFails(p) \/ ThumbReply(p) \/ ThumbWrite(p)
                \/ ThumbDone(p)

Tts(p) == TtsRead(p) \/ NoResult(p) \/ TtsReply(p) \/ TtsWrite(p) \/ TtsDone(p)

\* The node helper; run_node_progress waits for it without a limit.
Render(p) == RenderChunk(p) \/ RenderEnds(p) \/ RenderFails(p)

Timing(p) == TimingRead(p) \/ TimingWrite(p) \/ TimingDone(p)

Images(p) == ImagesRead(p) \/ ImageMade(p) \/ ImageSkipped(p) \/ ImageFails(p)
             \/ ImagesReply(p) \/ ImagesWrite(p) \/ ImagesDone(p) \/ ImagesSkipped(p)

\* What thread p does on its own once it has its request.
Run(p) == Handle(p) \/ Analyze(p) \/ Thumbnail(p) \/ Tts(p) \/ Timing(p)
          \/ Images(p) \/ PipelineDone(p) \/ JobCannotOpen(p)

Next == (\E p \in Procs : Request(p) \/ Run(p) \/ Render(p)) \/ PageLoads \/ CleanupParts \/ Crash

Spec == Init /\ [][Next]_vars

\* The operating system runs every thread, the calls of Grok, Unsplash and the source
\* page end (each has a timeout), and the cleanup timers fire.  The helper may hang,
\* clients need not send requests and the server need not crash.
FairSpec == Spec /\ (\A p \in Procs : WF_vars(Run(p))) /\ WF_vars(CleanupParts)
-----------------------------------------------------------------------------
(* Properties.                                                             *)

Labels == {"idle", "insert", "update", "spawnPipeline", "spawnTts", "spawnImages", "spawnReal",
           "autoWrite", "dateWrite", "uploadFile", "uploadWrite",
           "analyze", "analyzeMark", "analyzeCall", "analyzeWrite", "analyzeDone",
           "thumbnail", "thumbCall", "thumbWrite", "thumbDone",
           "tts", "render", "rendered", "ttsWrite", "ttsDone",
           "timing", "timingWrite", "timingDone",
           "images", "imagesCall", "imagesWrite", "imagesDone", "pipelineDone", "panicked"}

Tasks == {"none", "request", "pipeline", "tts", "chapter-images", "chapter-real-images"}

\* A thread about to write a row back holds one.
HoldsRow(p) ==
  pc[p] \in {"update", "autoWrite", "dateWrite", "uploadFile", "uploadWrite", "analyzeWrite",
             "thumbWrite", "ttsWrite", "timingWrite", "imagesWrite"} => read[p] # NoRow

\* A thread about to write its body has one.
HoldsBody(p) == pc[p] \in {"insert", "update"} => body[p] # Absent

\* Every variable keeps its type, and a job that finds its guide deleted gives up
\* instead of writing back a row it does not hold.
TypeOK ==
  /\ guide \in Rows
  /\ pc \in [Procs -> Labels]
  /\ task \in [Procs -> Tasks]
  /\ actor \in [Procs -> Callers]
  /\ read \in [Procs -> Rows]
  /\ chs \in [Procs -> ChapterLists]
  /\ todo \in [Procs -> SUBSET Chapters]
  /\ body \in [Procs -> Posts \cup {Absent}]
  /\ disk \in Disks
  /\ parts \in {"absent", "empty", "words"}
  /\ cleanups \in Nat
  /\ page \in Posts \cup {Absent}
  /\ claimed \in Disks
  /\ requests \in Nat /\ creates \in Nat /\ crashes \in Nat
  /\ \A p \in Procs : HoldsRow(p) /\ HoldsBody(p)

\* What a row promises is among the files d: the mp3 behind its audio and behind
\* a finished speech job, the cover, the images of its chapters.
Backed(g, d) ==
  g # NoRow =>
    /\ g.audio \/ g.jobs["tts"] = "done" => d.mp3
    /\ g.thumb = "cover" \/ g.jobs["thumbnail"] = "done" => d.cover
    /\ g.chapters.gen \subseteq d.gen
    /\ g.chapters.real \subseteq d.real

\* The files that were written, and those a client named in a body of its own: the
\* server takes such an address as it is.
Known == [mp3 |-> disk.mp3 \/ claimed.mp3, cover |-> disk.cover \/ claimed.cover,
          gen |-> disk.gen \cup claimed.gen, real |-> disk.real \cup claimed.real]

\* What a body would write is backed.
BodyBacked(b) == b # Absent => Backed(NewGuide(Anon, 0, b), Known)

\* What a thread may still write is backed as well, and a thread that is about to
\* report a file has written it.
FilesFirst(p) ==
  /\ Backed(read[p], Known)
  /\ BodyBacked(body[p])
  /\ chs[p].gen \subseteq Known.gen /\ chs[p].real \subseteq Known.real
  /\ pc[p] \in {"uploadWrite", "rendered", "ttsWrite", "ttsDone"} => disk.mp3
  /\ pc[p] \in {"thumbWrite", "thumbDone"} => disk.cover

\* Whatever the interleaving, a failed statement or a crash: a row points at an mp3, a
\* cover or an image only when that was written before (upload_audio, run_thumbnail,
\* run_tts_job and the image jobs write the file first), or when a client named it in a
\* body of its own (record_from_body).  Copies of rows, stale ones and those a page
\* posts back included, never point anywhere else.
ArtefactsOnDisk == Backed(guide, Known)

\* The inductive invariant behind ArtefactsOnDisk: every copy of the row a thread or
\* the page holds is backed too.
ArtefactsInv ==
  TypeOK /\ ArtefactsOnDisk /\ BodyBacked(page) /\ \A p \in Procs : FilesFirst(p)

\* A guide keeps its owner and its creation time as long as the row exists, even
\* when threads write back rows they read from an earlier guide of that slug.
OwnershipFixed ==
  [][guide # NoRow /\ guide' # NoRow =>
       guide'.owner = guide.owner /\ guide'.created = guide.created]_vars

\* The columns besides jobs_json.
Content(g) == [g EXCEPT !.jobs = [step \in Steps |-> "none"]]

\* A request never changes the row of somebody else, although it checked the owner
\* of a row that may have been deleted and created again meanwhile (db.rs: "so one
\* user cannot overwrite another user's row").
RequestsRespectOwner ==
  [][\A p \in Procs :
       /\ task[p] = "request" /\ (pc'[p] # pc[p] \/ task'[p] # task[p])
       /\ guide # NoRow /\ guide' # NoRow /\ Content(guide') # Content(guide)
       => CallerMayWrite(guide, actor[p])]_vars

Working(p, step) ==
  CASE step = "pipeline" -> task[p] = "pipeline"
    [] step = "analyze"  -> pc[p] \in {"analyzeCall", "analyzeWrite", "analyzeDone"}
    [] step = "tts"      -> pc[p] \in {"tts", "render", "rendered", "ttsWrite", "ttsDone"}
    [] OTHER             -> task[p] = step

\* Thread p panicked on the step, or on a stage of the pipeline.
LeftBehind(p, step) ==
  pc[p] = "panicked" /\ (step = "analyze" \/ (step = "pipeline" /\ task[p] = "pipeline"))

\* While one pipeline works on a guide that clients otherwise only delete, a step shown as
\* running has a thread that works on it and will report, or one that panicked on it:
\* there is no third way to lose it.  (With other requests there is: see RunningFlips.)
RunningHasThread ==
  guide # NoRow =>
    \A step \in Steps :
      JobRunning(guide, step) => \E p \in Procs : Working(p, step) \/ LeftBehind(p, step)

Running(step) == guide # NoRow /\ JobRunning(guide, step)

\* The thread of the step panicked, or waits for a helper that may hang.
Stuck(step) ==
  \E p \in Procs : LeftBehind(p, step) \/ (Working(p, step) /\ pc[p] = "render")

\* A step shown as running ends up done or failed, or its guide is deleted
\* (GuideProgress.tsx: "poll the guide payload ... until guide.jobs[run].status
\* flips to 'done' ... or 'failed'"), unless its thread panicked or hangs.
RunningFlips == \A step \in Steps : Running(step) ~> ~Running(step) \/ Stuck(step)
=============================================================================
