-------------------------- MODULE GuideJobs_proofs --------------------------
(***************************************************************************)
(* What holds of GuideJobs for any number of threads, callers and          *)
(* chapters, with failing statements and crashes: the types, that a row    *)
(* keeps its owner and is written for its owner only, that a step in its   *)
(* row as running has a thread or was left by one that panicked, and that  *)
(* a row points only at files that were written or that a client named.    *)
(***************************************************************************)
EXTENDS GuideJobs, TLAPS

LEMMA StepNames ==
  /\ \A s \in {"pipeline", "analyze", "thumbnail", "tts", "chapter-timing",
          "chapter-images", "chapter-real-images"} : s \in Steps
  /\ NoChapters \in ChapterLists
BY DEF Steps, NoChapters, ChapterLists

\* What record_from_body makes of a body is a row.
LEMMA NewGuideType ==
  ASSUME NEW a \in Callers, NEW n \in Nat, NEW b \in Posts
  PROVE  NewGuide(a, n, b) \in Guides
<1>1. (IF b.jobs = Absent THEN [s \in Steps |-> "none"] ELSE b.jobs) \in [Steps -> Status]
  BY DEF Posts, Status
<1> QED
  BY <1>1 DEF Guides, NewGuide, Posts

\* The columns of an update: each is the one of the body or the one it falls back on.
LEMMA ReplacedIs ==
  ASSUME NEW g \in Guides, NEW b \in Posts
  PROVE  /\ Replaced(g, b) \in Guides
         /\ Replaced(g, b).audio = (b.audio \/ g.audio)
         /\ Replaced(g, b).thumb = b.thumb
         /\ Replaced(g, b).jobs = IF b.jobs = Absent THEN g.jobs ELSE b.jobs
         /\ Replaced(g, b).chapters = IF b.chapters.idx = {} THEN g.chapters ELSE b.chapters
<1>1. g.owner \in Callers /\ g.created \in Nat /\ g.audio \in BOOLEAN /\ g.timing \in BOOLEAN
      /\ g.jobs \in [Steps -> Status] /\ g.chapters \in ChapterLists
  BY DEF Guides
<1> DEFINE new == NewGuide(g.owner, g.created, b)
           jobs == IF b.jobs = Absent THEN g.jobs ELSE new.jobs
           chapters == IF b.chapters.idx = {} THEN g.chapters ELSE new.chapters
<1>2. new \in Guides
  BY <1>1, NewGuideType
<1>3. new.audio = b.audio /\ new.thumb = b.thumb /\ new.chapters = b.chapters
      /\ (b.jobs # Absent => new.jobs = b.jobs)
  BY DEF NewGuide
<1>4. jobs \in [Steps -> Status] /\ jobs = IF b.jobs = Absent THEN g.jobs ELSE b.jobs
  BY <1>1, <1>3 DEF Posts
<1>5. chapters \in ChapterLists
      /\ chapters = IF b.chapters.idx = {} THEN g.chapters ELSE b.chapters
  BY <1>1, <1>3 DEF Posts
<1>6. Replaced(g, b) = [new EXCEPT !.audio = new.audio \/ g.audio, !.timing = new.timing \/ g.timing,
                                   !.jobs = jobs, !.chapters = chapters]
  BY DEF Replaced
<1> HIDE DEF new, jobs, chapters
<1>7. new.audio \in BOOLEAN /\ new.timing \in BOOLEAN
  BY <1>2 DEF Guides
<1>8. (new.audio \/ g.audio) \in BOOLEAN /\ (new.timing \/ g.timing) \in BOOLEAN
  OBVIOUS
<1> QED
  BY <1>2, <1>3, <1>4, <1>5, <1>6, <1>8 DEF Guides

\* What a page loads can be posted.
LEMMA CopyType ==
  ASSUME NEW g \in Guides
  PROVE  CopyOf(g) \in Posts
<1>1. g.text \in BOOLEAN /\ g.timing \in BOOLEAN /\ g.jobs \in [Steps -> Status]
  BY DEF Guides
<1> DEFINE partial == ~g.timing /\ JobRunning(g, "tts") /\ parts = "words"
<1>2. (g.text \/ partial) \in BOOLEAN /\ (g.timing \/ partial) \in BOOLEAN
  OBVIOUS
<1>3. CopyOf(g) = [text |-> g.text \/ partial, summary |-> g.summary, chapters |-> g.chapters,
                   thumb |-> g.thumb, audio |-> g.audio, timing |-> g.timing \/ partial,
                   jobs |-> g.jobs]
  BY DEF CopyOf
<1> HIDE DEF partial
<1> QED
  BY <1>1, <1>2, <1>3 DEF Guides, Posts

LEMMA ClaimType ==
  ASSUME NEW d \in Disks, NEW b \in Posts
  PROVE  Claim(d, b) \in Disks /\ NoFiles \in Disks
<1>1. (d.mp3 \/ b.audio \/ Finished(b, "tts")) \in BOOLEAN
      /\ (d.cover \/ b.thumb = "cover" \/ Finished(b, "thumbnail")) \in BOOLEAN
  OBVIOUS
<1>2. d.gen \cup b.chapters.gen \in SUBSET Chapters /\ d.real \cup b.chapters.real \in SUBSET Chapters
  BY DEF Disks, Posts, ChapterLists
<1> QED
  BY <1>1, <1>2 DEF Disks, Claim, NoFiles

LEMMA TypeInit == Init => TypeOK
<1> SUFFICES ASSUME Init PROVE TypeOK
  OBVIOUS
<1>1. guide \in Rows
  <2>1. CASE guide = NoRow
    BY <2>1 DEF Rows
  <2>2. CASE \E a \in Callers, b \in Bodies : guide = NewGuide(a, 0, b)
    BY <2>2, NewGuideType, JobsAssumption DEF Rows, JobsAssumption
  <2>3. QED
    BY <2>1, <2>2 DEF Init
<1>2. pc \in [Procs -> Labels] /\ task \in [Procs -> Tasks] /\ actor \in [Procs -> Callers]
  BY DEF Init, Labels, Tasks, Callers
<1>3. read \in [Procs -> Rows] /\ chs \in [Procs -> ChapterLists] /\ todo \in [Procs -> SUBSET Chapters]
  BY StepNames DEF Init, Rows
<1>4. disk \in Disks /\ claimed \in Disks
  <2>1. NoFiles \in Disks
    BY DEF NoFiles, Disks
  <2> QED
    BY <2>1, ClaimType, JobsAssumption DEF Init, JobsAssumption
<1>5. parts \in {"absent", "empty", "words"} /\ cleanups \in Nat
      /\ requests \in Nat /\ creates \in Nat /\ crashes \in Nat
      /\ page \in Posts \cup {Absent} /\ body \in [Procs -> Posts \cup {Absent}]
  BY DEF Init
<1>6. \A p \in Procs : HoldsRow(p) /\ HoldsBody(p)
  BY DEF Init, HoldsRow, HoldsBody
<1>7. QED
  BY <1>1, <1>2, <1>3, <1>4, <1>5, <1>6 DEF TypeOK

KeepsOwner ==
  guide # NoRow /\ guide' # NoRow => guide'.owner = guide.owner /\ guide'.created = guide.created

\* A row overwritten is a row, of the same owner.
LEMMA OverwrittenType ==
  ASSUME NEW g \in Guides, NEW new \in Guides
  PROVE  /\ Overwritten(g, new) \in Guides
         /\ Overwritten(g, new).owner = g.owner
         /\ Overwritten(g, new).created = g.created
BY DEF Overwritten, Guides

\* What the statements of the store do to the type and the owner of the row.
LEMMA StoreTypes ==
  ASSUME guide \in Rows
  PROVE  /\ \A new \in Guides, a \in Callers : UpdateGuide(new, a) => guide' \in Rows /\ KeepsOwner
         /\ \A new \in Guides : UpdateGuideBySlug(new) => guide' \in Rows /\ KeepsOwner
         /\ \A new \in Guides : InsertGuide(new) => guide' \in Rows /\ KeepsOwner
         /\ \A a \in Callers : DeleteGuide(a) => guide' \in Rows /\ KeepsOwner
BY OverwrittenType DEF Rows, UpdateGuide, UpdateGuideBySlug, InsertGuide, DeleteGuide, KeepsOwner

LEMMA MergeTypes ==
  ASSUME guide \in Rows, NEW step \in Steps, NEW status \in Status, Merge(step, status)
  PROVE  guide' \in Rows /\ KeepsOwner
<1>1. CASE guide \in Guides /\ guide' = [guide EXCEPT !.jobs[step] = status]
  <2>1. [guide.jobs EXCEPT ![step] = status] \in [Steps -> Status]
    BY <1>1 DEF Guides
  <2>2. guide' = [guide EXCEPT !.jobs = [guide.jobs EXCEPT ![step] = status]]
    BY <1>1
  <2>3. guide' \in Guides /\ KeepsOwner
    BY <1>1, <2>1, <2>2 DEF Guides, KeepsOwner
  <2>4. QED
    BY <2>3 DEF Rows
<1>2. CASE guide' = guide
  BY <1>2 DEF KeepsOwner
<1>3. QED
  BY <1>1, <1>2 DEF Merge, MergeJob, Rows

-----------------------------------------------------------------------------
(* How a thread moves.                                                     *)

LocalOK ==
  /\ pc \in [Procs -> Labels]
  /\ task \in [Procs -> Tasks]
  /\ actor \in [Procs -> Callers]
  /\ read \in [Procs -> Rows]
  /\ chs \in [Procs -> ChapterLists]
  /\ todo \in [Procs -> SUBSET Chapters]
  /\ body \in [Procs -> Posts \cup {Absent}]
  /\ \A p \in Procs : HoldsRow(p) /\ HoldsBody(p)

LEMMA GotoTypes ==
  ASSUME LocalOK, NEW p \in Procs, NEW l \in Labels, NEW r \in Rows, Goto(p, l, r),
         l \notin {"insert", "update"},
         l \in {"spawnPipeline", "analyzeMark", "analyzeCall", "analyzeDone", "thumbCall",
               "thumbDone", "render", "rendered", "ttsDone", "timingDone", "imagesDone", "panicked"}
           \/ r # NoRow
  PROVE  LocalOK'
BY DEF LocalOK, Goto, HoldsRow, HoldsBody

LEMMA ExitTypes ==
  ASSUME LocalOK, NEW p \in Procs, Exit(p)
  PROVE  LocalOK'
BY StepNames DEF LocalOK, Exit, Labels, Tasks, Callers, Rows, HoldsRow, HoldsBody

Stages == {"analyze", "thumbnail", "tts", "timing", "images"}

LEMMA LeaveTypes ==
  ASSUME LocalOK, NEW p \in Procs, NEW stage \in Stages, Leave(p, stage)
  PROVE  LocalOK'
<1>1. NextStage[stage] \in {"thumbnail", "tts", "timing", "images", "pipelineDone"}
  BY DEF NextStage, Stages
<1>2. CASE task[p] = "pipeline"
  BY <1>1, <1>2, StepNames DEF LocalOK, Leave, Rows, Labels, HoldsRow, HoldsBody
<1>3. CASE task[p] # "pipeline"
  BY <1>3, ExitTypes DEF Leave
<1>4. QED
  BY <1>2, <1>3

LEMMA SpawnTypes ==
  ASSUME LocalOK, guide \in Rows, NEW p \in Procs, NEW at, NEW step \in Steps \cap Tasks,
         NEW first \in {"analyze", "tts", "images"}, Spawn(p, at, step, first)
  PROVE  guide' \in Rows /\ KeepsOwner /\ LocalOK'
<1>1. "running" \in Status
  BY DEF Status
<1>2. guide' \in Rows /\ KeepsOwner
  BY <1>1, MergeTypes DEF Spawn
<1>3. LocalOK'
  BY DEF LocalOK, Spawn, Callers, Rows, Labels, HoldsRow, HoldsBody
<1>4. QED
  BY <1>2, <1>3

-----------------------------------------------------------------------------
(* Every action keeps the types, one step per action.                      *)

TypeInv == TypeOK /\ LocalOK

Moved == guide' \in Rows /\ KeepsOwner /\ LocalOK'

LEMMA RequestTypes ==
  ASSUME TypeInv, NEW p \in Procs, Request(p)
  PROVE  TypeInv' /\ KeepsOwner
<1> USE DEF TypeInv, TypeOK
<1>1. ASSUME NEW a \in Callers, NEW l \in Labels, Begin(p, a, l), guide # NoRow \/ l = "insert",
             body' \in [Procs -> Posts \cup {Absent}],
             l \in {"insert", "update"} => body'[p] # Absent,
             \A q \in Procs : q # p => body'[q] = body[q]
      PROVE  LocalOK' /\ guide' \in Rows /\ KeepsOwner /\ UNCHANGED <<disk, parts, cleanups, crashes>>
  BY <1>1 DEF Begin, LocalOK, Tasks, HoldsRow, HoldsBody, KeepsOwner
<1>2. ASSUME NEW e, Receive(p, e)
      PROVE  requests' \in Nat
  BY <1>2 DEF Receive
<1>3. ASSUME NEW a \in Callers, ReceiveCreate(p, a)
      PROVE  TypeInv' /\ KeepsOwner
  <2>1. "insert" \in Labels /\ "update" \in Labels
    BY DEF Labels
  <2>2. PICK b \in Posts : body' = [body EXCEPT ![p] = b]
    BY <1>3, JobsAssumption DEF ReceiveCreate, Written, Published, JobsAssumption
  <2>3. creates' \in Nat /\ requests' \in Nat
    BY <1>2, <1>3 DEF ReceiveCreate, Written, Published
  <2>4. page' \in Posts \cup {Absent} /\ claimed' \in Disks
    BY <1>3, ClaimType, JobsAssumption DEF ReceiveCreate, Written, Published, JobsAssumption
  <2>5. /\ body' \in [Procs -> Posts \cup {Absent}] /\ body'[p] # Absent
        /\ \A q \in Procs : q # p => body'[q] = body[q]
    BY <2>2, JobsAssumption DEF JobsAssumption
  <2>6. LocalOK' /\ guide' \in Rows /\ KeepsOwner /\ UNCHANGED <<disk, parts, cleanups, crashes>>
    BY <1>1, <1>3, <2>1, <2>5 DEF ReceiveCreate
  <2>7. QED
    BY <1>3, <2>3, <2>4, <2>6 DEF LocalOK
<1>4. ASSUME NEW a \in Callers, ReceiveDelete(p, a)
      PROVE  TypeInv' /\ KeepsOwner
  <2>1. guide' \in Rows /\ KeepsOwner
    BY <1>4, StoreTypes DEF ReceiveDelete
  <2>2. LocalOK'
    BY <1>4 DEF ReceiveDelete, local, LocalOK, HoldsRow, HoldsBody
  <2>3. QED
    BY <1>2, <1>4, <2>1, <2>2 DEF ReceiveDelete, LocalOK, client
<1>5. ASSUME NEW a \in Callers, NEW e \in Endpoints, ReceiveOther(p, a, e)
      PROVE  TypeInv' /\ KeepsOwner
  <2>1. Entry(e) \in Labels \ {"insert", "update"}
    BY <1>5, JobsAssumption DEF ReceiveOther, Entry, Labels, AllEndpoints, JobsAssumption
  <2>2. LocalOK' /\ guide' \in Rows /\ KeepsOwner /\ UNCHANGED <<disk, parts, cleanups, crashes>>
    BY <1>1, <1>5, <2>1 DEF ReceiveOther
  <2>3. QED
    BY <1>2, <1>5, <2>2 DEF ReceiveOther, LocalOK, client
<1>6. QED
  BY <1>3, <1>4, <1>5 DEF Request

\* What the jobs and handlers write back is a row again.
LEMMA Edits ==
  ASSUME NEW g \in Guides
  PROVE  /\ \A cs \in ChapterLists : /\ [g EXCEPT !.chapters = cs] \in Guides
                                     /\ [g EXCEPT !.summary = TRUE, !.chapters = cs] \in Guides
         /\ [g EXCEPT !.audio = TRUE] \in Guides
         /\ [g EXCEPT !.thumb = "cover"] \in Guides
         /\ [g EXCEPT !.text = TRUE, !.audio = TRUE, !.timing = TRUE] \in Guides
BY DEF Guides

LEMMA ListedType == \A cs \in SUBSET Chapters : Listed(cs) \in ChapterLists
BY DEF Listed, ChapterLists

LEMMA RequestStepTypes ==
  ASSUME guide \in Rows, LocalOK, creates \in Nat, NEW p \in Procs, Handle(p)
  PROVE  Moved
<1> USE DEF Moved, KeepsOwner
<1>1. read[p] \in Rows /\ actor[p] \in Callers
  BY DEF LocalOK
<1>2. "spawnPipeline" \in Labels /\ "uploadWrite" \in Labels /\ NoRow \in Rows
  BY DEF Labels, Rows
<1>3. CASE InsertNew(p)
  <2>1. body[p] \in Posts
    BY <1>3 DEF InsertNew, LocalOK, HoldsBody
  <2>2. NewGuide(actor[p], creates, body[p]) \in Guides
    BY <1>1, <2>1, NewGuideType
  <2>3. \/ InsertGuide(NewGuide(actor[p], creates, body[p])) /\ Goto(p, "spawnPipeline", NoRow)
        \/ UNCHANGED guide /\ Exit(p)
    BY <1>3 DEF InsertNew
  <2>4. QED
    BY <1>2, <2>2, <2>3, StoreTypes, GotoTypes, ExitTypes
<1>4. CASE UpdateExisting(p)
  <2>1. UpdateGuide(Replaced(read[p], body[p]), actor[p]) \/ UNCHANGED guide
    BY <1>4 DEF UpdateExisting
  <2>2. read[p] \in Guides /\ body[p] \in Posts
    BY <1>1, <1>4 DEF UpdateExisting, LocalOK, HoldsRow, HoldsBody, Rows
  <2>3. Replaced(read[p], body[p]) \in Guides
    BY <2>2, ReplacedIs
  <2>4. QED
    BY <1>1, <1>4, <2>1, <2>3, StoreTypes, ExitTypes DEF UpdateExisting
<1>5. CASE EditFails(p)
  BY <1>5, ExitTypes DEF EditFails
<1>6. CASE EditWrite(p)
  <2>1. read[p] \in Guides
    BY <1>1, <1>6 DEF EditWrite, LocalOK, HoldsRow, Rows
  <2>2. \A new \in Edited(p) : new \in Guides
    <3>1. CASE pc[p] = "autoWrite"
      <4>1. Edited(p) = {[read[p] EXCEPT !.chapters = Listed(cs)] : cs \in (SUBSET Chapters) \ {{}}}
        BY <3>1 DEF Edited
      <4>2. QED
        BY <2>1, <4>1, Edits, ListedType
    <3>2. CASE pc[p] = "dateWrite"
      BY <2>1, <3>2 DEF Edited
    <3>3. CASE pc[p] = "uploadWrite"
      <4>1. Edited(p) = {[read[p] EXCEPT !.audio = TRUE]}
        BY <3>3 DEF Edited
      <4>2. QED
        BY <2>1, <4>1, Edits, StepNames
    <3>4. QED
      BY <1>6, <3>1, <3>2, <3>3 DEF EditWrite
  <2>3. QED
    BY <1>1, <1>6, <2>2, StoreTypes, ExitTypes DEF EditWrite
<1>7. CASE UploadFile(p)
  <2>1. read[p] # NoRow
    BY <1>7 DEF UploadFile, LocalOK, HoldsRow
  <2>2. QED
    BY <1>1, <1>2, <1>7, <2>1, GotoTypes DEF UploadFile
<1>8. CASE SpawnPipeline(p) \/ SpawnTts(p) \/ SpawnImages(p) \/ SpawnReal(p)
  <2>1. {"pipeline", "tts", "chapter-images", "chapter-real-images"} \subseteq Steps \cap Tasks
    BY DEF Steps, Tasks
  <2>2. QED
    BY <1>8, <2>1, SpawnTypes DEF SpawnPipeline, SpawnTts, SpawnImages, SpawnReal
<1>9. QED
  BY <1>3, <1>4, <1>5, <1>6, <1>7, <1>8 DEF Handle

\* What every use of ReadThen comes to, whatever it asks of the row.
Read(p, l, stage) == (guide # NoRow /\ Goto(p, l, guide)) \/ Leave(p, stage)

LEMMA ReadTypes ==
  ASSUME guide \in Rows, LocalOK, NEW p \in Procs, NEW l \in Labels \ {"insert", "update"},
         NEW stage \in Stages, Read(p, l, stage)
  PROVE  LocalOK'
BY GotoTypes, LeaveTypes DEF Read

LEMMA Names ==
  /\ Stages = {"analyze", "thumbnail", "tts", "timing", "images"}
  /\ {"analyzeMark", "analyzeCall", "analyzeWrite", "analyzeDone", "thumbCall", "thumbWrite",
      "thumbDone", "render", "rendered", "ttsWrite", "ttsDone", "timingWrite", "timingDone",
      "imagesCall", "imagesWrite", "imagesDone", "panicked"} \subseteq Labels
  /\ {"running", "done", "failed"} \subseteq Status
  /\ {"pipeline", "analyze", "thumbnail", "tts", "chapter-timing", "chapter-images",
      "chapter-real-images"} \subseteq Steps
  /\ NoRow \in Rows
BY DEF Stages, Labels, Status, Steps, Rows

LEMMA AnalyzeTypes ==
  ASSUME guide \in Rows, LocalOK, NEW p \in Procs, Analyze(p)
  PROVE  Moved
<1> USE DEF Moved, KeepsOwner
<1>1. CASE AnalyzeRead(p)
  <2>1. Read(p, "analyzeMark", "analyze")
    BY <1>1 DEF AnalyzeRead, ReadThen, Read
  <2>2. QED
    BY <1>1, <2>1, ReadTypes, Names DEF AnalyzeRead
<1>2. CASE AnalyzeMark(p)
  BY <1>2, MergeTypes, GotoTypes, Names DEF AnalyzeMark
<1>3. CASE AnalyzeFails(p) \/ AnalyzePanics(p)
  BY <1>3, MergeTypes, LeaveTypes, GotoTypes, Names DEF AnalyzeFails, AnalyzePanics
<1>4. CASE AnalyzeReply(p)
  <2>1. Read(p, "analyzeWrite", "analyze")
    BY <1>4 DEF AnalyzeReply, ReadThen, Read
  <2>2. QED
    BY <1>4, <2>1, ReadTypes, Names DEF AnalyzeReply
<1>5. CASE AnalyzeWrite(p)
  <2>1. PICK cs \in SUBSET Chapters :
          \/ /\ UpdateGuideBySlug([read[p] EXCEPT !.summary = TRUE,
                    !.chapters = IF read[p].chapters.idx = {} THEN Listed(cs) ELSE @])
             /\ Goto(p, "analyzeDone", NoRow)
          \/ UNCHANGED guide /\ Leave(p, "analyze")
    BY <1>5 DEF AnalyzeWrite
  <2>2. read[p] \in Guides
    BY <1>5 DEF AnalyzeWrite, LocalOK, HoldsRow, Rows
  <2>3. (IF read[p].chapters.idx = {} THEN Listed(cs) ELSE read[p].chapters) \in ChapterLists
    BY <2>2, ListedType DEF Guides
  <2>4. [read[p] EXCEPT !.summary = TRUE,
           !.chapters = IF read[p].chapters.idx = {} THEN Listed(cs) ELSE @] \in Guides
    BY <2>2, <2>3 DEF Guides
  <2>5. QED
    BY <2>1, <2>4, StoreTypes, GotoTypes, LeaveTypes, Names
<1>6. CASE AnalyzeDone(p)
  BY <1>6, MergeTypes, LeaveTypes, Names DEF AnalyzeDone
<1>7. QED
  BY <1>1, <1>2, <1>3, <1>4, <1>5, <1>6 DEF Analyze

LEMMA ThumbnailTypes ==
  ASSUME guide \in Rows, LocalOK, NEW p \in Procs, Thumbnail(p)
  PROVE  Moved
<1> USE DEF Moved, KeepsOwner
<1>1. CASE ThumbRead(p)
  <2>1. Read(p, "thumbCall", "thumbnail")
    BY <1>1 DEF ThumbRead, ReadThen, Read
  <2>2. QED
    BY <1>1, <2>1, ReadTypes, Names DEF ThumbRead
<1>2. CASE ThumbFails(p)
  BY <1>2, MergeTypes, LeaveTypes, Names DEF ThumbFails
<1>3. CASE ThumbReply(p)
  <2>1. Read(p, "thumbWrite", "thumbnail")
    BY <1>3 DEF ThumbReply, ReadThen, Read
  <2>2. QED
    BY <1>3, <2>1, ReadTypes, Names DEF ThumbReply
<1>4. CASE ThumbWrite(p)
  <2>1. read[p] \in Guides
    BY <1>4 DEF ThumbWrite, LocalOK, HoldsRow, Rows
  <2>2. [read[p] EXCEPT !.thumb = "cover"] \in Guides
    BY <2>1, Edits, StepNames
  <2>3. QED
    BY <1>4, <2>2, StoreTypes, GotoTypes, LeaveTypes, Names DEF ThumbWrite
<1>5. CASE ThumbDone(p)
  BY <1>5, MergeTypes, LeaveTypes, Names DEF ThumbDone
<1>6. QED
  BY <1>1, <1>2, <1>3, <1>4, <1>5 DEF Thumbnail

LEMMA TtsTypes ==
  ASSUME guide \in Rows, LocalOK, NEW p \in Procs, Tts(p) \/ Render(p)
  PROVE  Moved
<1> USE DEF Moved, KeepsOwner
<1>1. CASE TtsRead(p)
  <2>1. Read(p, "render", "tts")
    BY <1>1 DEF TtsRead, ReadThen, Read
  <2>2. QED
    BY <1>1, <2>1, ReadTypes, Names DEF TtsRead
<1>2. CASE RenderChunk(p)
  BY <1>2 DEF RenderChunk, local, LocalOK, HoldsRow, HoldsBody
<1>3. CASE RenderEnds(p)
  BY <1>3, GotoTypes, Names DEF RenderEnds
<1>4. CASE RenderFails(p) \/ NoResult(p)
  BY <1>4, MergeTypes, LeaveTypes, Names DEF RenderFails, NoResult, TtsFailed
<1>5. CASE TtsReply(p)
  <2>1. Read(p, "ttsWrite", "tts")
    BY <1>5 DEF TtsReply, ReadThen, Read
  <2>2. QED
    BY <1>5, <2>1, ReadTypes, Names DEF TtsReply
<1>6. CASE TtsWrite(p)
  <2>1. read[p] \in Guides
    BY <1>6 DEF TtsWrite, LocalOK, HoldsRow, Rows
  <2>2. [read[p] EXCEPT !.text = TRUE, !.audio = TRUE, !.timing = TRUE] \in Guides
    BY <2>1, Edits, StepNames
  <2>3. QED
    BY <1>6, <2>2, StoreTypes, GotoTypes, Names DEF TtsWrite
<1>7. CASE TtsDone(p)
  BY <1>7, MergeTypes, LeaveTypes, Names DEF TtsDone
<1>8. QED
  BY <1>1, <1>2, <1>3, <1>4, <1>5, <1>6, <1>7 DEF Tts, Render

LEMMA TimingTypes ==
  ASSUME guide \in Rows, LocalOK, NEW p \in Procs, Timing(p)
  PROVE  Moved
<1> USE DEF Moved, KeepsOwner
<1>1. CASE TimingRead(p)
  <2>1. Read(p, "timingWrite", "timing")
    BY <1>1 DEF TimingRead, ReadThen, Read
  <2>2. QED
    BY <1>1, <2>1, ReadTypes, Names DEF TimingRead
<1>2. CASE TimingWrite(p)
  <2>1. read[p] \in Guides
    BY <1>2 DEF TimingWrite, LocalOK, HoldsRow, Rows
  <2>2. \A cs \in SUBSET read[p].chapters.idx : [read[p] EXCEPT !.chapters = Listed(cs)] \in Guides
    <3>1. read[p].chapters.idx \subseteq Chapters
      BY <2>1 DEF Guides, ChapterLists
    <3>2. QED
      BY <2>1, <3>1, Edits, ListedType
  <2>3. QED
    BY <1>2, <2>2, StoreTypes, GotoTypes, LeaveTypes, Names DEF TimingWrite
<1>3. CASE TimingDone(p)
  BY <1>3, MergeTypes, LeaveTypes, Names DEF TimingDone
<1>4. QED
  BY <1>1, <1>2, <1>3 DEF Timing

LEMMA ImagesTypes ==
  ASSUME guide \in Rows, LocalOK, NEW p \in Procs, Images(p)
  PROVE  Moved
<1> USE DEF Moved, KeepsOwner
<1>1. CASE ImagesRead(p)
  <2>1. CASE Leave(p, "images")
    BY <1>1, <2>1, LeaveTypes, Names DEF ImagesRead
  <2>2. CASE /\ guide # NoRow
             /\ pc' = [pc EXCEPT ![p] = "imagesCall"]
             /\ chs' = [chs EXCEPT ![p] = guide.chapters]
             /\ todo' = [todo EXCEPT ![p] = Missing(p, guide.chapters)]
             /\ UNCHANGED <<task, actor, read, body>>
    <3>1. guide.chapters \in ChapterLists
      BY <2>2 DEF Rows, Guides
    <3>2. Missing(p, guide.chapters) \subseteq Chapters
      BY <3>1 DEF Missing, ChapterLists
    <3>3. QED
      BY <1>1, <2>2, <3>1, <3>2, Names DEF ImagesRead, LocalOK, HoldsRow, HoldsBody
  <2>3. QED
    BY <1>1, <2>1, <2>2 DEF ImagesRead
<1>2. CASE ImageMade(p)
  <2>1. PICK c \in todo[p] :
          \/ chs' = [chs EXCEPT ![p].real = @ \cup {c}]
          \/ chs' = [chs EXCEPT ![p].gen = @ \cup {c}]
    BY <1>2 DEF ImageMade
  <2>2. c \in Chapters /\ chs[p] \in ChapterLists
    BY DEF LocalOK
  <2>3. [chs[p] EXCEPT !.real = @ \cup {c}] \in ChapterLists
        /\ [chs[p] EXCEPT !.gen = @ \cup {c}] \in ChapterLists
    BY <2>2 DEF ChapterLists
  <2>4. chs' \in [Procs -> ChapterLists]
    BY <2>1, <2>3 DEF LocalOK
  <2>5. todo' \in [Procs -> SUBSET Chapters]
    BY <1>2 DEF ImageMade, LocalOK
  <2>6. QED
    BY <1>2, <2>4, <2>5 DEF ImageMade, LocalOK, HoldsRow, HoldsBody
<1>3. CASE ImageSkipped(p)
  BY <1>3 DEF ImageSkipped, LocalOK, HoldsRow, HoldsBody
<1>4. CASE ImageFails(p)
  BY <1>4, MergeTypes, LeaveTypes, Names DEF ImageFails
<1>5. CASE ImagesReply(p)
  <2>1. Read(p, "imagesWrite", "images")
    BY <1>5 DEF ImagesReply, ReadThen, Read
  <2>2. QED
    BY <1>5, <2>1, ReadTypes, Names DEF ImagesReply
<1>6. CASE ImagesWrite(p)
  <2>1. read[p] \in Guides /\ chs[p] \in ChapterLists
    BY <1>6 DEF ImagesWrite, LocalOK, HoldsRow, Rows
  <2>2. [read[p] EXCEPT !.chapters = chs[p]] \in Guides
    BY <2>1, Edits
  <2>3. QED
    BY <1>6, <2>2, StoreTypes, GotoTypes, Names DEF ImagesWrite
<1>7. CASE ImagesDone(p)
  BY <1>7, MergeTypes, LeaveTypes, Names DEF ImagesDone, ImageStep
<1>8. CASE ImagesSkipped(p)
  BY <1>8, MergeTypes, LeaveTypes, Names DEF ImagesSkipped
<1>9. QED
  BY <1>1, <1>2, <1>3, <1>4, <1>5, <1>6, <1>7, <1>8 DEF Images

\* The files, the directory of parts and the counters.
Rest ==
  /\ disk \in Disks
  /\ parts \in {"absent", "empty", "words"}
  /\ cleanups \in Nat
  /\ page \in Posts \cup {Absent} /\ claimed \in Disks
  /\ requests \in Nat /\ creates \in Nat /\ crashes \in Nat

LEMMA RestTypes ==
  ASSUME LocalOK, Rest, NEW p \in Procs, Run(p) \/ Render(p)
  PROVE  Rest'
<1>1. ASSUME Untouched
      PROVE  Rest'
  BY <1>1 DEF Untouched, bounds, client, Rest
<1>2. CASE Handle(p)
  <2>1. CASE UploadFile(p)
    BY <2>1 DEF UploadFile, Rest, Disks, bounds, client
  <2>2. CASE ~UploadFile(p)
    <3>1. Untouched
      BY <1>2, <2>2 DEF Handle, InsertNew, UpdateExisting, EditFails, EditWrite, SpawnPipeline,
        SpawnTts, SpawnImages, SpawnReal, Spawn, Untouched
    <3>2. QED
      BY <1>1, <3>1
  <2>3. QED
    BY <2>1, <2>2
<1>3. CASE Analyze(p)
  BY <1>1, <1>3 DEF Analyze, AnalyzeRead, AnalyzeMark, AnalyzeFails, AnalyzePanics, AnalyzeReply,
    AnalyzeWrite, AnalyzeDone
<1>4. CASE Thumbnail(p)
  <2>1. CASE ThumbReply(p)
    BY <2>1 DEF ThumbReply, Rest, Disks, bounds, client
  <2>2. CASE ~ThumbReply(p)
    BY <1>1, <1>4, <2>2 DEF Thumbnail, ThumbRead, ThumbFails, ThumbWrite, ThumbDone
  <2>3. QED
    BY <2>1, <2>2
<1>5. CASE Tts(p)
  <2>1. CASE TtsRead(p)
    BY <2>1 DEF TtsRead, Rest, bounds, client
  <2>2. CASE NoResult(p) \/ TtsDone(p)
    BY <2>2 DEF NoResult, TtsFailed, TtsDone, Rest, bounds, client
  <2>3. CASE TtsReply(p) \/ TtsWrite(p)
    BY <1>1, <2>3 DEF TtsReply, TtsWrite
  <2>4. QED
    BY <1>5, <2>1, <2>2, <2>3 DEF Tts
<1>6. CASE Render(p)
  <2>1. CASE RenderChunk(p)
    BY <2>1 DEF RenderChunk, Rest, bounds, client
  <2>2. CASE RenderEnds(p)
    BY <2>2 DEF RenderEnds, Rest, Disks, bounds, client
  <2>3. CASE RenderFails(p)
    BY <2>3 DEF RenderFails, TtsFailed, Rest, bounds, client
  <2>4. QED
    BY <1>6, <2>1, <2>2, <2>3 DEF Render
<1>7. CASE Timing(p)
  BY <1>1, <1>7 DEF Timing, TimingRead, TimingWrite, TimingDone
<1>8. CASE Images(p)
  <2>1. CASE ImageMade(p)
    <3>1. todo[p] \subseteq Chapters
      BY DEF LocalOK
    <3>2. QED
      BY <2>1, <3>1 DEF ImageMade, Rest, Disks, bounds, client
  <2>2. CASE ~ImageMade(p)
    BY <1>1, <1>8, <2>2 DEF Images, ImagesRead, ImageSkipped, ImageFails, ImagesReply,
      ImagesWrite, ImagesDone, ImagesSkipped
  <2>3. QED
    BY <2>1, <2>2
<1>9. CASE PipelineDone(p) \/ JobCannotOpen(p)
  BY <1>1, <1>9 DEF PipelineDone, JobCannotOpen
<1>10. QED
  BY <1>2, <1>3, <1>4, <1>5, <1>6, <1>7, <1>8, <1>9 DEF Run

LEMMA TypeStep == TypeInv /\ [Next]_vars => TypeInv' /\ KeepsOwner
<1> SUFFICES ASSUME TypeInv, [Next]_vars PROVE TypeInv' /\ KeepsOwner
  OBVIOUS
<1>1. guide \in Rows /\ LocalOK /\ Rest /\ creates \in Nat
  BY DEF TypeInv, TypeOK, Rest
<1>2. ASSUME guide' \in Rows, LocalOK', Rest', KeepsOwner
      PROVE  TypeInv' /\ KeepsOwner
  BY <1>2 DEF TypeInv, TypeOK, LocalOK, Rest
<1>3. ASSUME NEW p \in Procs, Run(p) \/ Render(p)
      PROVE  TypeInv' /\ KeepsOwner
  <2>1. CASE PipelineDone(p)
    <3>1. guide' \in Rows /\ KeepsOwner /\ LocalOK'
      BY <1>1, <2>1, MergeTypes, ExitTypes, Names DEF PipelineDone
    <3>2. QED
      BY <1>1, <1>2, <1>3, <3>1, RestTypes
  <2>2. CASE JobCannotOpen(p)
    <3>1. LocalOK' /\ guide' = guide /\ KeepsOwner
      BY <1>1, <2>2, LeaveTypes, ExitTypes, Names DEF JobCannotOpen, KeepsOwner
    <3>2. QED
      BY <1>1, <1>2, <1>3, <3>1, RestTypes
  <2>3. CASE Handle(p) \/ Analyze(p) \/ Thumbnail(p) \/ Tts(p) \/ Render(p) \/ Timing(p) \/ Images(p)
    <3>1. Moved
      BY <1>1, <2>3, RequestStepTypes, AnalyzeTypes, ThumbnailTypes, TtsTypes, TimingTypes, ImagesTypes
    <3>2. QED
      BY <1>1, <1>2, <1>3, <3>1, RestTypes DEF Moved
  <2>4. QED
    BY <1>3, <2>1, <2>2, <2>3 DEF Run
<1>4. CASE CleanupParts
  BY <1>1, <1>2, <1>4 DEF CleanupParts, local, LocalOK, HoldsRow, HoldsBody, Rest, bounds, client, KeepsOwner
<1>5. CASE Crash
  <2>1. LocalOK'
    BY <1>1, <1>5, StepNames, Names DEF Crash, LocalOK, HoldsRow, HoldsBody, Labels, Tasks, Callers
  <2>2. QED
    BY <1>1, <1>2, <1>5, <2>1 DEF Crash, Rest, client, KeepsOwner
<1>6. CASE UNCHANGED vars
  BY <1>1, <1>2, <1>6 DEF vars, local, bounds, client, LocalOK, HoldsRow, HoldsBody, Rest, KeepsOwner
<1>7. CASE PageLoads
  <2>1. guide \in Guides
    BY <1>1, <1>7 DEF PageLoads, Rows
  <2>2. Rest'
    BY <1>1, <1>7, <2>1, CopyType DEF PageLoads, Rest
  <2> QED
    BY <1>1, <1>2, <1>7, <2>2 DEF PageLoads, local, LocalOK, HoldsRow, HoldsBody, KeepsOwner
<1>8. QED
  BY <1>3, <1>4, <1>5, <1>6, <1>7, RequestTypes DEF Next

LEMMA Typed == Spec => []TypeInv
<1>1. Init => TypeInv
  BY TypeInit DEF Init, TypeInv, TypeOK, LocalOK, HoldsRow
<1>2. QED
  BY <1>1, TypeStep, PTL DEF Spec

\* Whatever the handlers and jobs do, every variable keeps its type, and so does
\* every row a thread writes back.
THEOREM TypeCorrect == Spec => []TypeOK
<1>1. TypeInv => TypeOK
  BY DEF TypeInv
<1>2. QED
  BY <1>1, Typed, PTL

\* Whatever is written back, and however old the row it was read from: as long
\* as the row exists its owner and its creation time do not change.
THEOREM OwnershipKept == Spec => OwnershipFixed
BY Typed, TypeStep, PTL DEF Spec, OwnershipFixed, KeepsOwner

-----------------------------------------------------------------------------
(* Requests and the owner of the row.                                      *)

\* The endpoints whose handlers write with the caller in the WHERE clause.  Those of
\* run_analyze, run_thumbnail and run_chapter_timing write by slug, from a request too.
WritesAsCaller == Endpoints \cap {"analyze", "thumbnail", "chapter-timing"} = {}

RequestLabels == {"insert", "update", "spawnPipeline", "spawnTts", "spawnImages", "spawnReal",
                  "autoWrite", "dateWrite", "uploadFile", "uploadWrite"}

\* So a thread that still runs its request is at a label of a handler.
InHandler == \A p \in Procs : task[p] = "request" => pc[p] \in RequestLabels

\* The step is one of q, and leaves it at the label of a handler if it has a request.
MovesOf(q) ==
  /\ \A p \in Procs : p # q => pc'[p] = pc[p] /\ task'[p] = task[p]
  /\ task'[q] = "request" => pc'[q] \in RequestLabels

\* What the row is to somebody who must not write it.
RowRespected(a) ==
  guide # NoRow /\ guide' # NoRow /\ Content(guide') # Content(guide) => CallerMayWrite(guide, a)

RespectsOwner ==
  \A p \in Procs : task[p] = "request" /\ (pc'[p] # pc[p] \/ task'[p] # task[p]) => RowRespected(actor[p])

LEMMA MovesRespect ==
  ASSUME InHandler, NEW q \in Procs, MovesOf(q), task[q] = "request" => RowRespected(actor[q])
  PROVE  InHandler' /\ RespectsOwner
  BY DEF InHandler, MovesOf, RespectsOwner

\* The steps of a job: it is not a request, and none of them makes it one.
LEMMA JobMoves ==
  ASSUME LocalOK, NEW q \in Procs, task[q] # "request",
         \/ UNCHANGED <<pc, task>>
         \/ UNCHANGED task /\ \E l : pc' = [pc EXCEPT ![q] = l]
         \/ \E l, r : Goto(q, l, r)
         \/ Exit(q)
         \/ \E stage : Leave(q, stage)
  PROVE  MovesOf(q)
<1>1. DOMAIN pc = Procs /\ DOMAIN task = Procs
  BY DEF LocalOK
<1> QED
  BY <1>1 DEF MovesOf, Goto, Exit, Leave

\* A merge touches no column but jobs_json.
LEMMA MergeRespects ==
  ASSUME guide \in Rows, NEW step, NEW status, Merge(step, status), NEW a
  PROVE  RowRespected(a)
<1>1. CASE guide' = guide
  BY <1>1 DEF RowRespected
<1>2. CASE guide \in Guides /\ guide' = [guide EXCEPT !.jobs[step] = status]
  <2>1. Content(guide') = Content(guide)
    BY <1>2 DEF Content, Guides
  <2> QED
    BY <2>1 DEF RowRespected
<1> QED
  BY <1>1, <1>2 DEF Merge, MergeJob, Rows

LEMMA HandlerMoves ==
  ASSUME TypeInv, InHandler, NEW q \in Procs, Handle(q)
  PROVE  InHandler' /\ RespectsOwner
<1>1. guide \in Rows /\ LocalOK /\ DOMAIN pc = Procs /\ DOMAIN task = Procs
  BY DEF TypeInv, TypeOK, LocalOK
<1>2. ASSUME Exit(q) PROVE MovesOf(q)
  BY <1>1, <1>2 DEF Exit, MovesOf
<1>3. ASSUME NEW l \in RequestLabels, NEW r, Goto(q, l, r) PROVE MovesOf(q)
  BY <1>1, <1>3 DEF Goto, MovesOf
<1>4. ASSUME guide' = guide \/ guide = NoRow \/ CallerMayWrite(guide, actor[q]) PROVE RowRespected(actor[q])
  BY <1>4 DEF RowRespected
<1>5. ASSUME NEW new, UpdateGuide(new, actor[q]) PROVE RowRespected(actor[q])
  BY <1>4, <1>5 DEF UpdateGuide
<1>6. "spawnPipeline" \in RequestLabels /\ "uploadWrite" \in RequestLabels
  BY DEF RequestLabels
<1>7. CASE InsertNew(q)
  <2>1. MovesOf(q)
    BY <1>2, <1>3, <1>6, <1>7 DEF InsertNew
  <2>2. guide' = guide \/ guide = NoRow
    BY <1>7 DEF InsertNew
  <2> QED
    BY <1>4, <2>1, <2>2, MovesRespect
<1>8. CASE UpdateExisting(q)
  BY <1>2, <1>4, <1>5, <1>8, MovesRespect DEF UpdateExisting
<1>9. CASE EditFails(q)
  BY <1>2, <1>4, <1>9, MovesRespect DEF EditFails
<1>10. CASE EditWrite(q)
  BY <1>2, <1>4, <1>5, <1>10, MovesRespect DEF EditWrite
<1>11. CASE UploadFile(q)
  BY <1>3, <1>4, <1>6, <1>11, MovesRespect DEF UploadFile
<1>12. ASSUME NEW at, NEW step \in Tasks \ {"request"}, NEW l, Spawn(q, at, step, l)
       PROVE  InHandler' /\ RespectsOwner
  <2>1. MovesOf(q)
    BY <1>1, <1>12 DEF Spawn, MovesOf
  <2> QED
    BY <1>1, <1>12, <2>1, MergeRespects, MovesRespect DEF Spawn
<1>13. CASE SpawnPipeline(q) \/ SpawnTts(q) \/ SpawnImages(q) \/ SpawnReal(q)
  BY <1>12, <1>13 DEF SpawnPipeline, SpawnTts, SpawnImages, SpawnReal, Tasks
<1> QED
  BY <1>7, <1>8, <1>9, <1>10, <1>11, <1>13 DEF Handle

\* A job is at none of the labels of a handler.
LEMMA JobRuns ==
  ASSUME TypeInv, InHandler, NEW q \in Procs,
         Analyze(q) \/ Thumbnail(q) \/ Tts(q) \/ Render(q) \/ Timing(q) \/ Images(q) \/ PipelineDone(q) \/ JobCannotOpen(q)
  PROVE  InHandler' /\ RespectsOwner
<1>1. pc[q] \notin RequestLabels
  BY DEF RequestLabels, Analyze, AnalyzeRead, AnalyzeMark, AnalyzeFails, AnalyzePanics, AnalyzeReply,
         AnalyzeWrite, AnalyzeDone, Thumbnail, ThumbRead, ThumbFails, ThumbReply, ThumbWrite, ThumbDone,
         Tts, TtsRead, RenderFails, NoResult, TtsReply, TtsWrite, TtsDone, Render, RenderChunk, RenderEnds,
         Timing, TimingRead, TimingWrite, TimingDone, Images, ImagesRead, ImageMade, ImageSkipped,
         ImageFails, ImagesReply, ImagesWrite, ImagesDone, ImagesSkipped, PipelineDone, JobCannotOpen
<1>2. task[q] # "request" /\ LocalOK
  BY <1>1 DEF InHandler, TypeInv
<1>3. MovesOf(q)
  <2>1. CASE Analyze(q)
    BY <1>2, <2>1, JobMoves DEF Analyze, AnalyzeRead, AnalyzeMark, AnalyzeFails, AnalyzePanics, AnalyzeReply,
      AnalyzeWrite, AnalyzeDone, ReadThen
  <2>2. CASE Thumbnail(q)
    BY <1>2, <2>2, JobMoves DEF Thumbnail, ThumbRead, ThumbFails, ThumbReply, ThumbWrite, ThumbDone, ReadThen
  <2>3. CASE Tts(q) \/ Render(q)
    BY <1>2, <2>3, JobMoves DEF Tts, TtsRead, NoResult, TtsFailed, TtsReply, TtsWrite, TtsDone, ReadThen,
      Render, RenderChunk, RenderEnds, RenderFails, local
  <2>4. CASE Timing(q)
    BY <1>2, <2>4, JobMoves DEF Timing, TimingRead, TimingWrite, TimingDone, ReadThen
  <2>5. CASE Images(q)
    BY <1>2, <2>5, JobMoves DEF Images, ImagesRead, ImageMade, ImageSkipped, ImageFails, ImagesReply,
      ImagesWrite, ImagesDone, ImagesSkipped, ReadThen
  <2>6. CASE PipelineDone(q) \/ JobCannotOpen(q)
    BY <1>2, <2>6, JobMoves DEF PipelineDone, JobCannotOpen
  <2> QED
    BY <2>1, <2>2, <2>3, <2>4, <2>5, <2>6
<1> QED
  BY <1>2, <1>3, MovesRespect

LEMMA RespectStep ==
  ASSUME WritesAsCaller, TypeInv, InHandler, [Next]_vars
  PROVE  InHandler' /\ RespectsOwner
<1>1. LocalOK /\ DOMAIN pc = Procs /\ DOMAIN task = Procs
  BY DEF TypeInv, LocalOK
<1>2. ASSUME UNCHANGED guide PROVE \A a : RowRespected(a)
  BY <1>2 DEF RowRespected
<1>3. ASSUME NEW q \in Procs, NEW a \in Callers, NEW l \in RequestLabels, Begin(q, a, l)
      PROVE  InHandler' /\ RespectsOwner
  <2>1. MovesOf(q) /\ UNCHANGED guide
    BY <1>1, <1>3 DEF Begin, MovesOf
  <2> QED
    BY <1>2, <2>1, MovesRespect
<1>4. ASSUME NEW q \in Procs, NEW a \in Callers, ReceiveCreate(q, a) PROVE InHandler' /\ RespectsOwner
  <2>1. Begin(q, a, "insert") \/ Begin(q, a, "update")
    BY <1>4 DEF ReceiveCreate
  <2> QED
    BY <1>3, <2>1 DEF RequestLabels
<1>5. ASSUME NEW q \in Procs, NEW a \in Callers, NEW e \in Endpoints, ReceiveOther(q, a, e)
      PROVE  InHandler' /\ RespectsOwner
  <2>1. Entry(e) \in RequestLabels
    BY <1>5, JobsAssumption DEF ReceiveOther, Entry, RequestLabels, WritesAsCaller, JobsAssumption, AllEndpoints
  <2> QED
    BY <1>3, <1>5, <2>1 DEF ReceiveOther
<1>6. ASSUME UNCHANGED <<pc, task>> PROVE InHandler' /\ RespectsOwner
  BY <1>6 DEF InHandler, RespectsOwner
<1>7. ASSUME NEW q \in Procs, Request(q) PROVE InHandler' /\ RespectsOwner
  BY <1>4, <1>5, <1>6, <1>7 DEF Request, ReceiveDelete, local
<1>8. ASSUME NEW q \in Procs, Run(q) \/ Render(q) PROVE InHandler' /\ RespectsOwner
  BY <1>8, HandlerMoves, JobRuns DEF Run
<1>9. CASE Crash
  BY <1>2, <1>9 DEF Crash, InHandler, RespectsOwner
<1>10. CASE PageLoads \/ CleanupParts \/ UNCHANGED vars
  BY <1>6, <1>10 DEF PageLoads, CleanupParts, vars, local
<1> QED
  BY <1>7, <1>8, <1>9, <1>10 DEF Next

\* "so one user cannot overwrite another user's row" (db.rs): a request that checked the
\* owner of one row never writes another that was created under its slug meanwhile, as
\* long as the handlers that write by slug are not used.
THEOREM OwnerIsRespected ==
  ASSUME WritesAsCaller
  PROVE  Spec => RequestsRespectOwner
<1>1. Init => InHandler
  BY DEF Init, InHandler
<1>2. TypeInv /\ InHandler /\ [Next]_vars => InHandler' /\ RespectsOwner
  BY RespectStep
<1>3. RespectsOwner =>
        \A p \in Procs :
          /\ task[p] = "request" /\ (pc'[p] # pc[p] \/ task'[p] # task[p])
          /\ guide # NoRow /\ guide' # NoRow /\ Content(guide') # Content(guide)
          => CallerMayWrite(guide, actor[p])
  BY DEF RespectsOwner, RowRespected
<1> QED
  BY <1>1, <1>2, <1>3, Typed, PTL DEF Spec, RequestsRespectOwner
-----------------------------------------------------------------------------
(* One guide whose statements all succeed: a step shown as running has a    *)
(* thread behind it.                                                        *)

\* No statement fails, the server is not restarted, the guide is posted once, in a body
\* without statuses, and can be deleted meanwhile: what is left when each of the ways to
\* lose a status is away but the panic.
PostedOnce ==
  /\ DbFaults = FALSE /\ MaxCrashes = 0 /\ MaxCreates <= 1
  /\ Endpoints \subseteq {"create", "delete"}
  /\ \A b \in Bodies : b.jobs = Absent

Sent == {"insert", "update", "spawnPipeline"}

\* The analysis is shown as running: it is worked on, or was left behind.
Analyzing == {"analyzeCall", "analyzeWrite", "analyzeDone", "panicked"}

StageLabels == {"analyze", "analyzeMark", "analyzeCall", "analyzeWrite", "analyzeDone",
                "thumbnail", "thumbCall", "thumbWrite", "thumbDone",
                "tts", "render", "rendered", "ttsWrite", "ttsDone",
                "timing", "timingWrite", "timingDone",
                "images", "imagesCall", "imagesWrite", "imagesDone", "pipelineDone", "panicked"}

\* The steps a row shows as running.
Shown(g) == {step \in Steps : g # NoRow /\ g.jobs[step] = "running"}

\* The steps a thread with task t at label l will still report, or never will.
Reports(t, l) ==
  {step \in Steps : \/ step = "pipeline" /\ t = "pipeline"
                    \/ step = "analyze" /\ l \in Analyzing}

Idle(p) == pc[p] = "idle" /\ task[p] = "none" /\ read[p] = NoRow

\* At most p works: neither the row nor the copy p may write back shows a step as
\* running that p does not report.
Only(p) ==
  /\ \A q \in Procs : q # p => Idle(q)
  /\ \/ Idle(p)
     \/ pc[p] \in Sent /\ task[p] = "request"
     \/ pc[p] \in StageLabels /\ task[p] = "pipeline"
  /\ Shown(guide) \subseteq Reports(task[p], pc[p])
  /\ Shown(read[p]) \subseteq Reports(task[p], pc[p])

\* The body a thread holds says nothing of the statuses.
Plain == \A q \in Procs : body[q] # Absent => body[q].jobs = Absent

Nobody == (\A q \in Procs : Idle(q)) /\ Shown(guide) = {}

\* The inductive invariant behind RunningHasThread.
AloneInv ==
  /\ creates <= 1
  /\ page = Absent /\ Plain
  /\ creates = 0 => Nobody
  /\ creates # 0 => \E p \in Procs : Only(p)

\* Where a step of p alone leads, whatever it does to the row.
OnlyMoves(p, t, l, r) ==
  /\ pc' = [pc EXCEPT ![p] = l]
  /\ task' = [task EXCEPT ![p] = t]
  /\ read' = [read EXCEPT ![p] = r]

LEMMA OnlyKept ==
  ASSUME LocalOK, NEW p \in Procs, Only(p), NEW t, NEW l, NEW r, OnlyMoves(p, t, l, r),
         \/ l = "idle" /\ t = "none" /\ r = NoRow
         \/ l \in Sent /\ t = "request"
         \/ l \in StageLabels /\ t = "pipeline",
         Shown(guide') \subseteq Reports(t, l), Shown(r) \subseteq Reports(t, l)
  PROVE  Only(p)'
<1>1. pc'[p] = l /\ task'[p] = t /\ read'[p] = r
  BY DEF LocalOK, OnlyMoves
<1>2. \A q \in Procs : q # p => pc'[q] = pc[q] /\ task'[q] = task[q] /\ read'[q] = read[q]
  BY DEF LocalOK, OnlyMoves
<1>3. \A q \in Procs : q # p => Idle(q)'
  BY <1>2 DEF Only, Idle
<1> QED
  BY <1>1, <1>3 DEF Only, Idle

LEMMA ShownNothing == Shown(NoRow) = {}
BY DEF Shown

\* What the statements of the store can make a row show.
LEMMA ShownWritten ==
  ASSUME guide \in Rows, NEW new \in Guides
  PROVE  /\ UpdateGuideBySlug(new) => Shown(guide') \subseteq Shown(new)
         /\ \A a : UpdateGuide(new, a) => Shown(guide') \subseteq Shown(guide) \cup Shown(new)
<1>1. \A g \in Guides : Overwritten(g, new).jobs = new.jobs
  BY DEF Overwritten, Guides
<1>2. new # NoRow
  BY StoreAssumption
<1>3. \A g \in Guides : Shown(Overwritten(g, new)) \subseteq Shown(new)
  BY <1>1, <1>2 DEF Shown
<1> QED
  BY <1>3, ShownNothing DEF UpdateGuideBySlug, UpdateGuide, Rows

LEMMA ShownMerged ==
  ASSUME guide \in Rows, NEW step \in Steps, NEW status, MergeJob(step, status)
  PROVE  /\ Shown(guide') \subseteq Shown(guide) \cup {step}
         /\ status # "running" => Shown(guide') \subseteq Shown(guide) \ {step}
<1>1. CASE guide = NoRow
  BY <1>1, ShownNothing DEF MergeJob
<1>2. CASE guide # NoRow
  <2>1. guide \in Guides /\ guide' = [guide EXCEPT !.jobs[step] = status]
    BY <1>2 DEF MergeJob, Rows
  <2>2. guide'.jobs = [guide.jobs EXCEPT ![step] = status]
    BY <2>1 DEF Guides
  <2>3. \A s \in Steps : guide'.jobs[s] = IF s = step THEN status ELSE guide.jobs[s]
    BY <2>1, <2>2 DEF Guides
  <2> QED
    BY <1>2, <2>3 DEF Shown
<1> QED
  BY <1>1, <1>2

\* The statements of a server whose statements succeed.
LEMMA NoFaults ==
  ASSUME PostedOnce
  PROVE  /\ \A ok \in DbOk : ok = TRUE
         /\ \A step, status : Merge(step, status) => MergeJob(step, status)
BY DEF PostedOnce, DbOk, Merge

-----------------------------------------------------------------------------
(* The steps of the one thread that works.                                 *)

\* The pipeline shows itself, and the analysis while it waits for its reply.
LEMMA ReportsAre ==
  /\ \A l : "pipeline" \in Reports("pipeline", l)
  /\ \A l : Reports("pipeline", l) \subseteq {"pipeline", "analyze"}
  /\ \A l \in Analyzing : Reports("pipeline", l) = {"pipeline", "analyze"}
  /\ \A l : l \notin Analyzing => Reports("pipeline", l) = {"pipeline"}
  /\ \A l : l \notin Analyzing => Reports("request", l) = {} /\ Reports("none", l) = {}
BY DEF Reports, Steps

Alone(p) ==
  PostedOnce /\ LocalOK /\ guide \in Rows /\ p \in Procs /\ Only(p) /\ Plain

Piped(p) == Alone(p) /\ task[p] = "pipeline"

\* A thread at a label of a stage runs the pipeline, and holds only what it reports.
LEMMA PipedAre ==
  ASSUME NEW p, Alone(p), pc[p] \in StageLabels
  PROVE  Piped(p)
BY DEF Piped, Alone, Only, Idle, StageLabels, Sent

LEMMA PipedGoes ==
  ASSUME NEW p, Piped(p), NEW l \in StageLabels, NEW r, Goto(p, l, r),
         Shown(guide') \subseteq Reports("pipeline", l), Shown(r) \subseteq Reports("pipeline", l)
  PROVE  Only(p)'
<1>1. OnlyMoves(p, "pipeline", l, r)
  BY DEF Piped, Alone, LocalOK, Goto, OnlyMoves
<1> QED
  BY <1>1, OnlyKept DEF Piped, Alone

LEMMA PipedLeaves ==
  ASSUME NEW p, Piped(p), NEW stage \in Stages, Leave(p, stage), Shown(guide') \subseteq {"pipeline"}
  PROVE  Only(p)'
<1>1. NextStage[stage] \in StageLabels \ Analyzing
  BY DEF NextStage, Stages, StageLabels, Analyzing
<1>2. OnlyMoves(p, "pipeline", NextStage[stage], NoRow)
  BY DEF Piped, Alone, LocalOK, Leave, OnlyMoves
<1>3. Shown(guide') \subseteq Reports("pipeline", NextStage[stage])
  BY <1>1, ReportsAre
<1> QED
  BY <1>1, <1>2, <1>3, OnlyKept, ShownNothing DEF Piped, Alone
\* Away from the analysis, a stage reads the row, reports an end or writes back a row
\* that shows what the one it read shows.
LEMMA PipedReads ==
  ASSUME NEW p, Piped(p), pc[p] \notin Analyzing, NEW l \in StageLabels, NEW stage \in Stages,
         Read(p, l, stage), guide' = guide
  PROVE  Only(p)'
<1>1. Shown(guide') \subseteq {"pipeline"}
  BY ReportsAre DEF Piped, Alone, Only
<1>2. Shown(guide') \subseteq Reports("pipeline", l)
  BY <1>1, ReportsAre
<1> QED
  BY <1>1, <1>2, PipedGoes, PipedLeaves DEF Read

LEMMA PipedReports ==
  ASSUME NEW p, Piped(p), pc[p] \notin Analyzing, NEW stage \in Stages, Leave(p, stage),
         \/ guide' = guide
         \/ \E step \in Steps, status \in {"done", "failed"} : MergeJob(step, status)
  PROVE  Only(p)'
<1>1. Shown(guide) \subseteq {"pipeline"}
  BY ReportsAre DEF Piped, Alone, Only
<1>2. Shown(guide') \subseteq {"pipeline"}
  <2>1. ASSUME NEW step \in Steps, NEW status \in {"done", "failed"}, MergeJob(step, status)
        PROVE  Shown(guide') \subseteq {"pipeline"}
    BY <1>1, <2>1, ShownMerged DEF Piped, Alone
  <2> QED
    BY <1>1, <2>1
<1> QED
  BY <1>2, PipedLeaves

LEMMA PipedWrites ==
  ASSUME NEW p, Piped(p), pc[p] \notin Analyzing, NEW l \in StageLabels, Goto(p, l, NoRow),
         NEW new \in Guides, Shown(new) \subseteq Shown(read[p]), UpdateGuideBySlug(new)
  PROVE  Only(p)'
<1>1. Shown(guide') \subseteq Shown(read[p])
  BY ShownWritten DEF Piped, Alone
<1>2. Shown(read[p]) \subseteq {"pipeline"}
  BY ReportsAre DEF Piped, Alone, Only
<1>3. Shown(guide') \subseteq Reports("pipeline", l) /\ Shown(NoRow) \subseteq Reports("pipeline", l)
  BY <1>1, <1>2, ReportsAre, ShownNothing
<1> QED
  BY <1>3, PipedGoes

\* None of the edits touches the statuses.
LEMMA EditsShow ==
  ASSUME NEW g \in Guides
  PROVE  /\ \A h \in Guides : h.jobs = g.jobs => Shown(h) = Shown(g)
         /\ \A cs \in ChapterLists :
              /\ Shown([g EXCEPT !.chapters = cs]) = Shown(g)
              /\ Shown([g EXCEPT !.summary = TRUE, !.chapters = cs]) = Shown(g)
         /\ Shown([g EXCEPT !.thumb = "cover"]) = Shown(g)
         /\ Shown([g EXCEPT !.text = TRUE, !.audio = TRUE, !.timing = TRUE]) = Shown(g)
<1>1. \A h \in Guides : h.jobs = g.jobs => Shown(h) = Shown(g)
  BY StoreAssumption DEF Shown
<1>2. ASSUME NEW cs \in ChapterLists
      PROVE  /\ Shown([g EXCEPT !.chapters = cs]) = Shown(g)
             /\ Shown([g EXCEPT !.summary = TRUE, !.chapters = cs]) = Shown(g)
  <2>1. [g EXCEPT !.chapters = cs].jobs = g.jobs
        /\ [g EXCEPT !.summary = TRUE, !.chapters = cs].jobs = g.jobs
    BY DEF Guides
  <2> QED
    BY <1>1, <2>1, Edits
<1>3. [g EXCEPT !.thumb = "cover"].jobs = g.jobs
      /\ [g EXCEPT !.text = TRUE, !.audio = TRUE, !.timing = TRUE].jobs = g.jobs
  BY DEF Guides
<1> QED
  BY <1>1, <1>2, <1>3, Edits

LEMMA AnalyzeAlone ==
  ASSUME NEW p, Alone(p), Analyze(p)
  PROVE  Only(p)'
<1>1. pc[p] \in StageLabels
  BY DEF Analyze, AnalyzeRead, AnalyzeMark, AnalyzeFails, AnalyzePanics, AnalyzeReply, AnalyzeWrite,
    AnalyzeDone, StageLabels
<1>2. Piped(p)
  BY <1>1, PipedAre
<1>3. {"analyzeMark", "analyzeCall", "analyzeWrite", "analyzeDone", "panicked"} \subseteq StageLabels
      /\ "analyze" \in Stages /\ "analyze" \in Steps
  BY Names DEF StageLabels
<1>4. Shown(guide) \subseteq {"pipeline", "analyze"} /\ Shown(read[p]) \subseteq {"pipeline", "analyze"}
  BY <1>2, ReportsAre DEF Piped, Alone, Only
<1>5. ASSUME NEW status \in {"done", "failed"}, Merge("analyze", status)
      PROVE  Shown(guide') \subseteq {"pipeline"}
  <2>1. MergeJob("analyze", status)
    BY <1>2, <1>5, NoFaults DEF Piped, Alone
  <2>2. Shown(guide') \subseteq Shown(guide) \ {"analyze"}
    BY <1>2, <1>3, <2>1, ShownMerged DEF Piped, Alone
  <2> QED
    BY <1>4, <2>2
<1>6. CASE AnalyzeRead(p)
  <2>1. Read(p, "analyzeMark", "analyze")
    BY <1>6 DEF AnalyzeRead, ReadThen, Read
  <2>2. pc[p] \notin Analyzing /\ guide' = guide
    BY <1>6 DEF AnalyzeRead, Analyzing
  <2> QED
    BY <1>2, <1>3, <2>1, <2>2, PipedReads
<1>7. CASE AnalyzeMark(p)
  <2>1. MergeJob("analyze", "running")
    BY <1>2, <1>7, NoFaults DEF Piped, Alone, AnalyzeMark
  <2>2. Shown(guide') \subseteq {"pipeline", "analyze"}
    BY <1>2, <1>3, <1>4, <2>1, ShownMerged DEF Piped, Alone
  <2>3. Shown(guide') \subseteq Reports("pipeline", "analyzeCall")
    BY <2>2, ReportsAre DEF Analyzing
  <2> QED
    BY <1>2, <1>3, <1>7, <2>3, PipedGoes, ShownNothing DEF AnalyzeMark
<1>8. CASE AnalyzeFails(p)
  BY <1>2, <1>3, <1>5, <1>8, PipedLeaves DEF AnalyzeFails
<1>9. CASE AnalyzeReply(p)
  <2>1. guide' = guide /\ (Goto(p, "analyzeWrite", guide) \/ (guide = NoRow /\ Leave(p, "analyze")))
    BY <1>2, <1>9, NoFaults DEF AnalyzeReply, ReadThen, Piped, Alone
  <2>2. Shown(guide) \subseteq Reports("pipeline", "analyzeWrite")
    BY <1>4, ReportsAre DEF Analyzing
  <2> QED
    BY <1>2, <1>3, <2>1, <2>2, PipedGoes, PipedLeaves, ShownNothing
<1>10. CASE AnalyzeWrite(p)
  <2>1. PICK cs \in SUBSET Chapters :
          /\ UpdateGuideBySlug([read[p] EXCEPT !.summary = TRUE,
                    !.chapters = IF read[p].chapters.idx = {} THEN Listed(cs) ELSE @])
          /\ Goto(p, "analyzeDone", NoRow)
    BY <1>2, <1>10, NoFaults DEF AnalyzeWrite, Piped, Alone
  <2>2. read[p] \in Guides
    BY <1>2, <1>10 DEF AnalyzeWrite, LocalOK, HoldsRow, Rows, Piped, Alone
  <2> DEFINE list == IF read[p].chapters.idx = {} THEN Listed(cs) ELSE read[p].chapters
             new  == [read[p] EXCEPT !.summary = TRUE, !.chapters = list]
  <2>3. list \in ChapterLists
    BY <2>2, ListedType DEF Guides
  <2>4. UpdateGuideBySlug(new)
    BY <2>1
  <2> HIDE DEF list
  <2>5. new \in Guides /\ Shown(new) = Shown(read[p])
    BY <2>2, <2>3, Edits, EditsShow, StepNames
  <2> HIDE DEF new
  <2>6. Shown(guide') \subseteq {"pipeline", "analyze"}
    BY <1>2, <1>4, <2>4, <2>5, ShownWritten DEF Piped, Alone
  <2>7. Shown(guide') \subseteq Reports("pipeline", "analyzeDone")
    BY <2>6, ReportsAre DEF Analyzing
  <2> QED
    BY <1>2, <1>3, <2>1, <2>7, PipedGoes, ShownNothing
<1>11. CASE AnalyzeDone(p)
  BY <1>2, <1>3, <1>5, <1>11, PipedLeaves DEF AnalyzeDone
<1>12. CASE AnalyzePanics(p)
  <2>1. Goto(p, "panicked", NoRow) /\ guide' = guide
    BY <1>12 DEF AnalyzePanics
  <2>2. Shown(guide') \subseteq Reports("pipeline", "panicked")
    BY <1>4, <2>1, ReportsAre DEF Analyzing
  <2> QED
    BY <1>2, <1>3, <2>1, <2>2, PipedGoes, ShownNothing
<1> QED
  BY <1>6, <1>7, <1>8, <1>9, <1>10, <1>11, <1>12 DEF Analyze

LEMMA ThumbnailAlone ==
  ASSUME NEW p, Alone(p), Thumbnail(p)
  PROVE  Only(p)'
<1>1. pc[p] \in StageLabels /\ pc[p] \notin Analyzing
  BY DEF Thumbnail, ThumbRead, ThumbFails, ThumbReply, ThumbWrite, ThumbDone, StageLabels, Analyzing
<1>2. Piped(p) /\ PostedOnce /\ p \in Procs /\ LocalOK
  BY <1>1, PipedAre DEF Alone
<1>3. {"thumbCall", "thumbWrite", "thumbDone"} \subseteq StageLabels
      /\ "thumbnail" \in Stages /\ "thumbnail" \in Steps
  BY Names DEF StageLabels
<1>4. CASE ThumbRead(p)
  <2>1. Read(p, "thumbCall", "thumbnail") /\ guide' = guide
    BY <1>4 DEF ThumbRead, ReadThen, Read
  <2> QED
    BY <1>1, <1>2, <1>3, <2>1, PipedReads
<1>5. CASE ThumbFails(p)
  BY <1>1, <1>2, <1>3, <1>5, PipedReports, NoFaults DEF ThumbFails
<1>6. CASE ThumbReply(p)
  <2>1. Read(p, "thumbWrite", "thumbnail") /\ guide' = guide
    BY <1>6 DEF ThumbReply, ReadThen, Read
  <2> QED
    BY <1>1, <1>2, <1>3, <2>1, PipedReads
<1>7. CASE ThumbWrite(p)
  <2>1. read[p] \in Guides
    BY <1>2, <1>7 DEF ThumbWrite, LocalOK, HoldsRow, Rows
  <2> DEFINE new == [read[p] EXCEPT !.thumb = "cover"]
  <2>2. new \in Guides /\ Shown(new) = Shown(read[p])
    BY <2>1, Edits, EditsShow, StepNames
  <2>3. UpdateGuideBySlug(new) /\ Goto(p, "thumbDone", NoRow)
    BY <1>2, <1>7, NoFaults DEF ThumbWrite
  <2> HIDE DEF new
  <2> QED
    BY <1>1, <1>2, <1>3, <2>2, <2>3, PipedWrites
<1>8. CASE ThumbDone(p)
  BY <1>1, <1>2, <1>3, <1>8, PipedReports, NoFaults DEF ThumbDone
<1> QED
  BY <1>4, <1>5, <1>6, <1>7, <1>8 DEF Thumbnail
LEMMA TtsAlone ==
  ASSUME NEW p, Alone(p), Tts(p) \/ Render(p)
  PROVE  Only(p)'
<1>1. pc[p] \in StageLabels /\ pc[p] \notin Analyzing
  BY DEF Tts, TtsRead, NoResult, TtsReply, TtsWrite, TtsDone, Render, RenderChunk, RenderEnds,
    RenderFails, StageLabels, Analyzing
<1>2. Piped(p) /\ PostedOnce /\ p \in Procs /\ LocalOK /\ Only(p)
  BY <1>1, PipedAre DEF Alone
<1>3. {"render", "rendered", "ttsWrite", "ttsDone"} \subseteq StageLabels
      /\ "tts" \in Stages /\ "tts" \in Steps
  BY Names DEF StageLabels
<1>4. CASE TtsRead(p)
  <2>1. Read(p, "render", "tts") /\ guide' = guide
    BY <1>4 DEF TtsRead, ReadThen, Read
  <2> QED
    BY <1>1, <1>2, <1>3, <2>1, PipedReads
<1>5. CASE RenderChunk(p)
  BY <1>2, <1>5 DEF RenderChunk, local, Only, Idle
<1>6. CASE RenderEnds(p)
  <2>1. Shown(guide) \subseteq {"pipeline"}
    BY <1>1, <1>2, ReportsAre DEF Piped, Only
  <2>2. Goto(p, "rendered", NoRow) /\ Shown(guide') \subseteq Reports("pipeline", "rendered")
    BY <1>6, <2>1, ReportsAre DEF RenderEnds
  <2> QED
    BY <1>2, <1>3, <2>2, PipedGoes, ShownNothing
<1>7. CASE RenderFails(p) \/ NoResult(p)
  BY <1>1, <1>2, <1>3, <1>7, PipedReports, NoFaults DEF RenderFails, NoResult, TtsFailed
<1>8. CASE TtsReply(p)
  <2>1. Read(p, "ttsWrite", "tts") /\ guide' = guide
    BY <1>8 DEF TtsReply, ReadThen, Read
  <2> QED
    BY <1>1, <1>2, <1>3, <2>1, PipedReads
<1>9. CASE TtsWrite(p)
  <2>1. read[p] \in Guides
    BY <1>2, <1>9 DEF TtsWrite, LocalOK, HoldsRow, Rows
  <2> DEFINE new == [read[p] EXCEPT !.text = TRUE, !.audio = TRUE, !.timing = TRUE]
  <2>2. new \in Guides /\ Shown(new) = Shown(read[p])
    BY <2>1, Edits, EditsShow, StepNames
  <2>3. UpdateGuideBySlug(new) /\ Goto(p, "ttsDone", NoRow)
    BY <1>2, <1>9, NoFaults DEF TtsWrite
  <2> HIDE DEF new
  <2> QED
    BY <1>1, <1>2, <1>3, <2>2, <2>3, PipedWrites
<1>10. CASE TtsDone(p)
  BY <1>1, <1>2, <1>3, <1>10, PipedReports, NoFaults DEF TtsDone
<1> QED
  BY <1>4, <1>5, <1>6, <1>7, <1>8, <1>9, <1>10 DEF Tts, Render

LEMMA TimingAlone ==
  ASSUME NEW p, Alone(p), Timing(p)
  PROVE  Only(p)'
<1>1. pc[p] \in StageLabels /\ pc[p] \notin Analyzing
  BY DEF Timing, TimingRead, TimingWrite, TimingDone, StageLabels, Analyzing
<1>2. Piped(p) /\ PostedOnce /\ p \in Procs /\ LocalOK
  BY <1>1, PipedAre DEF Alone
<1>3. {"timingWrite", "timingDone"} \subseteq StageLabels
      /\ "timing" \in Stages /\ "chapter-timing" \in Steps
  BY Names DEF StageLabels
<1>4. CASE TimingRead(p)
  <2>1. Read(p, "timingWrite", "timing") /\ guide' = guide
    BY <1>4 DEF TimingRead, ReadThen, Read
  <2> QED
    BY <1>1, <1>2, <1>3, <2>1, PipedReads
<1>5. CASE TimingWrite(p)
  <2>1. read[p] \in Guides
    BY <1>2, <1>5 DEF TimingWrite, LocalOK, HoldsRow, Rows
  <2>2. PICK cs \in (SUBSET read[p].chapters.idx) \ {{}} :
          UpdateGuideBySlug([read[p] EXCEPT !.chapters = Listed(cs)]) /\ Goto(p, "timingDone", NoRow)
    BY <1>2, <1>5, NoFaults DEF TimingWrite
  <2>3. Listed(cs) \in ChapterLists
    <3>1. cs \subseteq Chapters
      BY <2>1 DEF Guides, ChapterLists
    <3> QED
      BY <3>1, ListedType
  <2> DEFINE new == [read[p] EXCEPT !.chapters = Listed(cs)]
  <2>4. new \in Guides /\ Shown(new) = Shown(read[p])
    BY <2>1, <2>3, Edits, EditsShow
  <2>5. UpdateGuideBySlug(new)
    BY <2>2
  <2> HIDE DEF new
  <2> QED
    BY <1>1, <1>2, <1>3, <2>2, <2>4, <2>5, PipedWrites
<1>6. CASE TimingDone(p)
  BY <1>1, <1>2, <1>3, <1>6, PipedReports, NoFaults DEF TimingDone
<1> QED
  BY <1>4, <1>5, <1>6 DEF Timing

LEMMA ImagesAlone ==
  ASSUME NEW p, Alone(p), Images(p)
  PROVE  Only(p)'
<1>1. pc[p] \in StageLabels /\ pc[p] \notin Analyzing
  BY DEF Images, ImagesRead, ImageMade, ImageSkipped, ImageFails, ImagesReply, ImagesWrite,
    ImagesDone, ImagesSkipped, StageLabels, Analyzing
<1>2. Piped(p) /\ PostedOnce /\ p \in Procs /\ LocalOK /\ Only(p)
  BY <1>1, PipedAre DEF Alone
<1>3. {"imagesCall", "imagesWrite", "imagesDone"} \subseteq StageLabels
      /\ "images" \in Stages /\ {"chapter-images", "chapter-real-images"} \subseteq Steps
  BY Names DEF StageLabels
<1>4. CASE ImagesRead(p)
  <2>1. Shown(guide) \subseteq {"pipeline"} /\ Shown(read[p]) \subseteq {"pipeline"}
    BY <1>1, <1>2, ReportsAre DEF Piped, Only
  <2>2. CASE Leave(p, "images")
    BY <1>1, <1>2, <1>3, <1>4, <2>2, PipedReports DEF ImagesRead
  <2>3. CASE pc' = [pc EXCEPT ![p] = "imagesCall"] /\ UNCHANGED <<task, actor, read, body>>
    <3>1. OnlyMoves(p, "pipeline", "imagesCall", read[p])
      BY <1>2, <2>3 DEF OnlyMoves, Piped, LocalOK
    <3>2. Shown(guide') \subseteq Reports("pipeline", "imagesCall")
          /\ Shown(read[p]) \subseteq Reports("pipeline", "imagesCall")
      BY <1>4, <2>1, ReportsAre DEF ImagesRead
    <3> QED
      BY <1>2, <1>3, <3>1, <3>2, OnlyKept
  <2> QED
    BY <1>4, <2>2, <2>3 DEF ImagesRead
<1>5. CASE ImageMade(p) \/ ImageSkipped(p)
  BY <1>2, <1>5 DEF ImageMade, ImageSkipped, Only, Idle
<1>6. CASE ImageFails(p)
  BY <1>1, <1>2, <1>3, <1>6, PipedReports, NoFaults DEF ImageFails
<1>7. CASE ImagesReply(p)
  <2>1. Read(p, "imagesWrite", "images") /\ guide' = guide
    BY <1>7 DEF ImagesReply, ReadThen, Read
  <2> QED
    BY <1>1, <1>2, <1>3, <2>1, PipedReads
<1>8. CASE ImagesWrite(p)
  <2>1. read[p] \in Guides /\ chs[p] \in ChapterLists
    BY <1>2, <1>8 DEF ImagesWrite, LocalOK, HoldsRow, Rows
  <2> DEFINE new == [read[p] EXCEPT !.chapters = chs[p]]
  <2>2. new \in Guides /\ Shown(new) = Shown(read[p])
    BY <2>1, Edits, EditsShow
  <2>3. UpdateGuideBySlug(new) /\ Goto(p, "imagesDone", NoRow)
    BY <1>2, <1>8, NoFaults DEF ImagesWrite
  <2> HIDE DEF new
  <2> QED
    BY <1>1, <1>2, <1>3, <2>2, <2>3, PipedWrites
<1>9. CASE ImagesDone(p)
  <2>1. ImageStep(p) \in Steps
    BY <1>3 DEF ImageStep
  <2> QED
    BY <1>1, <1>2, <1>3, <1>9, <2>1, PipedReports, NoFaults DEF ImagesDone
<1>10. CASE ImagesSkipped(p)
  BY <1>1, <1>2, <1>3, <1>10, PipedReports, NoFaults DEF ImagesSkipped
<1> QED
  BY <1>4, <1>5, <1>6, <1>7, <1>8, <1>9, <1>10 DEF Images

\* A thread that ends leaves a row that shows nothing.
LEMMA ExitsAlone ==
  ASSUME NEW p, Alone(p), Exit(p), Shown(guide') = {}
  PROVE  Only(p)'
<1>1. OnlyMoves(p, "none", "idle", NoRow)
  BY DEF Exit, OnlyMoves
<1> QED
  BY <1>1, OnlyKept, ShownNothing DEF Alone

\* The pipeline reports itself last.
LEMMA PipelineAlone ==
  ASSUME NEW p, Alone(p), PipelineDone(p)
  PROVE  Only(p)'
<1>1. Piped(p)
  BY PipedAre DEF PipelineDone, StageLabels
<1>2. Shown(guide) \subseteq {"pipeline"}
  BY <1>1, ReportsAre DEF Piped, Alone, Only, PipelineDone, Analyzing
<1>3. MergeJob("pipeline", "done")
  BY NoFaults DEF Alone, PipelineDone
<1>4. Shown(guide') = {}
  BY <1>2, <1>3, ShownMerged, Names DEF Alone
<1> QED
  BY <1>4, ExitsAlone DEF PipelineDone

\* The handler of the post: it writes a row that shows nothing, and becomes the pipeline.
LEMMA HandlesAlone ==
  ASSUME NEW p, Alone(p), Handle(p)
  PROVE  Only(p)'
<1>1. pc[p] \in Sent /\ task[p] = "request" /\ PostedOnce /\ p \in Procs /\ LocalOK /\ guide \in Rows
  BY DEF Alone, Only, Idle, Handle, InsertNew, UpdateExisting, EditFails, EditWrite, UploadFile,
    SpawnPipeline, SpawnTts, SpawnImages, SpawnReal, Spawn, Sent, StageLabels
<1>2. Shown(guide) = {} /\ Shown(read[p]) = {}
  BY <1>1, ReportsAre DEF Alone, Only, Sent, Analyzing
<1>3. CASE InsertNew(p)
  <2>1. body[p] \in Posts /\ body[p].jobs = Absent
    BY <1>1, <1>3 DEF InsertNew, LocalOK, HoldsBody, Alone, Plain
  <2>2. \/ guide = NoRow /\ InsertGuide(NewGuide(actor[p], creates, body[p]))
           /\ Goto(p, "spawnPipeline", NoRow)
        \/ guide' = guide /\ Exit(p)
    BY <1>3 DEF InsertNew
  <2>3. Shown(NewGuide(actor[p], creates, body[p])) = {}
    BY <2>1 DEF Shown, NewGuide
  <2>4. Shown(guide') = {}
    BY <1>2, <2>2, <2>3 DEF InsertGuide
  <2>5. CASE Exit(p)
    BY <2>4, <2>5, ExitsAlone
  <2>6. CASE Goto(p, "spawnPipeline", NoRow)
    <3>1. OnlyMoves(p, "request", "spawnPipeline", NoRow)
      BY <1>1, <2>6 DEF Goto, OnlyMoves, LocalOK
    <3>2. "spawnPipeline" \in Sent
      BY DEF Sent
    <3> QED
      BY <1>1, <2>4, <3>1, <3>2, OnlyKept, ShownNothing DEF Alone
  <2> QED
    BY <2>2, <2>5, <2>6
<1>4. CASE UpdateExisting(p)
  <2>1. UpdateGuide(Replaced(read[p], body[p]), actor[p])
    BY <1>1, <1>4, NoFaults DEF UpdateExisting
  <2>2. read[p] \in Guides /\ body[p] \in Posts /\ body[p].jobs = Absent
    BY <1>1, <1>4 DEF UpdateExisting, LocalOK, HoldsRow, HoldsBody, Rows, Alone, Plain
  <2>3. Replaced(read[p], body[p]) \in Guides /\ Shown(Replaced(read[p], body[p])) = {}
    BY <1>2, <2>2, ReplacedIs, EditsShow
  <2>4. Shown(guide') = {}
    BY <1>1, <1>2, <2>1, <2>3, ShownWritten
  <2> QED
    BY <1>4, <2>4, ExitsAlone DEF UpdateExisting
<1>5. CASE SpawnPipeline(p)
  <2>1. MergeJob("pipeline", "running")
    BY <1>1, <1>5, NoFaults DEF SpawnPipeline, Spawn
  <2>2. Shown(guide') \subseteq Reports("pipeline", "analyze")
    BY <1>1, <1>2, <2>1, ShownMerged, ReportsAre, Names
  <2>3. OnlyMoves(p, "pipeline", "analyze", NoRow) /\ "analyze" \in StageLabels
    BY <1>5 DEF SpawnPipeline, Spawn, OnlyMoves, StageLabels
  <2> QED
    BY <1>1, <2>2, <2>3, OnlyKept, ShownNothing DEF Alone
<1> QED
  BY <1>1, <1>3, <1>4, <1>5 DEF Handle, EditFails, EditWrite, UploadFile, SpawnTts, SpawnImages,
    SpawnReal, Spawn, Sent

\* No step of a thread writes a body, loads a page or counts a post.
LEMMA RunsPlain ==
  ASSUME LocalOK, NEW p \in Procs, Run(p) \/ Render(p)
  PROVE  /\ UNCHANGED <<creates, page>>
         /\ \A q \in Procs : body'[q] \in {body[q], Absent}
<1> DEFINE Dropped == body' = body \/ body' = [body EXCEPT ![p] = Absent]
<1> SUFFICES UNCHANGED <<creates, page>> /\ Dropped
  BY DEF LocalOK
<1>1. ASSUME Untouched PROVE UNCHANGED <<creates, page>>
  BY <1>1 DEF Untouched, bounds, client
<1>2. /\ \A l, r : Goto(p, l, r) => Dropped
      /\ Exit(p) => Dropped
      /\ \A stage : Leave(p, stage) => Dropped
  BY DEF Goto, Exit, Leave
<1>3. CASE Handle(p)
  BY <1>2, <1>3 DEF Handle, InsertNew, UpdateExisting, EditFails, EditWrite, UploadFile, SpawnPipeline,
    SpawnTts, SpawnImages, SpawnReal, Spawn, bounds, client
<1>4. CASE Analyze(p)
  BY <1>1, <1>2, <1>4 DEF Analyze, AnalyzeRead, AnalyzeMark, AnalyzeFails, AnalyzePanics, AnalyzeReply,
    AnalyzeWrite, AnalyzeDone, ReadThen
<1>5. CASE Thumbnail(p)
  BY <1>1, <1>2, <1>5 DEF Thumbnail, ThumbRead, ThumbFails, ThumbReply, ThumbWrite, ThumbDone, ReadThen,
    bounds, client
<1>6. CASE Tts(p)
  BY <1>1, <1>2, <1>6 DEF Tts, TtsRead, NoResult, TtsFailed, TtsReply, TtsWrite, TtsDone, ReadThen,
    bounds, client
<1>7. CASE Render(p)
  BY <1>2, <1>7 DEF Render, RenderChunk, RenderEnds, RenderFails, TtsFailed, local, bounds, client
<1>8. CASE Timing(p)
  BY <1>1, <1>2, <1>8 DEF Timing, TimingRead, TimingWrite, TimingDone, ReadThen
<1>9. CASE Images(p)
  BY <1>1, <1>2, <1>9 DEF Images, ImagesRead, ImageMade, ImageSkipped, ImageFails, ImagesReply,
    ImagesWrite, ImagesDone, ImagesSkipped, ReadThen, bounds, client
<1>10. CASE PipelineDone(p) \/ JobCannotOpen(p)
  BY <1>1, <1>2, <1>10 DEF PipelineDone, JobCannotOpen
<1> QED
  BY <1>3, <1>4, <1>5, <1>6, <1>7, <1>8, <1>9, <1>10 DEF Run

LEMMA RunsAlone ==
  ASSUME NEW p, Alone(p), Run(p) \/ Render(p)
  PROVE  Only(p)' /\ Plain' /\ UNCHANGED <<creates, page>>
<1>1. CASE JobCannotOpen(p)
  BY <1>1 DEF JobCannotOpen, Alone, PostedOnce
<1>2. Only(p)'
  BY <1>1, HandlesAlone, AnalyzeAlone, ThumbnailAlone, TtsAlone, TimingAlone, ImagesAlone,
    PipelineAlone DEF Run
<1>3. UNCHANGED <<creates, page>> /\ \A q \in Procs : body'[q] \in {body[q], Absent}
  BY RunsPlain DEF Alone
<1> QED
  BY <1>2, <1>3 DEF Plain, Alone

-----------------------------------------------------------------------------
(* Every step.                                                             *)

\* A thread without a request does nothing of its own.
LEMMA IdleRests ==
  ASSUME NEW q, Idle(q), PostedOnce
  PROVE  ~Run(q) /\ ~Render(q)
<1>1. pc[q] = "idle"
  BY DEF Idle
<1> QED
  BY <1>1 DEF PostedOnce, Run, Handle, InsertNew, UpdateExisting, EditFails, EditWrite, UploadFile,
    SpawnPipeline, SpawnTts, SpawnImages, SpawnReal, Spawn, Analyze, AnalyzeRead, AnalyzeMark,
    AnalyzeFails, AnalyzePanics, AnalyzeReply, AnalyzeWrite, AnalyzeDone, Thumbnail, ThumbRead,
    ThumbFails, ThumbReply, ThumbWrite, ThumbDone, Tts, TtsRead, NoResult, TtsReply, TtsWrite,
    TtsDone, Render, RenderChunk, RenderEnds, RenderFails, Timing, TimingRead, TimingWrite,
    TimingDone, Images, ImagesRead, ImageMade, ImageSkipped, ImageFails, ImagesReply, ImagesWrite,
    ImagesDone, ImagesSkipped, PipelineDone, JobCannotOpen

LEMMA AloneStep ==
  ASSUME PostedOnce, TypeInv, AloneInv, [Next]_vars
  PROVE  AloneInv'
<1>1. LocalOK /\ guide \in Rows /\ creates \in Nat
  BY DEF TypeInv, TypeOK
<1>2. ASSUME NEW p \in Procs, Run(p) \/ Render(p)
      PROVE  AloneInv'
  <2>1. ~Idle(p)
    BY <1>2, IdleRests
  <2>2. Only(p) /\ creates # 0 /\ Plain
    BY <2>1 DEF AloneInv, Nobody, Only
  <2>3. Only(p)' /\ Plain' /\ UNCHANGED <<creates, page>>
    BY <1>1, <1>2, <2>2, RunsAlone DEF Alone
  <2> QED
    BY <2>2, <2>3 DEF AloneInv
<1>3. ASSUME NEW p \in Procs, NEW a \in Callers, ReceiveCreate(p, a)
      PROVE  AloneInv'
  <2>1. Written(p)
    BY <1>3 DEF ReceiveCreate, Published, AloneInv
  <2>8. creates = 0 /\ creates' = 1 /\ page' = Absent
    BY <1>1, <2>1, JobsAssumption DEF Written, PostedOnce, JobsAssumption, AloneInv
  <2>9. Plain'
    <3>1. PICK b \in Bodies : body' = [body EXCEPT ![p] = b]
      BY <2>1 DEF Written
    <3>2. b.jobs = Absent
      BY DEF PostedOnce
    <3> QED
      BY <1>1, <3>1, <3>2 DEF AloneInv, Plain, LocalOK
  <2>2. PICK l \in {"insert", "update"} : Begin(p, a, l)
    BY <1>3 DEF ReceiveCreate
  <2>3. OnlyMoves(p, "request", l, guide) /\ guide' = guide /\ l \in Sent
    BY <2>2 DEF Begin, OnlyMoves, Sent
  <2>4. Nobody
    BY <2>8 DEF AloneInv
  <2>5. Only(p)
    BY <2>4, ShownNothing DEF Nobody, Only, Idle
  <2>6. Shown(guide') = {}
    BY <2>3, <2>4 DEF Nobody
  <2>7. Only(p)'
    BY <1>1, <2>3, <2>4, <2>5, <2>6, OnlyKept DEF Nobody
  <2> QED
    BY <2>7, <2>8, <2>9 DEF AloneInv
<1>4. ASSUME Shown(guide') \subseteq Shown(guide), UNCHANGED <<pc, task, read, body, page, creates>>
      PROVE  AloneInv'
  <2>1. \A q \in Procs : Idle(q)' = Idle(q)
    BY <1>4 DEF Idle
  <2>2. \A q \in Procs : Only(q) => Only(q)'
    BY <1>4, <2>1 DEF Only
  <2>3. (Nobody => Nobody') /\ (Plain => Plain')
    BY <1>4, <2>1 DEF Nobody, Plain
  <2> QED
    BY <1>4, <2>2, <2>3 DEF AloneInv
<1>5. ASSUME NEW p \in Procs, NEW a \in Callers, ReceiveDelete(p, a)
      PROVE  AloneInv'
  <2>1. Shown(guide') \subseteq Shown(guide)
    BY <1>5, ShownNothing DEF ReceiveDelete, DeleteGuide
  <2> QED
    BY <1>4, <1>5, <2>1 DEF ReceiveDelete, local, client
<1>6. ASSUME NEW p \in Procs, Request(p)
      PROVE  AloneInv'
  BY <1>3, <1>5, <1>6 DEF Request, ReceiveOther, PostedOnce
<1>7. ~Crash
  <2>1. crashes \in Nat
    BY DEF TypeInv, TypeOK
  <2> QED
    BY <2>1 DEF Crash, PostedOnce
<1>8. CASE CleanupParts \/ UNCHANGED vars
  BY <1>4, <1>8 DEF CleanupParts, vars, local, client, bounds
<1>9. ~PageLoads
  BY DEF PageLoads, PostedOnce
<1> QED
  BY <1>2, <1>6, <1>7, <1>8, <1>9 DEF Next

\* The guide page polls a status until it flips (GuideProgress.tsx), so somebody must be
\* there to flip it: while no statement fails and the server stays up, every step a guide
\* shows as running has a thread that works on it or that panicked on it (guide_ai.rs
\* slicing an answer), also when the guide is deleted meanwhile.
THEOREM RunningIsWorkedOn ==
  ASSUME PostedOnce
  PROVE  Spec => []RunningHasThread
<1>1. Init => AloneInv
  <2> SUFFICES ASSUME Init PROVE AloneInv
    OBVIOUS
  <2>1. \A q \in Procs : Idle(q) /\ body[q] = Absent
    BY DEF Init, Idle
  <2>2. \A a, b : b \in Bodies => Shown(NewGuide(a, 0, b)) = {}
    BY DEF Shown, NewGuide, PostedOnce
  <2>3. Shown(guide) = {}
    BY <2>2, ShownNothing DEF Init
  <2> QED
    BY <2>1, <2>3 DEF Init, AloneInv, Nobody, Plain
<1>2. TypeInv /\ AloneInv /\ [Next]_vars => AloneInv'
  BY AloneStep
<1>3. AloneInv => RunningHasThread
  <2> SUFFICES ASSUME AloneInv, guide # NoRow, NEW step \in Steps, JobRunning(guide, step)
               PROVE  \E p \in Procs : Working(p, step) \/ LeftBehind(p, step)
    BY DEF RunningHasThread
  <2>1. step \in Shown(guide)
    BY DEF Shown, JobRunning
  <2>2. PICK p \in Procs : Only(p)
    BY <2>1 DEF AloneInv, Nobody
  <2>3. step \in Reports(task[p], pc[p])
    BY <2>1, <2>2 DEF Only
  <2>4. Working(p, step) \/ LeftBehind(p, step)
    BY <2>3 DEF Reports, Working, LeftBehind, Analyzing
  <2> QED
    BY <2>4
<1> QED
  BY <1>1, <1>2, <1>3, Typed, PTL DEF Spec

-----------------------------------------------------------------------------
(***************************************************************************)
(* No row ever points at a file that was neither written nor named by a    *)
(* client.  The files known are only ever added to, so it is enough that   *)
(* every copy of the row a thread or a page holds is backed by those of    *)
(* the moment.                                                             *)
(***************************************************************************)

Below(d, e) ==
  /\ d.mp3 => e.mp3
  /\ d.cover => e.cover
  /\ d.gen \subseteq e.gen
  /\ d.real \subseteq e.real

LEMMA BackedGrows == \A g, d, e : Backed(g, d) /\ Below(d, e) => Backed(g, e)
BY DEF Backed, Below

LEMMA BackedNoRow == \A d : Backed(NoRow, d)
BY DEF Backed

\* A body is backed whoever posts it, and an update falls back on what is backed.
LEMMA BackedAnew ==
  ASSUME NEW d, NEW a, NEW n, NEW b \in Posts, Backed(NewGuide(Anon, 0, b), d)
  PROVE  Backed(NewGuide(a, n, b), d)
<1> DEFINE mine == NewGuide(Anon, 0, b)  yours == NewGuide(a, n, b)
<1>1. yours.audio = mine.audio /\ yours.jobs = mine.jobs /\ yours.thumb = mine.thumb
      /\ yours.chapters = mine.chapters
  BY DEF NewGuide
<1>2. mine # NoRow
  BY NewGuideType, StoreAssumption DEF Callers
<1>3. Backed(mine, d) => Backed(yours, d)
  <2> HIDE DEF mine, yours
  <2> QED
    BY <1>1, <1>2 DEF Backed
<1> QED
  BY <1>3

LEMMA BackedReplaced ==
  ASSUME NEW d, NEW g \in Guides, NEW b \in Posts, Backed(g, d), Backed(NewGuide(Anon, 0, b), d)
  PROVE  Backed(Replaced(g, b), d)
<1> DEFINE new == NewGuide(Anon, 0, b)
<1>1. new.audio = b.audio /\ new.thumb = b.thumb /\ new.chapters = b.chapters
      /\ (b.jobs # Absent => new.jobs = b.jobs)
  BY DEF NewGuide
<1>2. new # NoRow /\ g # NoRow
  BY NewGuideType, StoreAssumption DEF Callers
<1> HIDE DEF new
<1>3. Backed(new, d)
  BY DEF new
<1> QED
  BY <1>1, <1>2, <1>3, ReplacedIs DEF Backed

\* A page's copy promises what the row promised.
LEMMA BackedCopy ==
  ASSUME NEW d, NEW g \in Guides, Backed(g, d)
  PROVE  Backed(NewGuide(Anon, 0, CopyOf(g)), d)
<1> DEFINE copy == CopyOf(g)  new == NewGuide(Anon, 0, copy)
<1>1. copy.audio = g.audio /\ copy.thumb = g.thumb /\ copy.chapters = g.chapters /\ copy.jobs = g.jobs
  BY DEF CopyOf
<1>2. copy.jobs # Absent
  BY <1>1, JobsAssumption DEF JobsAssumption, Guides
<1> HIDE DEF copy
<1>3. new.audio = g.audio /\ new.thumb = g.thumb /\ new.chapters = g.chapters /\ new.jobs = g.jobs
  BY <1>1, <1>2 DEF NewGuide
<1>4. g # NoRow
  BY StoreAssumption
<1> HIDE DEF new
<1>5. Backed(new, d)
  BY <1>3, <1>4 DEF Backed
<1> QED
  BY <1>5 DEF new, copy

\* What a client names in a body is claimed.
LEMMA BackedClaim ==
  ASSUME NEW c, NEW b \in Posts
  PROVE  Backed(NewGuide(Anon, 0, b), Claim(c, b)) /\ Below(c, Claim(c, b))
<1> DEFINE new == NewGuide(Anon, 0, b)  d == Claim(c, b)
<1>1. new.audio = b.audio /\ new.thumb = b.thumb /\ new.chapters = b.chapters
  BY DEF NewGuide
<1>2. \A s \in Steps : new.jobs[s] = "done" => Finished(b, s)
  BY DEF NewGuide, Finished
<1>3. /\ c.mp3 \/ b.audio \/ Finished(b, "tts") => d.mp3
      /\ c.cover \/ b.thumb = "cover" \/ Finished(b, "thumbnail") => d.cover
      /\ d.gen = c.gen \cup b.chapters.gen /\ d.real = c.real \cup b.chapters.real
  BY DEF Claim
<1> HIDE DEF new, d
<1>4. Backed(new, d) /\ Below(c, d)
  BY <1>1, <1>2, <1>3, Names DEF Backed, Below
<1> QED
  BY <1>4 DEF new, d

\* The files on disk, and with them those known, are only added to.
Grow == Below(disk, disk') /\ Below(Known, Known')

LEMMA KnownGrows ==
  /\ Below(disk, disk') /\ Below(claimed, claimed') => Grow
  /\ UNCHANGED <<disk, claimed>> => Grow /\ Known' = Known
  /\ (disk.mp3 => Known.mp3) /\ (disk.cover => Known.cover)
BY DEF Grow, Below, Known

\* The statements keep the row backed when what they write is.
LEMMA BackedOverwritten ==
  ASSUME NEW d, NEW g \in Guides, NEW new \in Guides, Backed(new, d)
  PROVE  Backed(Overwritten(g, new), d)
<1>1. new # NoRow
  BY StoreAssumption
<1>2. /\ Overwritten(g, new).audio = new.audio /\ Overwritten(g, new).jobs = new.jobs
      /\ Overwritten(g, new).thumb = new.thumb /\ Overwritten(g, new).chapters = new.chapters
  BY DEF Overwritten, Guides
<1>3. QED
  BY <1>1, <1>2 DEF Backed

LEMMA BackedStatements ==
  ASSUME guide \in Rows, NEW d, Backed(guide, d), NEW new \in Guides, Backed(new, d),
         \/ \E a \in Callers : UpdateGuide(new, a)
         \/ UpdateGuideBySlug(new)
         \/ InsertGuide(new)
  PROVE  Backed(guide', d)
BY BackedOverwritten DEF Rows, UpdateGuide, UpdateGuideBySlug, InsertGuide

LEMMA BackedMerge ==
  ASSUME guide \in Rows, NEW d, Backed(guide, d), NEW step \in Steps, NEW status \in Status,
         step = "tts" /\ status = "done" => d.mp3,
         step = "thumbnail" /\ status = "done" => d.cover,
         Merge(step, status)
  PROVE  Backed(guide', d)
<1>1. CASE guide \in Guides /\ guide' = [guide EXCEPT !.jobs[step] = status]
  <2>1. /\ guide'.audio = guide.audio /\ guide'.thumb = guide.thumb
        /\ guide'.chapters = guide.chapters
        /\ guide'.jobs = [guide.jobs EXCEPT ![step] = status]
    BY <1>1 DEF Guides
  <2>2. guide.jobs \in [Steps -> Status]
    BY <1>1 DEF Guides
  <2>3. guide # NoRow
    BY <1>1, StoreAssumption
  <2>4. guide'.jobs["tts"] = "done" => guide.jobs["tts"] = "done" \/ (step = "tts" /\ status = "done")
    BY <2>1, <2>2, Names
  <2>5. guide'.jobs["thumbnail"] = "done" =>
          guide.jobs["thumbnail"] = "done" \/ (step = "thumbnail" /\ status = "done")
    BY <2>1, <2>2, Names
  <2>6. QED
    BY <2>1, <2>3, <2>4, <2>5 DEF Backed
<1>2. CASE guide' = guide
  BY <1>2
<1>3. QED
  BY <1>1, <1>2 DEF Merge, MergeJob, Rows

\* What a thread changes in the row it holds keeps it backed.
LEMMA RelistedBacked ==
  ASSUME NEW d, NEW g \in Guides, Backed(g, d), NEW cs \in ChapterLists,
         cs.gen \subseteq d.gen, cs.real \subseteq d.real
  PROVE  /\ [g EXCEPT !.chapters = cs] \in Guides
         /\ Backed([g EXCEPT !.chapters = cs], d)
         /\ [g EXCEPT !.summary = TRUE, !.chapters = cs] \in Guides
         /\ Backed([g EXCEPT !.summary = TRUE, !.chapters = cs], d)
<1>1. g # NoRow
  BY StoreAssumption
<1>2. ASSUME NEW h, h.audio = g.audio, h.jobs = g.jobs, h.thumb = g.thumb, h.chapters = cs
      PROVE  Backed(h, d)
  BY <1>1, <1>2 DEF Backed
<1>3. ASSUME NEW h, h \in {[g EXCEPT !.chapters = cs], [g EXCEPT !.summary = TRUE, !.chapters = cs]}
      PROVE  h.audio = g.audio /\ h.jobs = g.jobs /\ h.thumb = g.thumb /\ h.chapters = cs
  BY <1>3 DEF Guides
<1>4. /\ [g EXCEPT !.chapters = cs] \in Guides
      /\ [g EXCEPT !.summary = TRUE, !.chapters = cs] \in Guides
  BY DEF Guides
<1>5. QED
  BY <1>2, <1>3, <1>4

LEMMA RecordedBacked ==
  ASSUME NEW d, NEW g \in Guides, Backed(g, d), d.mp3
  PROVE  /\ Backed([g EXCEPT !.audio = TRUE], d)
         /\ Backed([g EXCEPT !.text = TRUE, !.audio = TRUE, !.timing = TRUE], d)
<1>1. g # NoRow
  BY StoreAssumption
<1>2. ASSUME NEW h, h.jobs = g.jobs, h.thumb = g.thumb, h.chapters = g.chapters
      PROVE  Backed(h, d)
  BY <1>1, <1>2 DEF Backed
<1>3. ASSUME NEW h, h \in {[g EXCEPT !.audio = TRUE],
                           [g EXCEPT !.text = TRUE, !.audio = TRUE, !.timing = TRUE]}
      PROVE  h.jobs = g.jobs /\ h.thumb = g.thumb /\ h.chapters = g.chapters
  BY <1>3 DEF Guides
<1>4. QED
  BY <1>2, <1>3

LEMMA CoveredBacked ==
  ASSUME NEW d, NEW g \in Guides, Backed(g, d), d.cover
  PROVE  Backed([g EXCEPT !.thumb = "cover"], d)
<1>1. g # NoRow
  BY StoreAssumption
<1>2. /\ [g EXCEPT !.thumb = "cover"].audio = g.audio
      /\ [g EXCEPT !.thumb = "cover"].jobs = g.jobs
      /\ [g EXCEPT !.thumb = "cover"].chapters = g.chapters
  BY DEF Guides
<1>3. QED
  BY <1>1, <1>2 DEF Backed

LEMMA ListedBacked ==
  ASSUME NEW d, NEW cs
  PROVE  Listed(cs).gen \subseteq d.gen /\ Listed(cs).real \subseteq d.real
BY DEF Listed

-----------------------------------------------------------------------------
(* How a thread moves.                                                     *)

Files == \A p \in Procs : FilesFirst(p)

LEMMA FilesGrow ==
  ASSUME Files, Grow, UNCHANGED <<pc, read, chs, body>>
  PROVE  Files'
BY BackedGrows DEF Files, FilesFirst, BodyBacked, Grow, Below

LEMMA GotoFiles ==
  ASSUME LocalOK, Files, Grow, NEW p \in Procs, NEW l, NEW r, Goto(p, l, r),
         Backed(r, Known),
         l \in {"uploadWrite", "rendered", "ttsWrite", "ttsDone"} => disk'.mp3,
         l \in {"thumbWrite", "thumbDone"} => disk'.cover
  PROVE  Files'
<1>1. Backed(r, Known')
  BY BackedGrows DEF Grow
<1>2. \A q \in Procs : q # p => pc'[q] = pc[q] /\ read'[q] = read[q]
  BY DEF Goto, LocalOK
<1>3. pc'[p] = l /\ read'[p] = r /\ chs' = chs /\ body' = body
  BY DEF Goto, LocalOK
<1>4. FilesFirst(p)'
  BY <1>1, <1>3, BackedGrows DEF Files, FilesFirst, BodyBacked, Grow, Below
<1>5. ASSUME NEW q \in Procs, q # p PROVE FilesFirst(q)'
  BY <1>2, <1>3, <1>5, BackedGrows DEF Files, FilesFirst, BodyBacked, Grow, Below
<1>6. QED
  BY <1>4, <1>5 DEF Files

\* A thread that ends, or that the pipeline sends to its next stage, holds nothing.
LEMMA DropFiles ==
  ASSUME LocalOK, Files, Grow, NEW p \in Procs, NEW l,
         l \notin {"uploadWrite", "rendered", "ttsWrite", "ttsDone", "thumbWrite", "thumbDone"},
         pc' = [pc EXCEPT ![p] = l], read' = [read EXCEPT ![p] = NoRow],
         chs' = [chs EXCEPT ![p] = NoChapters],
         body' = body \/ body' = [body EXCEPT ![p] = Absent]
  PROVE  Files'
<1>1. Backed(NoRow, Known')
  BY DEF Backed
<1>2. \A q \in Procs :
        q # p => pc'[q] = pc[q] /\ read'[q] = read[q] /\ chs'[q] = chs[q] /\ body'[q] = body[q]
  BY DEF LocalOK
<1>3. pc'[p] = l /\ read'[p] = NoRow /\ chs'[p] = NoChapters /\ body'[p] \in {body[p], Absent}
  BY DEF LocalOK
<1>4. FilesFirst(p)'
  BY <1>1, <1>3, BackedGrows DEF Files, FilesFirst, BodyBacked, Grow, NoChapters
<1>5. ASSUME NEW q \in Procs, q # p PROVE FilesFirst(q)'
  BY <1>2, <1>5, BackedGrows DEF Files, FilesFirst, BodyBacked, Grow, Below
<1>6. QED
  BY <1>4, <1>5 DEF Files

LEMMA ExitFiles ==
  ASSUME LocalOK, Files, Grow, NEW p \in Procs, Exit(p)
  PROVE  Files'
BY DropFiles DEF Exit

LEMMA LeaveFiles ==
  ASSUME LocalOK, Files, Grow, NEW p \in Procs, NEW stage \in Stages, Leave(p, stage)
  PROVE  Files'
<1>1. NextStage[stage] \in {"thumbnail", "tts", "timing", "images", "pipelineDone"}
  BY DEF NextStage, Stages
<1>2. CASE task[p] = "pipeline"
  BY <1>1, <1>2, DropFiles DEF Leave
<1>3. CASE task[p] # "pipeline"
  BY <1>3, ExitFiles DEF Leave
<1>4. QED
  BY <1>2, <1>3

LEMMA ReadFiles ==
  ASSUME LocalOK, Files, Backed(guide, Known), Grow, NEW p \in Procs, NEW l,
         NEW stage \in Stages, Read(p, l, stage),
         l \in {"uploadWrite", "rendered", "ttsWrite", "ttsDone"} => disk'.mp3,
         l \in {"thumbWrite", "thumbDone"} => disk'.cover
  PROVE  Files'
BY GotoFiles, LeaveFiles DEF Read

LEMMA SpawnFiles ==
  ASSUME LocalOK, guide \in Rows, Files, Backed(guide, Known), NEW p \in Procs, NEW at,
         NEW step \in Steps, NEW first \in {"analyze", "tts", "images"}, Spawn(p, at, step, first)
  PROVE  Backed(guide', Known) /\ Files' /\ Known' = Known
<1>1. Backed(guide', Known)
  BY BackedMerge, Names DEF Spawn
<1>2. disk' = disk /\ Known' = Known /\ Backed(NoRow, Known)
  BY BackedNoRow, KnownGrows DEF Spawn, client
<1>3. \A q \in Procs : q # p => pc'[q] = pc[q] /\ read'[q] = read[q] /\ body'[q] = body[q]
  BY DEF Spawn, LocalOK
<1>4. pc'[p] = first /\ read'[p] = NoRow /\ chs' = chs /\ body'[p] = Absent
  BY DEF Spawn, LocalOK
<1>5. Files'
  BY <1>2, <1>3, <1>4 DEF Files, FilesFirst, BodyBacked
<1>6. QED
  BY <1>1, <1>2, <1>5

-----------------------------------------------------------------------------
(* Every action keeps the row and the threads backed.                      *)

Kept == Backed(guide', Known') /\ Files' /\ Grow

PageBacked == BodyBacked(page)

LEMMA RequestFiles ==
  ASSUME TypeInv, Files, Backed(guide, Known), PageBacked, NEW p \in Procs, Request(p)
  PROVE  Kept /\ PageBacked'
<1>1. guide \in Rows /\ LocalOK /\ page \in Posts \cup {Absent}
  BY DEF TypeInv, TypeOK
<1>2. ASSUME NEW a \in Callers, NEW l, Begin(p, a, l),
             l \notin {"uploadWrite", "rendered", "ttsWrite", "ttsDone", "thumbWrite", "thumbDone"},
             Below(claimed, claimed'), BodyBacked(body[p])',
             \A q \in Procs : q # p => body'[q] = body[q]
      PROVE  Kept
  <2>1. \A q \in Procs : q # p => pc'[q] = pc[q] /\ read'[q] = read[q] /\ body'[q] = body[q]
    BY <1>1, <1>2 DEF Begin, LocalOK
  <2>2. pc'[p] = l /\ read'[p] = guide /\ chs' = chs /\ disk' = disk /\ guide' = guide
    BY <1>1, <1>2 DEF Begin, LocalOK
  <2>3. Grow
    BY <1>2, <2>2, KnownGrows DEF Below
  <2>4. FilesFirst(p)'
    BY <1>2, <2>2, <2>3, BackedGrows DEF Files, FilesFirst, Grow, Below
  <2>5. ASSUME NEW q \in Procs, q # p PROVE FilesFirst(q)'
    BY <2>1, <2>2, <2>3, <2>5, BackedGrows DEF Files, FilesFirst, BodyBacked, Grow, Below
  <2>6. QED
    BY <2>2, <2>3, <2>4, <2>5, BackedGrows DEF Kept, Files, Grow
<1>3. ASSUME NEW a \in Callers, ReceiveCreate(p, a)
      PROVE  Kept /\ PageBacked'
  <2>1. disk' = disk /\ (Begin(p, a, "insert") \/ Begin(p, a, "update"))
    BY <1>3 DEF ReceiveCreate, Begin
  <2>2. CASE Written(p)
    <3>1. PICK b \in Bodies : body' = [body EXCEPT ![p] = b] /\ claimed' = Claim(claimed, b)
      BY <2>2 DEF Written
    <3>2. b \in Posts /\ b # Absent
      BY JobsAssumption DEF JobsAssumption
    <3>3. Backed(NewGuide(Anon, 0, b), claimed') /\ Below(claimed, claimed')
      BY <3>1, <3>2, BackedClaim
    <3>4. Below(claimed', Known')
      BY DEF Below, Known
    <3>5. body'[p] = b /\ \A q \in Procs : q # p => body'[q] = body[q]
      BY <1>1, <3>1 DEF LocalOK
    <3>6. BodyBacked(body[p])'
      BY <3>3, <3>4, <3>5, BackedGrows DEF BodyBacked
    <3>7. Kept
      BY <1>2, <2>1, <3>3, <3>5, <3>6
    <3>8. page' = page
      BY <2>2 DEF Written
    <3>9. QED
      BY <3>7, <3>8, BackedGrows DEF Kept, Grow, PageBacked, BodyBacked
  <2>3. CASE Published(p)
    <3>1. body' = [body EXCEPT ![p] = page] /\ claimed' = claimed /\ page' = Absent
      BY <2>3 DEF Published
    <3>2. Known' = Known /\ Below(claimed, claimed')
      BY <2>1, <3>1, KnownGrows DEF Below
    <3>3. body'[p] = page /\ \A q \in Procs : q # p => body'[q] = body[q]
      BY <1>1, <3>1 DEF LocalOK
    <3>4. BodyBacked(body[p])'
      BY <3>2, <3>3 DEF BodyBacked, PageBacked
    <3>5. Kept
      BY <1>2, <2>1, <3>2, <3>3, <3>4
    <3>6. QED
      BY <3>1, <3>5 DEF PageBacked, BodyBacked
  <2>4. QED
    BY <1>3, <2>2, <2>3 DEF ReceiveCreate
<1>4. ASSUME UNCHANGED <<page, disk, claimed>>, Kept
      PROVE  PageBacked'
  BY <1>4, KnownGrows DEF PageBacked, BodyBacked
<1>5. ASSUME NEW a \in Callers, ReceiveDelete(p, a)
      PROVE  Kept /\ PageBacked'
  <2>1. UNCHANGED <<pc, read, chs, body, page, disk, claimed>> /\ guide' \in {guide, NoRow}
    BY <1>5 DEF ReceiveDelete, DeleteGuide, local, client
  <2>2. QED
    BY <1>4, <2>1, FilesGrow, KnownGrows, BackedNoRow DEF Kept
<1>6. ASSUME NEW a \in Callers, NEW e \in Endpoints, ReceiveOther(p, a, e)
      PROVE  Kept /\ PageBacked'
  <2>1. Entry(e) \notin {"uploadWrite", "rendered", "ttsWrite", "ttsDone", "thumbWrite", "thumbDone"}
    BY <1>6, JobsAssumption DEF ReceiveOther, Entry, AllEndpoints, JobsAssumption
  <2>2. UNCHANGED <<body, page, disk, claimed>> /\ Begin(p, a, Entry(e))
    BY <1>6 DEF ReceiveOther, Begin, client
  <2>3. BodyBacked(body[p])'
    BY <2>2, KnownGrows DEF Files, FilesFirst, BodyBacked
  <2>4. Kept
    BY <1>2, <2>1, <2>2, <2>3 DEF Below
  <2>5. QED
    BY <1>4, <2>2, <2>4
<1>7. QED
  BY <1>3, <1>5, <1>6 DEF Request

LEMMA HandleFiles ==
  ASSUME guide \in Rows, disk \in Disks, LocalOK, Files, Backed(guide, Known), creates \in Nat,
         NEW p \in Procs, Handle(p)
  PROVE  Kept
<1> USE DEF Kept
<1>1. read[p] \in Rows /\ actor[p] \in Callers /\ Backed(read[p], Known) /\ BodyBacked(body[p])
  BY DEF LocalOK, Files, FilesFirst
<1>2. ASSUME UNCHANGED <<disk, client>> PROVE Grow /\ Known' = Known
  BY <1>2, KnownGrows DEF client
<1>3. CASE InsertNew(p)
  <2>1. \/ InsertGuide(NewGuide(actor[p], creates, body[p])) /\ Goto(p, "spawnPipeline", NoRow)
        \/ UNCHANGED guide /\ Exit(p)
    BY <1>3 DEF InsertNew
  <2>2. body[p] \in Posts /\ body[p] # Absent
    BY <1>3 DEF InsertNew, LocalOK, HoldsBody
  <2>3. /\ NewGuide(actor[p], creates, body[p]) \in Guides
        /\ Backed(NewGuide(actor[p], creates, body[p]), Known) /\ Backed(NoRow, Known)
    BY <1>1, <2>2, NewGuideType, BackedAnew, BackedNoRow DEF BodyBacked
  <2>4. Backed(guide', Known)
    BY <2>1, <2>3, BackedStatements
  <2>5. Files'
    BY <1>2, <1>3, <2>1, <2>3, GotoFiles, ExitFiles DEF InsertNew
  <2>6. QED
    BY <1>2, <1>3, <2>4, <2>5 DEF InsertNew
<1>4. CASE UpdateExisting(p)
  <2>1. UpdateGuide(Replaced(read[p], body[p]), actor[p]) \/ UNCHANGED guide
    BY <1>4 DEF UpdateExisting
  <2>2. read[p] \in Guides /\ body[p] \in Posts /\ body[p] # Absent
    BY <1>1, <1>4 DEF UpdateExisting, LocalOK, HoldsRow, HoldsBody, Rows
  <2>3. Replaced(read[p], body[p]) \in Guides /\ Backed(Replaced(read[p], body[p]), Known)
    BY <1>1, <2>2, ReplacedIs, BackedReplaced DEF BodyBacked
  <2>4. Backed(guide', Known)
    BY <1>1, <2>1, <2>3, BackedStatements
  <2>5. Files'
    BY <1>2, <1>4, ExitFiles DEF UpdateExisting
  <2>6. QED
    BY <1>2, <1>4, <2>4, <2>5 DEF UpdateExisting
<1>5. CASE EditFails(p)
  BY <1>2, <1>5, ExitFiles DEF EditFails
<1>6. CASE EditWrite(p)
  <2>1. read[p] \in Guides /\ read[p] # NoRow
    BY <1>1, <1>6 DEF EditWrite, LocalOK, HoldsRow, Rows
  <2>2. \A new \in Edited(p) : new \in Guides /\ Backed(new, Known)
    <3>1. CASE pc[p] = "autoWrite"
      <4>1. Edited(p) = {[read[p] EXCEPT !.chapters = Listed(cs)] : cs \in (SUBSET Chapters) \ {{}}}
        BY <3>1 DEF Edited
      <4>2. ASSUME NEW cs \in SUBSET Chapters
            PROVE  /\ [read[p] EXCEPT !.chapters = Listed(cs)] \in Guides
                   /\ Backed([read[p] EXCEPT !.chapters = Listed(cs)], Known)
        BY <1>1, <2>1, ListedType, ListedBacked, RelistedBacked
      <4>3. QED
        BY <4>1, <4>2
    <3>2. CASE pc[p] = "dateWrite"
      BY <1>1, <2>1, <3>2 DEF Edited
    <3>3. CASE pc[p] = "uploadWrite"
      <4>1. Edited(p) = {[read[p] EXCEPT !.audio = TRUE]} /\ disk.mp3
        BY <3>3 DEF Edited, Files, FilesFirst
      <4>2. [read[p] EXCEPT !.audio = TRUE] \in Guides
        BY <2>1, Edits, StepNames
      <4>3. Backed([read[p] EXCEPT !.audio = TRUE], Known)
        BY <1>1, <2>1, <4>1, RecordedBacked, KnownGrows
      <4>4. QED
        BY <4>1, <4>2, <4>3
    <3>4. QED
      BY <1>6, <3>1, <3>2, <3>3 DEF EditWrite
  <2>3. Backed(guide', Known)
    BY <1>1, <1>6, <2>2, BackedStatements DEF EditWrite
  <2>4. QED
    BY <1>2, <1>6, <2>3, ExitFiles DEF EditWrite
<1>7. CASE UploadFile(p)
  <2>1. Below(disk, disk') /\ disk'.mp3 /\ claimed' = claimed
    BY <1>7 DEF UploadFile, Below, Disks, client
  <2>2. Grow
    BY <2>1, KnownGrows DEF Below
  <2>3. QED
    BY <1>1, <1>7, <2>1, <2>2, GotoFiles, BackedGrows DEF UploadFile, Grow
<1>8. CASE SpawnPipeline(p) \/ SpawnTts(p) \/ SpawnImages(p) \/ SpawnReal(p)
  <2>1. {"pipeline", "tts", "chapter-images", "chapter-real-images"} \subseteq Steps
    BY DEF Steps
  <2>2. Backed(guide', Known) /\ Files' /\ Known' = Known
    BY <1>8, <2>1, SpawnFiles DEF SpawnPipeline, SpawnTts, SpawnImages, SpawnReal, Spawn
  <2>3. Grow
    BY <1>2, <1>8 DEF SpawnPipeline, SpawnTts, SpawnImages, SpawnReal, Spawn
  <2>4. QED
    BY <2>2, <2>3
<1>9. QED
  BY <1>3, <1>4, <1>5, <1>6, <1>7, <1>8 DEF Handle

\* The steps that leave the files alone and only report a status that promises
\* no file, or one that is there.
LEMMA UntouchedBelow ==
  /\ Untouched => Grow /\ disk' = disk /\ Known' = Known
  /\ UNCHANGED <<disk, client>> => Grow /\ disk' = disk /\ Known' = Known
BY KnownGrows DEF Untouched, client

LEMMA AnalyzeFiles ==
  ASSUME guide \in Rows, LocalOK, Files, Backed(guide, Known), NEW p \in Procs, Analyze(p)
  PROVE  Kept
<1> USE DEF Kept
<1>1. disk' = disk /\ Known' = Known /\ Grow /\ Backed(NoRow, Known)
  BY UntouchedBelow, BackedNoRow DEF Analyze, AnalyzeRead, AnalyzeMark, AnalyzeFails, AnalyzePanics,
    AnalyzeReply, AnalyzeWrite, AnalyzeDone
<1>2. CASE AnalyzeRead(p)
  <2>1. Read(p, "analyzeMark", "analyze") /\ guide' = guide
    BY <1>2 DEF AnalyzeRead, ReadThen, Read
  <2>2. QED
    BY <1>1, <2>1, ReadFiles, Names
<1>3. CASE AnalyzeMark(p)
  <2>1. Backed(guide', Known)
    BY <1>3, BackedMerge, Names DEF AnalyzeMark
  <2>2. QED
    BY <1>1, <1>3, <2>1, GotoFiles DEF AnalyzeMark
<1>4. CASE AnalyzeFails(p) \/ AnalyzeDone(p)
  <2>1. Backed(guide', Known)
    BY <1>4, BackedMerge, Names DEF AnalyzeFails, AnalyzeDone
  <2>2. Files'
    BY <1>1, <1>4, LeaveFiles, Names DEF AnalyzeFails, AnalyzeDone
  <2>3. QED
    BY <1>1, <2>1, <2>2
<1>5. CASE AnalyzeReply(p)
  <2>1. Read(p, "analyzeWrite", "analyze") /\ guide' = guide
    BY <1>5 DEF AnalyzeReply, ReadThen, Read
  <2>2. QED
    BY <1>1, <2>1, ReadFiles, Names
<1>6. CASE AnalyzeWrite(p)
  <2> DEFINE new(cs) == [read[p] EXCEPT !.summary = TRUE,
                           !.chapters = IF read[p].chapters.idx = {} THEN Listed(cs) ELSE @]
  <2>1. PICK cs \in SUBSET Chapters :
          \/ UpdateGuideBySlug(new(cs)) /\ Goto(p, "analyzeDone", NoRow)
          \/ UNCHANGED guide /\ Leave(p, "analyze")
    BY <1>6 DEF AnalyzeWrite
  <2>2. read[p] \in Guides /\ Backed(read[p], Known)
    BY <1>6 DEF AnalyzeWrite, LocalOK, HoldsRow, Rows, Files, FilesFirst
  <2> DEFINE list == IF read[p].chapters.idx = {} THEN Listed(cs) ELSE read[p].chapters
  <2>3. list \in ChapterLists
    BY <2>2, ListedType DEF Guides
  <2>4. list.gen \subseteq Known.gen /\ list.real \subseteq Known.real
    BY <2>2, ListedBacked, StoreAssumption DEF Backed
  <2>5. new(cs) = [read[p] EXCEPT !.summary = TRUE, !.chapters = list]
    OBVIOUS
  <2>6. new(cs) \in Guides /\ Backed(new(cs), Known)
    <3> HIDE DEF list
    <3>1. QED
      BY <2>2, <2>3, <2>4, <2>5, RelistedBacked
  <2>7. Backed(guide', Known)
    BY <2>1, <2>6, BackedStatements
  <2>8. Files'
    BY <1>1, <2>1, GotoFiles, LeaveFiles, Names
  <2>9. QED
    BY <1>1, <2>7, <2>8
<1>7. CASE AnalyzePanics(p)
  BY <1>1, <1>7, GotoFiles DEF AnalyzePanics
<1>8. QED
  BY <1>2, <1>3, <1>4, <1>5, <1>6, <1>7 DEF Analyze

LEMMA ThumbnailFiles ==
  ASSUME guide \in Rows, disk \in Disks, LocalOK, Files, Backed(guide, Known), NEW p \in Procs, Thumbnail(p)
  PROVE  Kept
<1> USE DEF Kept
<1>1. Backed(NoRow, Known)
  BY BackedNoRow
<1>2. CASE ThumbRead(p)
  <2>1. Read(p, "thumbCall", "thumbnail") /\ guide' = guide
    BY <1>2 DEF ThumbRead, ReadThen, Read
  <2>2. QED
    BY <1>2, <2>1, UntouchedBelow, ReadFiles, Names DEF ThumbRead
<1>3. CASE ThumbFails(p)
  <2>1. Backed(guide', Known)
    BY <1>3, BackedMerge, Names DEF ThumbFails
  <2>2. QED
    BY <1>3, <2>1, UntouchedBelow, LeaveFiles, Names DEF ThumbFails
<1>4. CASE ThumbReply(p)
  <2>1. Read(p, "thumbWrite", "thumbnail") /\ guide' = guide
    BY <1>4 DEF ThumbReply, ReadThen, Read
  <2>2. Below(disk, disk') /\ disk'.cover /\ claimed' = claimed
    BY <1>4 DEF ThumbReply, Below, Disks, client
  <2>3. Grow
    BY <2>2, KnownGrows DEF Below
  <2>4. QED
    BY <2>1, <2>2, <2>3, ReadFiles, BackedGrows, Names DEF Grow
<1>5. CASE ThumbWrite(p)
  <2>1. read[p] \in Guides /\ Backed(read[p], Known) /\ disk.cover
    BY <1>5 DEF ThumbWrite, LocalOK, HoldsRow, Rows, Files, FilesFirst
  <2>2. [read[p] EXCEPT !.thumb = "cover"] \in Guides
    BY <2>1, Edits, StepNames
  <2>3. Backed([read[p] EXCEPT !.thumb = "cover"], Known)
    BY <2>1, CoveredBacked, KnownGrows
  <2>4. Backed(guide', Known)
    BY <1>5, <2>2, <2>3, BackedStatements DEF ThumbWrite
  <2>5. disk' = disk /\ Known' = Known /\ Grow
    BY <1>5, UntouchedBelow DEF ThumbWrite
  <2>6. Files'
    BY <1>1, <1>5, <2>1, <2>5, GotoFiles, LeaveFiles, Names DEF ThumbWrite
  <2>7. QED
    BY <2>4, <2>5, <2>6
<1>6. CASE ThumbDone(p)
  <2>1. disk.cover
    BY <1>6 DEF ThumbDone, Files, FilesFirst
  <2>2. Backed(guide', Known)
    BY <1>6, <2>1, BackedMerge, Names, KnownGrows DEF ThumbDone
  <2>3. QED
    BY <1>6, <2>2, UntouchedBelow, LeaveFiles, Names DEF ThumbDone
<1>7. QED
  BY <1>2, <1>3, <1>4, <1>5, <1>6 DEF Thumbnail

LEMMA TtsFiles ==
  ASSUME guide \in Rows, disk \in Disks, LocalOK, Files, Backed(guide, Known), NEW p \in Procs, Tts(p) \/ Render(p)
  PROVE  Kept
<1> USE DEF Kept
<1>1. Backed(NoRow, Known)
  BY BackedNoRow
<1>2. ASSUME UNCHANGED <<disk, client>> PROVE Grow /\ disk' = disk /\ Known' = Known
  BY <1>2, UntouchedBelow
<1>3. CASE TtsRead(p)
  <2>1. Read(p, "render", "tts") /\ UNCHANGED <<guide, disk, client>>
    BY <1>3 DEF TtsRead, ReadThen, Read
  <2>2. QED
    BY <1>2, <2>1, ReadFiles, Names
<1>4. CASE RenderChunk(p)
  BY <1>2, <1>4, FilesGrow DEF RenderChunk, local
<1>5. CASE RenderEnds(p)
  <2>1. Below(disk, disk') /\ disk'.mp3 /\ claimed' = claimed
    BY <1>5 DEF RenderEnds, Below, Disks, client
  <2>2. Grow
    BY <2>1, KnownGrows DEF Below
  <2>3. QED
    BY <1>1, <1>5, <2>1, <2>2, GotoFiles, BackedGrows DEF RenderEnds, Grow
<1>6. CASE RenderFails(p) \/ NoResult(p)
  <2>1. TtsFailed(p)
    BY <1>6 DEF RenderFails, NoResult
  <2>2. Backed(guide', Known)
    BY <2>1, BackedMerge, Names DEF TtsFailed
  <2>3. QED
    BY <1>2, <2>1, <2>2, LeaveFiles, Names DEF TtsFailed
<1>7. CASE TtsReply(p)
  <2>1. Read(p, "ttsWrite", "tts") /\ guide' = guide
    BY <1>7 DEF TtsReply, ReadThen, Read
  <2>2. disk.mp3
    BY <1>7 DEF TtsReply, Files, FilesFirst
  <2>3. disk' = disk /\ Known' = Known /\ Grow
    BY <1>7, UntouchedBelow DEF TtsReply
  <2>4. QED
    BY <2>1, <2>2, <2>3, ReadFiles, Names
<1>8. CASE TtsWrite(p)
  <2>1. read[p] \in Guides /\ Backed(read[p], Known) /\ disk.mp3
    BY <1>8 DEF TtsWrite, LocalOK, HoldsRow, Rows, Files, FilesFirst
  <2>2. [read[p] EXCEPT !.text = TRUE, !.audio = TRUE, !.timing = TRUE] \in Guides
    BY <2>1, Edits, StepNames
  <2>3. Backed([read[p] EXCEPT !.text = TRUE, !.audio = TRUE, !.timing = TRUE], Known)
    BY <2>1, RecordedBacked, KnownGrows
  <2>4. Backed(guide', Known)
    BY <1>8, <2>2, <2>3, BackedStatements DEF TtsWrite
  <2>5. disk' = disk /\ Known' = Known /\ Grow
    BY <1>8, UntouchedBelow DEF TtsWrite
  <2>6. QED
    BY <1>1, <1>8, <2>1, <2>4, <2>5, GotoFiles DEF TtsWrite
<1>9. CASE TtsDone(p)
  <2>1. disk.mp3
    BY <1>9 DEF TtsDone, Files, FilesFirst
  <2>2. Backed(guide', Known)
    BY <1>9, <2>1, BackedMerge, Names, KnownGrows DEF TtsDone
  <2>3. QED
    BY <1>2, <1>9, <2>2, LeaveFiles, Names DEF TtsDone
<1>10. QED
  BY <1>3, <1>4, <1>5, <1>6, <1>7, <1>8, <1>9 DEF Tts, Render

LEMMA TimingFiles ==
  ASSUME guide \in Rows, LocalOK, Files, Backed(guide, Known), NEW p \in Procs, Timing(p)
  PROVE  Kept
<1> USE DEF Kept
<1>1. disk' = disk /\ Known' = Known /\ Grow /\ Backed(NoRow, Known)
  BY UntouchedBelow, BackedNoRow DEF Timing, TimingRead, TimingWrite, TimingDone
<1>2. CASE TimingRead(p)
  <2>1. Read(p, "timingWrite", "timing") /\ guide' = guide
    BY <1>2 DEF TimingRead, ReadThen, Read
  <2>2. QED
    BY <1>1, <2>1, ReadFiles, Names
<1>3. CASE TimingWrite(p)
  <2>1. read[p] \in Guides /\ Backed(read[p], Known)
    BY <1>3 DEF TimingWrite, LocalOK, HoldsRow, Rows, Files, FilesFirst
  <2>2. ASSUME NEW cs \in SUBSET read[p].chapters.idx
        PROVE  /\ [read[p] EXCEPT !.chapters = Listed(cs)] \in Guides
               /\ Backed([read[p] EXCEPT !.chapters = Listed(cs)], Known)
    <3>1. read[p].chapters.idx \subseteq Chapters
      BY <2>1 DEF Guides, ChapterLists
    <3>2. Listed(cs) \in ChapterLists
      BY <3>1, ListedType
    <3>3. QED
      BY <2>1, <3>2, ListedBacked, RelistedBacked
  <2>3. Backed(guide', Known)
    BY <1>3, <2>2, BackedStatements DEF TimingWrite
  <2>4. Files'
    BY <1>1, <1>3, GotoFiles, LeaveFiles, Names DEF TimingWrite
  <2>5. QED
    BY <1>1, <2>3, <2>4
<1>4. CASE TimingDone(p)
  <2>1. Backed(guide', Known)
    BY <1>4, BackedMerge, Names DEF TimingDone
  <2>2. QED
    BY <1>1, <1>4, <2>1, LeaveFiles, Names DEF TimingDone
<1>5. QED
  BY <1>2, <1>3, <1>4 DEF Timing

LEMMA ImagesFiles ==
  ASSUME guide \in Rows, disk \in Disks, LocalOK, Files, Backed(guide, Known), NEW p \in Procs, Images(p)
  PROVE  Kept
<1> USE DEF Kept
<1>1. Backed(NoRow, Known) /\ (Untouched => disk' = disk /\ Known' = Known /\ Grow)
  BY BackedNoRow, UntouchedBelow
<1>2. CASE ImagesRead(p)
  <2>1. CASE Leave(p, "images")
    BY <1>1, <1>2, <2>1, LeaveFiles, Names DEF ImagesRead
  <2>2. CASE /\ guide # NoRow
             /\ pc' = [pc EXCEPT ![p] = "imagesCall"]
             /\ chs' = [chs EXCEPT ![p] = guide.chapters]
             /\ todo' = [todo EXCEPT ![p] = Missing(p, guide.chapters)]
             /\ UNCHANGED <<task, actor, read, body>>
    <3>1. guide.chapters.gen \subseteq Known.gen /\ guide.chapters.real \subseteq Known.real
      BY <2>2 DEF Backed
    <3>2. /\ pc'[p] = "imagesCall" /\ chs'[p] = guide.chapters
          /\ UNCHANGED <<guide, read, body, disk, Known>> /\ Grow
      BY <1>1, <1>2, <2>2 DEF ImagesRead, LocalOK
    <3>3. \A q \in Procs : q # p => pc'[q] = pc[q] /\ chs'[q] = chs[q]
      BY <2>2 DEF LocalOK
    <3>4. FilesFirst(p)'
      BY <3>1, <3>2 DEF Files, FilesFirst, BodyBacked
    <3>5. ASSUME NEW q \in Procs, q # p PROVE FilesFirst(q)'
      BY <3>2, <3>3, <3>5 DEF Files, FilesFirst, BodyBacked
    <3>6. QED
      BY <3>2, <3>4, <3>5 DEF Files
  <2>3. QED
    BY <1>2, <2>1, <2>2 DEF ImagesRead
<1>3. CASE ImageMade(p)
  <2>1. PICK c \in todo[p] :
          \/ /\ disk' = [disk EXCEPT !.real = @ \cup {c}]
             /\ chs' = [chs EXCEPT ![p].real = @ \cup {c}]
          \/ /\ disk' = [disk EXCEPT !.gen = @ \cup {c}]
             /\ chs' = [chs EXCEPT ![p].gen = @ \cup {c}]
    BY <1>3 DEF ImageMade
  <2>2. chs[p] \in ChapterLists /\ \A q \in Procs : q # p => chs'[q] = chs[q]
    BY <2>1 DEF LocalOK
  <2>3. UNCHANGED <<guide, pc, read, body, claimed>>
    BY <1>3 DEF ImageMade, client
  <2>4. CASE /\ disk' = [disk EXCEPT !.real = @ \cup {c}]
             /\ chs' = [chs EXCEPT ![p].real = @ \cup {c}]
    <3>1. /\ disk'.real = disk.real \cup {c} /\ disk'.gen = disk.gen
          /\ disk'.mp3 = disk.mp3 /\ disk'.cover = disk.cover
      BY <2>4 DEF Disks
    <3>2. chs'[p].real = chs[p].real \cup {c} /\ chs'[p].gen = chs[p].gen
      BY <2>2, <2>4 DEF LocalOK, ChapterLists
    <3>3. Grow
      BY <2>3, <3>1, KnownGrows DEF Below
    <3>4. c \in Known'.real
      BY <3>1 DEF Known
    <3>5. \A q \in Procs : FilesFirst(q)'
      BY <2>2, <2>3, <3>1, <3>2, <3>3, <3>4, BackedGrows DEF Files, FilesFirst, BodyBacked, Grow, Below
    <3>6. QED
      BY <2>3, <3>3, <3>5, BackedGrows DEF Files, Grow
  <2>5. CASE /\ disk' = [disk EXCEPT !.gen = @ \cup {c}]
             /\ chs' = [chs EXCEPT ![p].gen = @ \cup {c}]
    <3>1. /\ disk'.gen = disk.gen \cup {c} /\ disk'.real = disk.real
          /\ disk'.mp3 = disk.mp3 /\ disk'.cover = disk.cover
      BY <2>5 DEF Disks
    <3>2. chs'[p].gen = chs[p].gen \cup {c} /\ chs'[p].real = chs[p].real
      BY <2>2, <2>5 DEF LocalOK, ChapterLists
    <3>3. Grow
      BY <2>3, <3>1, KnownGrows DEF Below
    <3>4. c \in Known'.gen
      BY <3>1 DEF Known
    <3>5. \A q \in Procs : FilesFirst(q)'
      BY <2>2, <2>3, <3>1, <3>2, <3>3, <3>4, BackedGrows DEF Files, FilesFirst, BodyBacked, Grow, Below
    <3>6. QED
      BY <2>3, <3>3, <3>5, BackedGrows DEF Files, Grow
  <2>6. QED
    BY <2>1, <2>4, <2>5
<1>4. CASE ImageSkipped(p)
  BY <1>1, <1>4, FilesGrow DEF ImageSkipped
<1>5. CASE ImageFails(p) \/ ImagesDone(p) \/ ImagesSkipped(p)
  <2>1. Backed(guide', Known)
    BY <1>5, BackedMerge, Names DEF ImageFails, ImagesDone, ImagesSkipped, ImageStep
  <2>2. QED
    BY <1>1, <1>5, <2>1, LeaveFiles, Names DEF ImageFails, ImagesDone, ImagesSkipped
<1>6. CASE ImagesReply(p)
  <2>1. Read(p, "imagesWrite", "images") /\ guide' = guide
    BY <1>6 DEF ImagesReply, ReadThen, Read
  <2>2. QED
    BY <1>1, <1>6, <2>1, ReadFiles, Names DEF ImagesReply
<1>7. CASE ImagesWrite(p)
  <2>1. read[p] \in Guides /\ chs[p] \in ChapterLists /\ Backed(read[p], Known)
        /\ chs[p].gen \subseteq Known.gen /\ chs[p].real \subseteq Known.real
    BY <1>7 DEF ImagesWrite, LocalOK, HoldsRow, Rows, Files, FilesFirst
  <2>2. [read[p] EXCEPT !.chapters = chs[p]] \in Guides
        /\ Backed([read[p] EXCEPT !.chapters = chs[p]], Known)
    BY <2>1, RelistedBacked
  <2>3. Backed(guide', Known)
    BY <1>7, <2>2, BackedStatements DEF ImagesWrite
  <2>4. QED
    BY <1>1, <1>7, <2>3, GotoFiles DEF ImagesWrite
<1>8. QED
  BY <1>2, <1>3, <1>4, <1>5, <1>6, <1>7 DEF Images

-----------------------------------------------------------------------------
\* The invariant but for the types.
FilesInv == Files /\ ArtefactsOnDisk /\ PageBacked

LEMMA FilesStep == TypeInv /\ FilesInv /\ [Next]_vars => FilesInv'
<1> SUFFICES ASSUME TypeInv, FilesInv, [Next]_vars PROVE FilesInv'
  OBVIOUS
<1>1. /\ guide \in Rows /\ disk \in Disks /\ LocalOK /\ creates \in Nat
      /\ Files /\ Backed(guide, Known) /\ PageBacked
  BY DEF TypeInv, TypeOK, ArtefactsOnDisk, FilesInv
<1>2. ASSUME Kept, PageBacked' PROVE FilesInv'
  BY <1>2 DEF Kept, ArtefactsOnDisk, FilesInv
<1>3. ASSUME Kept, page' = page PROVE FilesInv'
  BY <1>1, <1>2, <1>3, BackedGrows DEF Kept, Grow, PageBacked, BodyBacked
<1>4. ASSUME NEW p \in Procs, Run(p) \/ Render(p)
      PROVE  FilesInv'
  <2> SUFFICES Kept
    BY <1>1, <1>3, <1>4, RunsPlain
  <2>1. CASE PipelineDone(p)
    <3>1. Backed(guide', Known)
      BY <1>1, <2>1, BackedMerge, Names DEF PipelineDone
    <3>2. QED
      BY <1>1, <2>1, <3>1, UntouchedBelow, ExitFiles DEF PipelineDone, Kept
  <2>2. CASE JobCannotOpen(p)
    BY <1>1, <2>2, UntouchedBelow, LeaveFiles, ExitFiles, Names DEF JobCannotOpen, Kept
  <2>3. QED
    BY <1>1, <1>4, <2>1, <2>2, HandleFiles, AnalyzeFiles, ThumbnailFiles, TtsFiles, TimingFiles,
      ImagesFiles DEF Run
<1>5. CASE CleanupParts \/ UNCHANGED vars
  <2>1. UNCHANGED <<guide, pc, read, chs, body, disk, client>>
    BY <1>5 DEF CleanupParts, vars, local
  <2>2. Grow /\ Known' = Known
    BY <2>1, UntouchedBelow
  <2>3. Files'
    BY <1>1, <2>1, <2>2, FilesGrow
  <2>4. QED
    BY <1>1, <1>3, <2>1, <2>2, <2>3 DEF Kept, client
<1>6. CASE Crash
  <2>1. Files' /\ UNCHANGED <<guide, disk, client>>
    BY <1>6 DEF Crash, Files, FilesFirst, BodyBacked, Backed, NoChapters
  <2>2. QED
    BY <1>1, <1>3, <2>1, UntouchedBelow DEF Kept, client
<1>7. CASE PageLoads
  <2>1. UNCHANGED <<guide, pc, read, chs, body, disk, claimed>> /\ guide # NoRow /\ page' = CopyOf(guide)
    BY <1>7 DEF PageLoads, local
  <2>2. Grow /\ Known' = Known
    BY <2>1, KnownGrows
  <2>3. Files'
    BY <1>1, <2>1, <2>2, FilesGrow
  <2>4. PageBacked'
    BY <1>1, <2>1, <2>2, BackedCopy DEF PageBacked, BodyBacked, Rows
  <2>5. QED
    BY <1>1, <1>2, <2>1, <2>2, <2>3, <2>4 DEF Kept
<1>8. QED
  BY <1>1, <1>2, <1>4, <1>5, <1>6, <1>7, RequestFiles DEF Next

\* The inductive invariant: besides the row, every copy of it a thread or a page holds,
\* every body and every list of chapters an image job fills in is backed by files that
\* were written or that a client named.
THEOREM ArtefactsInductive == Spec => []ArtefactsInv
<1>1. Init => FilesInv
  <2> SUFFICES ASSUME Init PROVE FilesInv
    OBVIOUS
  <2>1. Files /\ PageBacked
    BY DEF Init, Files, FilesFirst, BodyBacked, PageBacked, Backed, NoChapters
  <2>2. ArtefactsOnDisk
    <3>1. CASE guide = NoRow
      BY <3>1, BackedNoRow DEF ArtefactsOnDisk
    <3>2. CASE \E a \in Callers, b \in Bodies : guide = NewGuide(a, 0, b) /\ claimed = Claim(NoFiles, b)
      <4>1. PICK a \in Callers, b \in Posts : guide = NewGuide(a, 0, b) /\ claimed = Claim(NoFiles, b)
        BY <3>2, JobsAssumption DEF JobsAssumption
      <4>2. Backed(guide, claimed)
        BY <4>1, BackedClaim, BackedAnew
      <4>3. Below(claimed, Known)
        BY DEF Below, Known
      <4>4. QED
        BY <4>2, <4>3, BackedGrows DEF ArtefactsOnDisk
    <3>3. QED
      BY <3>1, <3>2 DEF Init
  <2>3. QED
    BY <2>1, <2>2 DEF FilesInv
<1>2. TypeInv /\ FilesInv => ArtefactsInv
  BY DEF TypeInv, LocalOK, FilesInv, Files, PageBacked, ArtefactsInv
<1>3. QED
  BY <1>1, <1>2, FilesStep, Typed, PTL DEF Spec

\* A row points at an mp3, a cover or a chapter image only when that was written before,
\* or when a client named it in a body of its own.
THEOREM ArtefactsSafe == Spec => []ArtefactsOnDisk
BY ArtefactsInductive, PTL DEF ArtefactsInv
=============================================================================
