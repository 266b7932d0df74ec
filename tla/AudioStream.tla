------------------------------ MODULE AudioStream ------------------------------
(***************************************************************************)
(* GET /api/guides/:slug/stream: listeners follow <slug>.parts/stream.mp3  *)
(* while a render writes it.  Three programs meet in that directory with   *)
(* no lock between them: run_tts_job (guides.rs), its node helper          *)
(* (tts/render-guide.mjs) and the tail loop of write_growing_file          *)
(* (http.rs), which learns from state.json when to stop.  A listener that  *)
(* does not read, a paused player, holds its tail loop inside a write for  *)
(* as long as it likes.                                                    *)
(***************************************************************************)
EXTENDS Naturals, Sequences

CONSTANTS
  Tails,        \* requests for the stream
  Blocks,       \* blocks of MP3 a render encodes (one per source chunk)
  MaxIdle,      \* polls without news before a tail gives up (120 s / 150 ms)
  MaxRenders    \* bound: renders of the guide

ASSUME StreamAssumption ==
  /\ Blocks \in Nat \ {0}
  /\ MaxIdle \in Nat
  /\ MaxRenders \in Nat

\* A block of audio: the render it belongs to, and its place.
Block == (1..MaxRenders) \X (1..Blocks)

\* Where run_tts_job and its helper are.
Steps == {"idle", "cleared", "made", "spawned", "helperCleared", "helperMade",
          "encoding", "encoded", "saved", "helperFailed", "jobFailed"}

VARIABLES
  render,    \* the number of the last render
  step,      \* where it is
  chunks,    \* chunks whose progress its helper has recorded
  encoded,   \* blocks its encoder has put out
  dir,       \* <slug>.parts: "gone" or "there"
  stream,    \* the content of stream.mp3 in that directory
  file,      \* stream.mp3: "none" or "open"
  state,     \* what a reader finds in state.json
  mp3,       \* the canonical <slug>.mp3: "none" or "saved"
  cleanups,  \* cleanup threads in their 60 s sleep
  pc,        \* where each tail loop is
  off, size, idle,  \* its offset, the size it read, its polls without news
  sent,      \* the audio its listener was sent
  conn,      \* its response: "open", "ended" (zero chunk, or closed), "broken"
  last       \* what it read in state.json last

dirVars  == <<dir, stream, file, state>>
jobVars  == <<render, step, chunks, encoded, mp3, cleanups>>
tailVars == <<pc, off, size, idle, sent, conn, last>>
vars     == <<dirVars, jobVars, tailVars>>

States == {"absent", "torn", "running", "done", "failed"}

TypeOK ==
  /\ render \in 0..MaxRenders /\ step \in Steps
  /\ chunks \in 0..Blocks /\ encoded \in 0..Blocks
  /\ dir \in {"gone", "there"} /\ file \in {"none", "open"}
  /\ stream \in Seq(Block) /\ state \in States
  /\ mp3 \in {"none", "saved"} /\ cleanups \in Nat
  /\ pc \in [Tails -> {"new", "size", "state", "write", "over"}]
  /\ off \in [Tails -> Nat] /\ size \in [Tails -> Nat] /\ idle \in [Tails -> 0..MaxIdle]
  /\ sent \in [Tails -> Seq(Block)]
  /\ conn \in [Tails -> {"open", "ended", "broken"}]
  /\ last \in [Tails -> States]

Init ==
  /\ render = 0 /\ step = "idle" /\ chunks = 0 /\ encoded = 0
  /\ dir = "gone" /\ stream = <<>> /\ file = "none" /\ state = "absent"
  /\ mp3 = "none" /\ cleanups = 0
  /\ pc = [t \in Tails |-> "new"]
  /\ off = [t \in Tails |-> 0] /\ size = [t \in Tails |-> 0] /\ idle = [t \in Tails |-> 0]
  /\ sent = [t \in Tails |-> <<>>]
  /\ conn = [t \in Tails |-> "open"]
  /\ last = [t \in Tails |-> "absent"]

-----------------------------------------------------------------------------
(* The directory.  Errors are ignored by every caller. *)

\* remove_dir_all, rmSync: a file that is still being written goes on unseen.
RemoveParts == dir' = "gone" /\ stream' = <<>> /\ file' = "none" /\ state' = "absent"

\* create_dir_all, mkdirSync
MakeParts == dir' = "there" /\ UNCHANGED <<stream, file, state>>

\* fs::write and writeFileSync empty the file first (BeginState) and fill it
\* then; without the directory they fail.
FillState(s) == state' = IF dir = "there" THEN s ELSE state

-----------------------------------------------------------------------------
(* A render. *)

At(s) == step = s
Go(s) == step' = s

\* run_tts_job clears what an earlier render left.  job_running lets no second
\* render of the guide start next to this one.
StartRender ==
  /\ At("idle") /\ render < MaxRenders
  /\ render' = render + 1 /\ Go("cleared") /\ chunks' = 0 /\ encoded' = 0
  /\ RemoveParts
  /\ UNCHANGED <<mp3, cleanups, tailVars>>

MakeDirectory ==
  /\ At("cleared") \/ At("helperCleared")
  /\ step' = IF step = "cleared" THEN "made" ELSE "helperMade"
  /\ MakeParts
  /\ UNCHANGED <<render, chunks, encoded, mp3, cleanups, tailVars>>

\* A state.json is opened for a first entry, an update or a verdict.
BeginState ==
  /\ \/ step \in {"made", "helperMade", "saved", "helperFailed", "jobFailed"}
     \/ At("encoding") /\ chunks < Blocks
  /\ dir = "there" /\ state # "torn" /\ state' = "torn"
  /\ UNCHANGED <<dir, stream, file, jobVars, tailVars>>

Written == state = "torn" \/ dir = "gone"

\* write_tts_state of the job, which then starts the helper.
JobState ==
  /\ At("made") /\ Written /\ FillState("running") /\ Go("spawned")
  /\ UNCHANGED <<dir, stream, file, render, chunks, encoded, mp3, cleanups, tailVars>>

\* The helper clears the directory again.
HelperClears ==
  /\ At("spawned") /\ RemoveParts /\ Go("helperCleared")
  /\ UNCHANGED <<render, chunks, encoded, mp3, cleanups, tailVars>>

\* Its first state.json; the encoder starts and opens stream.mp3.
HelperState ==
  /\ At("helperMade") /\ Written /\ FillState("running") /\ Go("encoding")
  /\ file' = IF dir = "there" THEN "open" ELSE file
  /\ UNCHANGED <<dir, stream, render, chunks, encoded, mp3, cleanups, tailVars>>

\* The encoder appends on its own time: waiting for the disk is bounded to 8 s.
Encode ==
  /\ At("encoding") /\ encoded < Blocks
  /\ encoded' = encoded + 1
  /\ stream' = IF file = "open" THEN Append(stream, <<render, encoded + 1>>) ELSE stream
  /\ UNCHANGED <<dir, file, state, render, step, chunks, mp3, cleanups, tailVars>>

\* onChunk records the progress.
ChunkState ==
  /\ At("encoding") /\ Written /\ chunks < Blocks
  /\ chunks' = chunks + 1 /\ FillState("running")
  /\ UNCHANGED <<dir, stream, file, render, step, encoded, mp3, cleanups, tailVars>>

\* enc.end(): the encoder has put out everything and closed the file.
EndEncoder ==
  /\ At("encoding") /\ chunks = Blocks /\ encoded = Blocks /\ Go("encoded")
  /\ UNCHANGED <<dirVars, render, chunks, encoded, mp3, cleanups, tailVars>>

SaveMp3 ==
  /\ At("encoded") /\ mp3' = "saved" /\ Go("saved")
  /\ UNCHANGED <<dirVars, render, chunks, encoded, cleanups, tailVars>>

\* The row is updated and the clean-up scheduled, unless the guide was deleted.
Schedule == cleanups' \in {cleanups, cleanups + 1}

FinishRender ==
  /\ At("saved") /\ Written /\ FillState("done") /\ Go("idle") /\ Schedule
  /\ UNCHANGED <<dir, stream, file, render, chunks, encoded, mp3, tailVars>>

\* The helper fails (its catch kills the encoder), or dies and only the job says so.
FailRender ==
  /\ step \in {"spawned", "helperCleared", "helperMade", "encoding", "encoded", "saved"}
  /\ step' \in {"helperFailed", "jobFailed"}
  /\ UNCHANGED <<dirVars, render, chunks, encoded, mp3, cleanups, tailVars>>

HelperFailed ==
  /\ At("helperFailed") /\ Written /\ FillState("failed") /\ Go("jobFailed")
  /\ UNCHANGED <<dir, stream, file, render, chunks, encoded, mp3, cleanups, tailVars>>

JobFailed ==
  /\ At("jobFailed") /\ Written /\ FillState("failed") /\ Go("idle")
  /\ cleanups' = cleanups + 1
  /\ UNCHANGED <<dir, stream, file, render, chunks, encoded, mp3, tailVars>>

\* schedule_parts_cleanup: 60 s later the directory goes, whoever is using it.
Cleanup ==
  /\ cleanups > 0 /\ cleanups' = cleanups - 1 /\ RemoveParts
  /\ UNCHANGED <<render, step, chunks, encoded, mp3, tailVars>>

Render ==
  \/ StartRender \/ MakeDirectory \/ BeginState \/ JobState \/ HelperClears \/ HelperState
  \/ Encode \/ ChunkState \/ EndEncoder \/ SaveMp3 \/ FinishRender
  \/ FailRender \/ HelperFailed \/ JobFailed

-----------------------------------------------------------------------------
(* A listener: stream_mp3 and the tail loop. *)

\* What the tail loop changes next to its pc.
Loop(t, l) == pc' = [pc EXCEPT ![t] = l]

\* stream_mp3: a finished guide is served from its file (302), one that is not
\* being rendered is a 404; otherwise the headers go out and the tail begins.
Open(t) ==
  /\ pc[t] = "new"
  /\ IF mp3 = "none" /\ state \in {"running", "done", "failed"}
       THEN \E reached \in BOOLEAN :
              /\ Loop(t, IF reached THEN "size" ELSE "over")
              /\ conn' = [conn EXCEPT ![t] = IF reached THEN "open" ELSE "broken"]
       ELSE Loop(t, "over") /\ conn' = [conn EXCEPT ![t] = "ended"]
  /\ UNCHANGED <<dirVars, jobVars, off, size, idle, sent, last>>

\* file_size: 0 without a file
ReadSize(t) ==
  /\ pc[t] = "size"
  /\ size' = [size EXCEPT ![t] = Len(stream)]
  /\ Loop(t, "state")
  /\ UNCHANGED <<dirVars, jobVars, off, idle, sent, conn, last>>

\* growing_file_next
Action(o, n, s) ==
  IF n > o THEN "write" ELSE IF s \in {"absent", "torn", "failed", "done"} THEN "end" ELSE "wait"

\* Mutant: polls without news are not counted.
ReadStatePatiently(t) ==
  /\ pc[t] = "state"
  /\ last' = [last EXCEPT ![t] = state]
  /\ LET next == Action(off[t], size[t], state) IN
       /\ Loop(t, IF next = "write" THEN "write" ELSE IF next = "wait" THEN "size" ELSE "over")
       /\ conn' = [conn EXCEPT ![t] = IF next = "end" THEN "ended" ELSE @]
  /\ UNCHANGED <<dirVars, jobVars, off, size, idle, sent>>

\* read_growing_state, and what the loop does with it.
ReadState(t) ==
  /\ pc[t] = "state"
  /\ last' = [last EXCEPT ![t] = state]
  /\ LET next == Action(off[t], size[t], state) IN
       \/ /\ next = "write"
          /\ Loop(t, "write") /\ UNCHANGED <<idle, conn>>
       \/ /\ next = "wait" /\ idle[t] < MaxIdle
          /\ idle' = [idle EXCEPT ![t] = @ + 1]
          /\ Loop(t, "size") /\ UNCHANGED conn
       \/ /\ next = "end" \/ (next = "wait" /\ idle[t] >= MaxIdle)
          /\ Loop(t, "over") /\ conn' = [conn EXCEPT ![t] = "ended"]
          /\ UNCHANGED idle
  /\ UNCHANGED <<dirVars, jobVars, off, size, sent>>

\* Mutant: the file is read from its start (the seek is dropped).
ReadBytesFromStart(t) == SubSeq(stream, 1, IF size[t] <= Len(stream) THEN size[t] ELSE Len(stream))

\* read_file_range: what the file has of the range, which may be less.
ReadBytes(t) == SubSeq(stream, off[t] + 1, IF size[t] <= Len(stream) THEN size[t] ELSE Len(stream))

\* An empty range is written as a chunk of length zero, which tells the listener
\* that the stream is over; the loop goes on nevertheless.
WriteRange(t) ==
  /\ pc[t] = "write" /\ file = "open"
  /\ sent' = [sent EXCEPT ![t] = @ \o ReadBytes(t)]
  /\ conn' = [conn EXCEPT ![t] = IF ReadBytes(t) = <<>> THEN "ended" ELSE @]
  /\ off' = [off EXCEPT ![t] = size[t]]
  /\ idle' = [idle EXCEPT ![t] = 0]
  /\ Loop(t, "size")
  /\ UNCHANGED <<dirVars, jobVars, size, last>>

\* The file cannot be opened any more, or the listener is gone.
WriteFails(t) ==
  /\ pc[t] = "write"
  /\ Loop(t, "over")
  /\ conn' = [conn EXCEPT ![t] = "broken"]
  /\ UNCHANGED <<dirVars, jobVars, off, size, idle, sent, last>>

Listen(t) == Open(t) \/ ReadSize(t) \/ ReadState(t) \/ WriteRange(t) \/ WriteFails(t)

Next == Render \/ Cleanup \/ \E t \in Tails : Listen(t)

Spec == Init /\ [][Next]_vars

\* A tail loop is a thread of its own and its listener reads on; a render may hang.
FairSpec == Spec /\ \A t \in Tails : WF_vars(Listen(t))

-----------------------------------------------------------------------------
\* What the render's encoder has put out, whether or not the file is still there.
Audio == [i \in 1..encoded |-> <<render, i>>]

Bytes == INSTANCE ByteStream WITH
           Readers <- Tails, source <- Audio, sent <- sent,
           open <- {t \in Tails : conn[t] = "open"}

\* As long as a guide is rendered once, a listener is sent growing prefixes of
\* the render's audio and nothing after the end of its response, although sizes,
\* contents and states are read at different times and the directory is removed
\* under the tail loop: http.rs write_growing_file, read_file_range.
Implements == Bytes!Spec

\* Every response ends, also when the render hangs, dies without a word or is
\* swept away: GrowingFileBody::max_idle_ms, write_timeout.
StreamEnds == \A t \in Tails : pc[t] = "size" ~> pc[t] = "over"

\* "Canonical file persisted; streams may drain and finish" (TtsStreamState::done,
\* guides.rs): a stream that stops because it read `done` has sent the whole audio.
DoneDrains == \A t \in Tails : pc[t] = "over" /\ conn[t] = "ended" /\ last[t] = "done"
                               => Len(sent[t]) = Blocks
==============================================================================
