----------------------------- MODULE MCGuideJobs -----------------------------
(* Instances of GuideJobs for TLC: the bounds and the endpoints of each run *)
(* are in the .cfg.  Threads are interchangeable.                           *)
EXTENDS GuideJobs, TLC

ThreadSymmetry == Permutations(Procs)

\* The bodies of LibraryView.tsx: a title, maybe a text and the address of a picture.
Draft(text, thumb) ==
  [text |-> text, summary |-> FALSE, chapters |-> NoChapters, thumb |-> thumb,
   audio |-> FALSE, timing |-> FALSE, jobs |-> Absent]

TextDrafts == {Draft(text, "none") : text \in BOOLEAN}

Drafts == {Draft(text, thumb) : text \in BOOLEAN, thumb \in {"none", "url"}}

\* Bodies that name files: one an mp3 and the statuses that go with it, one a cover and
\* images.  record_from_body takes them; no page of the program writes them itself.
Recorded ==
  [Draft(TRUE, "none") EXCEPT !.audio = TRUE, !.timing = TRUE,
     !.jobs = [step \in Steps |-> IF step = "tts" THEN "done" ELSE "none"]]

Illustrated ==
  [Draft(FALSE, "cover") EXCEPT !.summary = TRUE,
     !.chapters = [idx |-> Chapters, gen |-> Chapters, real |-> {}]]

Imports == {Draft(TRUE, "none"), Draft(FALSE, "url"), Recorded, Illustrated}
=============================================================================
