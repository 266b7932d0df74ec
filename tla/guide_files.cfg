SPECIFICATION Spec
CONSTANTS
  Users = {}
  Anon = anon
  Chapters = {c1}
  NoRow = NoRow
  Absent = Absent
  Bodies <- Imports
  Procs = {p1, p2}
  Endpoints = {"create", "delete", "analyze", "thumbnail", "chapter-timing", "tts", "chapter-images", "chapter-real-images", "auto-chapters", "date", "audio", "publish"}
  DbFaults = FALSE
  MaxRequests = 2
  MaxCreates = 2
  MaxCrashes = 1
SYMMETRY ThreadSymmetry
INVARIANTS ArtefactsOnDisk
CHECK_DEADLOCK FALSE
