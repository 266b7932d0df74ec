SPECIFICATION FairSpec
CONSTANTS
  Users = {}
  Anon = anon
  Chapters = {c1, c2}
  NoRow = NoRow
  Absent = Absent
  Bodies <- TextDrafts
  Procs = {p1, p2}
  Endpoints = {"create", "delete"}
  DbFaults = FALSE
  MaxRequests = 2
  MaxCreates = 1
  MaxCrashes = 0
INVARIANTS RunningHasThread
PROPERTIES RunningFlips
CHECK_DEADLOCK FALSE
