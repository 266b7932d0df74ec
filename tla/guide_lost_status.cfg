SPECIFICATION FairSpec
CONSTANTS
  Users = {}
  Anon = anon
  Chapters = {}
  NoRow = NoRow
  Absent = Absent
  Bodies <- TextDrafts
  Procs = {p1, p2}
  Endpoints = {"create", "date"}
  DbFaults = FALSE
  MaxRequests = 2
  MaxCreates = 1
  MaxCrashes = 0
PROPERTIES RunningFlips
CHECK_DEADLOCK FALSE
