SPECIFICATION Spec
CONSTANTS
  Users = {u1}
  Anon = anon
  Chapters = {}
  NoRow = NoRow
  Absent = Absent
  Bodies <- Drafts
  Procs = {p1, p2}
  Endpoints = {"create", "delete", "date"}
  DbFaults = TRUE
  MaxRequests = 3
  MaxCreates = 1
  MaxCrashes = 0
SYMMETRY ThreadSymmetry
PROPERTIES OwnershipFixed RequestsRespectOwner
CHECK_DEADLOCK FALSE
