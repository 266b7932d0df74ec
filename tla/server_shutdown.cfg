SPECIFICATION FairSpec
CONSTANTS
  Clients = {c1, c2}
  Workers = {w1, w2}
  MaxQueued = 1
  NoConn = NoConn
  Wake = Wake
  Users = {w1, w2, janitor}
  Dbs = {d1}
  NoDb = NoDb
INVARIANTS NoneCutOff OnePlace NoLostWakeup ServedToTheEnd
PROPERTIES NoneSleepForever WorkersEnd
CHECK_DEADLOCK FALSE
