SPECIFICATION FairSpec
CONSTANTS
  Calls = {c1, c2, c3}
  Workers = {w1, w2}
  Cap = 2
  NoJob = NoJob
  Mortal = TRUE
PROPERTIES Implements Answered
CHECK_DEADLOCK FALSE
