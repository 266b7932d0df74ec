SPECIFICATION FairSpec
CONSTANTS
  Tails = {t1, t2}
  Blocks = 2
  MaxIdle = 2
  MaxRenders = 1
PROPERTIES Implements StreamEnds
CHECK_DEADLOCK FALSE
