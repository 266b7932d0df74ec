SPECIFICATION Spec
CONSTANTS
  Tails = {t1}
  Blocks = 2
  MaxIdle = 2
  MaxRenders = 1
INVARIANTS DoneDrains
CHECK_DEADLOCK FALSE
