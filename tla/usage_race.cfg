SPECIFICATION UsageSpec
CONSTANTS
  Threads = {t1, t2}
  Limit = 2
  UsageWindow = 1
  Null = Null
  MaxTime = 2
INVARIANTS LimitPerWindow
CHECK_DEADLOCK FALSE
