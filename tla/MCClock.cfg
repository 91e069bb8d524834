SPECIFICATION Spec
CONSTANTS
  Cpus = {1, 2}
  Skew = 1
  Precision = 4
  TicksPerMs = 2
  MaxTicks = 10
  MaxOffset = 2
INVARIANTS Fresh
PROPERTIES Monotone
CHECK_DEADLOCK FALSE
