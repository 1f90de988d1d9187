CONSTANTS
  N = 4
  T = 1
SPECIFICATION LateSpec
INVARIANT Tolerates
CHECK_DEADLOCK FALSE
