\* A rebuild of the projection while somebody reads it.
SPECIFICATION DbSpec
CONSTANTS
  Builder   = {b1}
  Records   = 1
  MaxBuilds = 1
INVARIANT NeverSaysEmpty
CHECK_DEADLOCK FALSE
