CONSTANTS
  Generations = {g1}
  MaxAttempts = 3
  Calls = {c1}
SPECIFICATION Safe
CHECK_DEADLOCK FALSE
INVARIANT NeverPaidTwice
