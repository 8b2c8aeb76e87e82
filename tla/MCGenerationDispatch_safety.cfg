CONSTANTS
  Generations = {g1}
  MaxAttempts = 2
  Calls = {c1, c2}
SPECIFICATION Spec
CHECK_DEADLOCK FALSE
INVARIANTS
  PaidOnce
  PaidWorkIsNotDropped
  StoredOnce
  ChargedForWork
PROPERTIES
  NoWorkAfterTheEnd
  EveryGenerationEnds
