SPECIFICATION FairSpec
CONSTANTS
  a = a
  b = b
  w1 = w1
  w2 = w2
  NoWorker = NoWorker
  Jobs = {a, b}
  Workers = {w1, w2}
  DependsOn <- BAfterA
  Outputs <- FileOfB
  Size <- UnitSize
  Reusable = {a}
  Quota = 1
  MaxAttempts = 1
  ResourceOf <- AllTranscode
  SlotLimit <- OneSlot
  MaxRetries = 1
INVARIANTS
  DependenciesFirst
  QuotaAccounted
PROPERTIES
  KeepsContract
  EveryJobSettles
  LeftoversCollected
CHECK_DEADLOCK FALSE
