CONSTANTS
  r1 = r1  r2 = r2  r3 = r3  r4 = r4  r5 = r5  w1 = w1  w2 = w2  w3 = w3
  p = p  i = i  j = j  m = m  n = n
  Roots = {r1, r2, r3, r4, r5}
  Request <- Triggered
  Prompts = {}
  Images = {}
  Items = {}
  RootWork = {}
  ChildWork = {}
  Workers = {w1, w2}
  NoWorker = NoWorker
  NoRun = NoRun
  NoDelivery = NoDelivery
  MaxCredits = 9
  MaxAttempts = 2
  SlotLimit = 2
  WorkspaceLimit = 2
  Cancellable = {r3}
  MaxCrashes = 1
  MaxClaims = 3
  Stalling = {r3}
SPECIFICATION Safe
CHECK_DEADLOCK FALSE
SYMMETRY Interchangeable
INVARIANTS
  ConcurrencyLimits
  AcceptedOnce
