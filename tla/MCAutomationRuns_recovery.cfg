CONSTANTS
  r1 = r1  r2 = r2  r3 = r3  r4 = r4  r5 = r5  w1 = w1  w2 = w2  w3 = w3
  p = p  i = i  j = j  m = m  n = n
  Roots = {r1}
  Request <- Queueing
  Prompts = {p}
  Images = {m}
  Items = {i}
  RootWork = {p, m, i}
  ChildWork = {p}
  Workers = {w1, w2}
  NoWorker = NoWorker
  NoRun = NoRun
  NoDelivery = NoDelivery
  MaxCredits = 3
  MaxAttempts = 2
  SlotLimit = 1
  WorkspaceLimit = 1
  Cancellable = {r1}
  MaxCrashes = 1
  MaxClaims = 2
  Stalling = {}
SPECIFICATION Spec
CHECK_DEADLOCK FALSE
INVARIANTS
  SuccessIsReal
  LedgerAgrees
PROPERTIES
  NeverReplayed
  EveryRunEnds
