CONSTANTS
  r1 = r1  r2 = r2  r3 = r3  r4 = r4  r5 = r5  w1 = w1  w2 = w2  w3 = w3
  p = p  i = i  j = j  m = m  n = n
  Roots = {r1}
  Request <- Queueing
  Prompts = {p}
  Images = {}
  Items = {i}
  RootWork = {i}
  ChildWork = {p}
  Workers = {w1}
  NoWorker = NoWorker
  NoRun = NoRun
  NoDelivery = NoDelivery
  MaxCredits = 9
  MaxAttempts = 2
  SlotLimit = 2
  WorkspaceLimit = 2
  Cancellable = {r1}
  MaxCrashes = 0
  MaxClaims = 3
  Stalling = {}
SPECIFICATION Safe
CHECK_DEADLOCK FALSE
PROPERTY CancelledAsATree
