CONSTANTS
  s = s  h = h  l1 = l1  l2 = l2
  k1 = k1  k2 = k2  g1 = g1  i1 = i1  w1 = w1  w2 = w2
  Schedules = {s}
  Hooks = {h}
  Listeners = {l1}
  Fragile = {l1}
  HookKeys = {k1, k2}
  PayloadOf <- SamePayload
  Generations = {g1}
  Imports = {i1}
  Workers = {w1, w2}
  Nobody = Nobody
  Nothing = Nothing
  MaxAttempts = 2
  MaxEventAttempts = 2
  MaxNoticeAttempts = 1
  MaxTime = 1
  MaxVersions = 2
  MaxReplays = 1
  MaxChanges = 2
  MaxTroubles = 1
SPECIFICATION MCSpec
CHECK_DEADLOCK FALSE
 
INVARIANT EventReachesListeners
INVARIANT AlertsTellTheTruth
PROPERTY EverythingSettles
