CONSTANTS
  r1 = r1  e1 = e1  e2 = e2
  Replicas = {r1}
  Nobody = Nobody
  UserEdits = {e1, e2}
  ServiceEdits = {}
  MaxTroubles = 1
  MaxCheckpoints = 0
SPECIFICATION Safe
CHECK_DEADLOCK FALSE
INVARIANT AcceptedIsRecoverable
