CONSTANTS
  Replicas = {r1, r2}
  Nobody = Nobody
  UserEdits = {e1}
  ServiceEdits = {}
  MaxTroubles = 1
  MaxCheckpoints = 1
SPECIFICATION MCSpec
CHECK_DEADLOCK FALSE
INVARIANTS NothingLeftToProject EvictedStaysGone
PROPERTIES ProjectionNeverGoesBack EveryEditIsProjected
