\* An export that failed, panicked or was the last one allowed is the end.
CHECK_DEADLOCK FALSE
SPECIFICATION Spec
CONSTANTS
  v1 = v1
  v2 = v2
  v3 = v3
  d1 = d1
  Validators = {v1, v2}
  Delegators = {d1}
  Addresses = {v1, v2, v3}
  Faults = {"rewards", "reinit", "created", "redelegations", "unbondings", "close", "signing"}
  MaxHeight = 2
  MaxPeriods = 5
  MaxRewards = 1
  MaxExports = 1
SYMMETRY Symmetry
INVARIANTS
  RewardsConserved JailRespectsList FreshStart
