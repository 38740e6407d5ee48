\* An export that failed, panicked or was the last one allowed is the end.
CHECK_DEADLOCK FALSE
SPECIFICATION Spec
CONSTANTS
  v1 = v1
  v2 = v2
  v3 = v3
  d1 = d1
  Validators = {v1, v2}
  Delegators = {d1}
  Addresses = {v1, v2, v3}
  Faults = {}
  MaxHeight = 2
  MaxPeriods = 4
  MaxRewards = 1
  MaxExports = 1
SYMMETRY Symmetry
INVARIANT DelegatorsCanWithdraw
