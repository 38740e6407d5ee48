\* A testnet that was given up for the last time, or whose command exited, ends.
CHECK_DEADLOCK FALSE
SPECIFICATION Spec
CONSTANTS
  OldOperators <- MCOldOperators
  Operators <- MCOperators
  Keys <- MCOperators
  FundFlags <- MCFundFlags
  ValVotingPower = 9
  PowerReductions = {1, 10}
  MaxRuns = 2
  MaxBlocks = 2
INVARIANTS
  OldSetIsGone HaltsForTwoReasons CommittedIsConsistent
