\* The power reduction of the app, and keys that the chain knows.
CHECK_DEADLOCK FALSE
SPECIFICATION Spec
CONSTANTS
  OldOperators <- MCOldOperators
  Operators <- MCOperators
  Keys <- MCOldOperators
  FundFlags <- OneFundFlag
  ValVotingPower = 9
  PowerReductions = {10}
  MaxRuns = 2
  MaxBlocks = 2
INVARIANTS
  NodeRuns
