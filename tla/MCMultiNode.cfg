\* The last run of the command is the end.
CHECK_DEADLOCK FALSE
SPECIFICATION Spec
CONSTANTS
  MaxNodes = 3
  MaxRuns = 3
  StakeFlags <- MCStakeFlags
  PortFlags <- MCPortFlags
  PowerReduction = 1
  FlagDefault = 1
INVARIANTS
  SameGenesis AppStatesDoNotDiffer PortsDistinct
