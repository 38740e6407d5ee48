\* The last run of the command is the end.
CHECK_DEADLOCK FALSE
SPECIFICATION Spec
CONSTANTS
  MaxNodes = 3
  MaxRuns = 1
  StakeFlags <- DefaultStakeFlags
  PortFlags <- DefaultPortFlags
  PowerReduction = 10
  FlagDefault = 1
INVARIANTS
  NetworkCanStart
