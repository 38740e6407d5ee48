\* Once the last command has ended nothing more happens.
CHECK_DEADLOCK FALSE
SPECIFICATION Spec
CONSTANTS
  p1 = p1
  p2 = p2
  Procs <- MCProcs
  Homes = {"h1", "h2"}
  DefaultHome = "h1"
  ChainIDs <- MCChainIDs
  Eip155 <- MCEip155
  TooLong = {"mono_6940-1000"}
  MaxUint64 = 99
  DefaultEVMChainID = 7
  Configured <- MCConfigured
  Commands <- MCCommands
  MaxCommands = 3
SYMMETRY Symmetry
INVARIANTS
  TypeOK NetworkIDReachesBothFiles RunningNodeHasBothIds RefusedIdsLeaveNoTrace
  OnlyTwoCopiesAreStale RunningAppIsWired
