SPECIFICATION Spec
CONSTANTS
  alice = alice
  bob = bob
  Users <- MCUsers
  Denoms <- MCDenoms
  BondDenom = "alyth"
  PercentOne = 2
  CountModulus = 4
  GenBal <- MCGenBal
  GenSupply <- MCGenSupply
  GenBurn <- MCGenBurn
  GenValidator <- MCGenValidator
  Msgs <- BurnMsgs
  Fees = {1, 2}
  Inflation = {3}
  Slashes = {0}
  MaxHeight = 3
  MaxTxs = 1
  MaxMsgs = 2
  MaxAborts = 1
INVARIANTS
  TypeOK SupplyAccounted BurnAccountHoldsOnlyGifts AccountTotalsAddUp
  FeeBurnWithinFees CollectorDrained NoHalt BurnsCounted
PROPERTIES
  ImportPreservesQueries
