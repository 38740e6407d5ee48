SPECIFICATION Spec
CONSTANTS
  alice = alice
  bob = bob
  Users <- MCUsers
  Denoms <- MCDenoms
  BondDenom = "alyth"
  PercentOne = 2
  CountModulus = 1000
  GenBal <- MCGenBal
  GenSupply <- MCGenSupply
  GenBurn <- MCGenBurn
  GenValidator <- MCGenValidator
  Msgs <- BurnMsgs
  Fees = {1}
  Inflation = {2}
  Slashes = {0, 1}
  MaxHeight = 2
  MaxTxs = 1
  MaxMsgs = 2
  MaxAborts = 1
INVARIANT OnlyFeesBurned
