---------------------------- MODULE MCMonoChain -----------------------------
(***************************************************************************)
(* Small instances of MonoChain for TLC.                                   *)
(***************************************************************************)
EXTENDS MonoChain

CONSTANTS alice, bob

MCUsers == {alice, bob}
MCDenoms == {"alyth", "uatom"}

Foreign(n) == [denom |-> "uatom", amount |-> n]

MCGenBal ==
  [a \in Accounts |-> [d \in Denoms |->
     CASE a = alice /\ d = "alyth" -> 6
       [] a = bob /\ d = "alyth"   -> 3
       [] a = alice /\ d = "uatom" -> 1
       [] OTHER -> 0]]
MCGenSupply == [d \in Denoms |-> IF d = "alyth" THEN 9 ELSE 1]

\* Validate accepts an address that occurs twice, and a total that is not the sum.
MCGenBurn ==
  [FeeBurnPercent |-> 1, Count |-> 2, Total |-> 3,
   AccountTotals |-> <<[address |-> alice, total |-> 1],
                       [address |-> FeeCollector, total |-> 2],
                       [address |-> alice, total |-> 2]>>]
MCGenValidator ==
  [RegistrationBurn |-> Native(1), MinSelfDelegation |-> Native(2)]

BurnBy(a, c) == [type |-> "burn", signer |-> a, amount |-> c]
Create(v, via, n) ==
  [type |-> "create", via |-> via, operator |-> v, value |-> Native(n), minSelf |-> n]
Register(a, v, b, n, m) ==
  [type |-> "register", signer |-> a, operator |-> v, burn |-> b,
   value |-> n, minSelf |-> m]
SetPercent(a, p) == [type |-> "burnParams", signer |-> a, FeeBurnPercent |-> p]
SetRequirements(a, b, m) ==
  [type |-> "valParams", signer |-> a,
   params |-> [RegistrationBurn |-> b, MinSelfDelegation |-> m]]
SendTo(a, to, c) == [type |-> "send", signer |-> a, to |-> to, amount |-> c]

-----------------------------------------------------------------------------
\* Burns of every kind, gifts to module accounts, changes of the percentage.
BurnMsgs ==
  {BurnBy(alice, Native(2)), BurnBy(alice, Foreign(1)), BurnBy(alice, Native(0)),
   BurnBy(bob, Native(-1)), BurnBy(Gov, Native(1)),
   SendTo(alice, BurnModule, Native(1)), SendTo(alice, FeeCollector, Native(1)),
   SendTo(bob, Gov, Native(1)),
   SetPercent(Gov, 2), SetPercent(Gov, 3), SetPercent(alice, 0)}

\* Registrations: paid and unpaid, by the operator and by somebody else, with
\* too small a bond, twice, and around the module on every path, with a burn that
\* may share a transaction with them.
RegistrationMsgs ==
  {BurnBy(alice, Native(2)),
   Create(alice, "router", 2), Create(bob, "router", 1), Create(bob, "precompile", 2),
   Register(bob, bob, Native(1), Native(2), 2),
   Register(bob, bob, Native(0), Native(2), 2),
   Register(bob, bob, Native(1), Native(2), 1),
   Register(bob, bob, Native(1), Native(1), 1),
   Register(alice, alice, Native(2), Native(3), 2),
   Register(alice, bob, Native(1), Native(2), 2),
   Register(alice, alice, Foreign(1), Native(2), 2),
   SetRequirements(Gov, Native(2), Native(1)),
   SetRequirements(Gov, Foreign(0), Native(1)),
   SetRequirements(Gov, Foreign(1), Native(1)),
   SetRequirements(bob, Native(0), Native(0))}

\* Parameters that governance may set although they name a foreign coin.
ForeignParamMsgs ==
  {SetRequirements(Gov, Native(0), Native(0)), SetRequirements(Gov, Native(0), Foreign(0)),
   SetRequirements(Gov, Native(0), Foreign(1))}
=============================================================================
