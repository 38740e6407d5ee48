----------------------------- MODULE BurnLedger -----------------------------
(***************************************************************************)
(* What x/burn and x/validator promise to a reader of committed state,     *)
(* with blocks as the only steps.  The ledger is a record                  *)
(*                                                                         *)
(*   supply    of each denomination                                        *)
(*   burned    GlobalBurnTotal                                             *)
(*   count     GlobalBurnCount                                             *)
(*   burnedBy  the total of each account                                   *)
(*   issued, slashed   native coins that other modules minted and burned   *)
(*   due       the registration fees each operator has become liable for   *)
(***************************************************************************)
EXTENDS Integers

CONSTANTS Accounts, Operators, Denoms, BondDenom, GenesisLedger

VARIABLE ledger

(***************************************************************************)
(* What may happen to the ledger between two committed states.             *)
(***************************************************************************)
Extends(old, new) ==
  LET burned  == new.burned - old.burned
      issued  == new.issued - old.issued
      slashed == new.slashed - old.slashed
      burnedBy(a) == new.burnedBy[a] - old.burnedBy[a]
  IN /\ burned >= 0 /\ issued >= 0 /\ slashed >= 0
     /\ new.supply[BondDenom] = old.supply[BondDenom] + issued - slashed - burned
     /\ \A d \in Denoms \ {BondDenom} : new.supply[d] = old.supply[d]
     /\ \A a \in Accounts : burnedBy(a) \in 0..burned
     /\ \A v \in Operators : new.due[v] - old.due[v] \in 0..burnedBy(v)
     /\ new.count # old.count => burned > 0

Init == ledger = GenesisLedger

Block == Extends(ledger, ledger')

Spec == Init /\ [][Block]_ledger
=============================================================================
