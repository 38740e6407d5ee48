-------------------------------- MODULE Bank --------------------------------
(***************************************************************************)
(* The parts of x/bank that the custom modules of mono-chain call, and the *)
(* account set they call it with.  x/bank is not part of this repository:  *)
(* its operations are modelled from how src/ uses them                     *)
(* (src/x/burn/types/expected_keepers.go).                                 *)
(*                                                                         *)
(* A keeper call is an operator on a STORE (the multistore of the app, a   *)
(* record with at least the fields bal, supply and burns, the number of    *)
(* times coins of the burn account were destroyed).  It returns an outcome *)
(* [ok, st].  When ok is FALSE the call returned an error or panicked, and *)
(* st holds the writes made before that: nobody undoes them but the caller *)
(* that throws away the cache branch the call ran on.                      *)
(***************************************************************************)
EXTENDS Integers, FiniteSets

CONSTANTS
  Users,      \* externally owned accounts
  Denoms,     \* coin denominations
  BondDenom   \* sdk.DefaultBondDenom, "alyth"

(***************************************************************************)
(* The module accounts that hold funds in this model (maccPerms).  One     *)
(* account stands for the bonded and the not-bonded pool of x/staking.     *)
(***************************************************************************)
FeeCollector == "fee_collector"
BurnModule   == "burn"
Distribution == "distribution"
StakingPool  == "bonded_tokens_pool"
Gov          == "gov"

ModuleAccounts == {FeeCollector, BurnModule, Distribution, StakingPool, Gov}
Accounts == Users \cup ModuleAccounts

ASSUME BankAssumption ==
  /\ IsFiniteSet(Users)
  /\ BondDenom \in Denoms
  /\ Users \cap ModuleAccounts = {}

(***************************************************************************)
(* A message carries any integer as the amount of a coin.  An absent       *)
(* (nil) amount is represented by a negative one: the code treats the two  *)
(* alike, IsNil() || LT(x) in the checks and a panic in sdk.NewCoins.      *)
(***************************************************************************)
Coin == [denom : Denoms, amount : Int]
Native(n) == [denom |-> BondDenom, amount |-> n]

Ok(st)     == [ok |-> TRUE,  st |-> st]
Failed(st) == [ok |-> FALSE, st |-> st]

Debit(st, a, c)  == [st EXCEPT !.bal[a][c.denom] = @ - c.amount]
Credit(st, a, c) == [st EXCEPT !.bal[a][c.denom] = @ + c.amount]

(***************************************************************************)
(* sdk.NewCoins drops a zero coin and panics on a negative one; SendCoins  *)
(* fails when the balance is too small.                                    *)
(***************************************************************************)
CanPay(st, a, c) == c.amount >= 0 /\ c.amount <= st.bal[a][c.denom]

SendCoins(st, from, to, c) ==
  IF CanPay(st, from, c) THEN Ok(Credit(Debit(st, from, c), to, c))
                         ELSE Failed(st)

BurnCoins(st, a, c) ==
  IF CanPay(st, a, c)
  THEN Ok([Debit(st, a, c) EXCEPT
             !.supply[c.denom] = @ - c.amount,
             !.burns = IF a = BurnModule /\ c.amount > 0 THEN @ + 1 ELSE @])
  ELSE Failed(st)

MintCoins(st, a, c) == [Credit(st, a, c) EXCEPT !.supply[c.denom] = @ + c.amount]

(***************************************************************************)
(* BlockedAddresses: the accounts that a MsgSend may not pay.              *)
(***************************************************************************)
BlockedAddresses == {FeeCollector, Distribution, StakingPool}
=============================================================================
