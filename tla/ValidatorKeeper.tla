--------------------------- MODULE ValidatorKeeper --------------------------
(***************************************************************************)
(* x/validator: registration of validators against a burn and a minimum    *)
(* self-delegation, the two guards that close every other way to create a  *)
(* validator, and the parameters (src/x/validator).                        *)
(*                                                                         *)
(* Its state is ValidatorParams, a field of the store.  The validators     *)
(* belong to x/staking, outside this repository; the store keeps the set   *)
(* validators of their operators, the self-delegation selfBond and the     *)
(* declared minimum minSelf of each.                                       *)
(*                                                                         *)
(* History fields, which no operator reads: owed[v] sums the registration  *)
(* burns in force whenever a validator of operator v was created after     *)
(* genesis, and minDue[v] is the minimum self-delegation in force then.    *)
(***************************************************************************)
EXTENDS BurnKeeper

Operators == Users \cup {Gov}

ValidatorParams == [RegistrationBurn : Coin, MinSelfDelegation : Coin]

(***************************************************************************)
(* Params.Validate: a foreign denomination is refused only when the amount *)
(* is not zero.                                                            *)
(***************************************************************************)
ValidParamCoin(c) == c.amount >= 0 /\ (c.amount # 0 => c.denom = BondDenom)

ValidValidatorParams(p) ==
  ValidParamCoin(p.RegistrationBurn) /\ ValidParamCoin(p.MinSelfDelegation)

MsgCreateValidator ==
  [type : {"create"}, via : {"router", "precompile"},
   operator : Operators, value : Coin, minSelf : Int]
MsgRegisterValidator ==
  [type : {"register"}, signer : Operators, operator : Operators,
   burn : Coin, value : Coin, minSelf : Int]
MsgUpdateValidatorParams ==
  [type : {"valParams"}, signer : Operators, params : ValidatorParams]

(***************************************************************************)
(* x/staking CreateValidator (external): one validator per operator, a     *)
(* positive self-delegation in the bond denom of at least minSelf, paid    *)
(* from the operator's account.                                            *)
(***************************************************************************)
CreateValidator(st, m, h) ==
  LET paid == SendCoins(st, m.operator, StakingPool, m.value)
  IN IF /\ m.operator \notin st.validators
        /\ m.value.denom = BondDenom
        /\ m.minSelf > 0
        /\ m.value.amount >= m.minSelf
        /\ paid.ok
     THEN Ok([paid.st EXCEPT
                !.validators = @ \cup {m.operator},
                !.selfBond[m.operator] = m.value.amount,
                !.minSelf[m.operator] = m.minSelf,
                !.owed[m.operator] =
                   IF h = 0 THEN @
                   ELSE @ + st.ValidatorParams.RegistrationBurn.amount,
                !.minDue[m.operator] =
                   IF h = 0 THEN 0
                   ELSE st.ValidatorParams.MinSelfDelegation.amount])
     ELSE Failed(st)

(***************************************************************************)
(* The guards.  IsAllowed is asked for every message that goes through the *)
(* message router (a direct message, authz, a governance proposal, a       *)
(* gentx); the restricted message server stands in front of x/staking on   *)
(* the path of the EVM staking precompile.                                 *)
(***************************************************************************)
IsAllowed(m, h) == m.type = "create" /\ m.via = "router" => h = 0

\* Mutation: the precompile is given the plain staking message server.
RestrictedCreateValidatorPlain(st, m, h) == CreateValidator(st, m, h)

RestrictedCreateValidator(st, m, h) ==
  IF h = 0 THEN CreateValidator(st, m, h) ELSE Failed(st)

(***************************************************************************)
(* RegisterValidator                                                       *)
(***************************************************************************)
resolveSender(m) == m.signer = m.operator

\* Mutation: the minimum the validator declares for itself is not checked.
validateRegistrationFundsNoMinSelf(m, p) ==
  /\ m.burn.denom = p.RegistrationBurn.denom
  /\ m.burn.amount >= p.RegistrationBurn.amount
  /\ m.value.denom = p.MinSelfDelegation.denom
  /\ m.value.amount >= p.MinSelfDelegation.amount

\* Mutation: the burn must exceed the requirement.
validateRegistrationFundsStrict(m, p) ==
  /\ m.burn.denom = p.RegistrationBurn.denom
  /\ m.burn.amount > p.RegistrationBurn.amount
  /\ m.value.denom = p.MinSelfDelegation.denom
  /\ m.value.amount >= p.MinSelfDelegation.amount
  /\ m.minSelf >= p.MinSelfDelegation.amount

validateRegistrationFunds(m, p) ==
  /\ m.burn.denom = p.RegistrationBurn.denom
  /\ m.burn.amount >= p.RegistrationBurn.amount
  /\ m.value.denom = p.MinSelfDelegation.denom
  /\ m.value.amount >= p.MinSelfDelegation.amount
  /\ m.minSelf >= p.MinSelfDelegation.amount

RegisterValidator(st, m, h) ==
  IF resolveSender(m) /\ validateRegistrationFunds(m, st.ValidatorParams)
  THEN LET burnt == BurnFromAccount(st, m.signer, m.burn)
       IN IF burnt.ok THEN CreateValidator(burnt.st, m, h) ELSE burnt
  ELSE Failed(st)

\* Mutation: the authority is not checked.
UpdateValidatorParamsByAnyone(st, m) ==
  IF ValidValidatorParams(m.params)
  THEN Ok([st EXCEPT !.ValidatorParams = m.params])
  ELSE Failed(st)

UpdateValidatorParams(st, m) ==
  IF m.signer = Gov /\ ValidValidatorParams(m.params)
  THEN Ok([st EXCEPT !.ValidatorParams = m.params])
  ELSE Failed(st)

(***************************************************************************)
(* Genesis: the parameters are the whole state.                            *)
(***************************************************************************)
InitValidatorGenesis(st, g) == [st EXCEPT !.ValidatorParams = g]
ExportValidatorGenesis(st) == st.ValidatorParams
=============================================================================
