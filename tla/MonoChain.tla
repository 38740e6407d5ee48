------------------------------ MODULE MonoChain -----------------------------
(***************************************************************************)
(* The chain: how the application of src/app/app.go runs the keepers of    *)
(* x/burn and x/validator, block after block.                              *)
(*                                                                         *)
(* baseapp (outside this repository) keeps three layers of the store:      *)
(*   committed  what Commit last wrote: all that survives a crash,         *)
(*   deliver    the state of the block being executed,                     *)
(*   branch     the cache of the transaction or governance proposal being  *)
(*              executed, written to deliver only if every message of it   *)
(*              succeeded.                                                 *)
(*                                                                         *)
(* A block is: the BeginBlock hooks in the order of SetOrderBeginBlockers, *)
(* transactions (fee first, then the messages on a branch), the EndBlock   *)
(* hooks (governance proposals on a branch, then x/staking), Commit.  A    *)
(* block may be abandoned at any point before Commit: the node crashes, or *)
(* optimistic execution (app.go: SetOptimisticExecution) ran a proposal    *)
(* that consensus did not decide.  Another block is then executed on the   *)
(* committed state.                                                        *)
(***************************************************************************)
EXTENDS ValidatorKeeper, Functions

CONSTANTS
  GenBal,         \* bank genesis: balances ...
  GenSupply,      \* ... and supply
  GenBurn,        \* genesis of x/burn
  GenValidator,   \* genesis of x/validator
  Msgs,           \* the messages that are submitted
  Fees,           \* the transaction fees that are paid, in the bond denom
  Inflation,      \* the amounts x/mint may mint in a block
  Slashes,        \* what slashing may take from a validator before it is removed
  MaxHeight,      \* bound: blocks
  MaxTxs,         \* bound: transactions and proposals per block
  MaxMsgs,        \* bound: messages per transaction
  MaxAborts       \* bound: abandoned executions

MsgSend ==
  [type : {"send"}, signer : Operators, to : Accounts, amount : Coin]

Message ==
  MsgBurn \cup MsgUpdateBurnParams \cup MsgCreateValidator \cup
  MsgRegisterValidator \cup MsgUpdateValidatorParams \cup MsgSend

(***************************************************************************)
(* A genesis that `monod genesis validate` accepts.                        *)
(***************************************************************************)
ASSUME ChainAssumption ==
  /\ GenBal \in [Accounts -> [Denoms -> Nat]]
  /\ GenSupply \in [Denoms -> Nat]
  /\ GenBurn \in BurnGenesis /\ ValidBurnGenesis(GenBurn)
  /\ GenValidator \in ValidatorParams /\ ValidValidatorParams(GenValidator)
  /\ Msgs \subseteq Message
  /\ Fees \subseteq Nat /\ Inflation \subseteq Nat /\ Slashes \subseteq Nat
  /\ MaxHeight \in Nat /\ MaxTxs \in Nat /\ MaxMsgs \in Nat /\ MaxAborts \in Nat

VARIABLES
  committed, deliver, branch,
  height,   \* the height of the last committed block, 0 before the first
  phase,    \* where the node is in its life or in the current block
  stage,    \* index of the next BeginBlock hook, 0 outside BeginBlock
  failed,   \* a message of the current transaction or proposal has failed
  txs,      \* transactions and proposals of the current block so far
  msgs,     \* messages of the current transaction or proposal so far
  aborts    \* executions abandoned so far

vars == <<committed, deliver, branch, height, phase, stage, failed, txs, msgs, aborts>>

(***************************************************************************)
(* The store.  History fields, which no operator reads, roll back with it: *)
(* minted and slashed sum what other modules added to and removed from the *)
(* native supply, earlyMint the inflation of the first block, feesPaid the *)
(* fees of all transactions, gifts what MsgSend paid to the burn account,  *)
(* burns how often x/bank destroyed coins of the burn account; owed and    *)
(* minDue belong to ValidatorKeeper.                                       *)
(***************************************************************************)
EmptyStore ==
  [bal |-> GenBal, supply |-> GenSupply,
   FeeBurnPercent |-> 0, GlobalBurnCount |-> 0, GlobalBurnTotal |-> 0,
   AccountBurnTotal |-> [a \in Accounts |-> NotRecorded],
   ValidatorParams |-> GenValidator,
   validators |-> {},
   selfBond |-> [v \in Operators |-> 0], minSelf |-> [v \in Operators |-> 0],
   owed |-> [v \in Operators |-> 0], minDue |-> [v \in Operators |-> 0],
   minted |-> 0, slashed |-> 0, earlyMint |-> 0, feesPaid |-> 0, burns |-> 0,
   gifts |-> [d \in Denoms |-> 0]]

\* x/burn and x/validator are initialised before genutil runs the gentxs.
GenStore == InitValidatorGenesis(InitBurnGenesis(EmptyStore, GenBurn), GenValidator)

(***************************************************************************)
(* The message router of the app.                                          *)
(***************************************************************************)
Signer(m) == IF m.type = "create" THEN m.operator ELSE m.signer

\* x/bank MsgSend (external).
Send(st, m) ==
  LET sent == SendCoins(st, m.signer, m.to, m.amount)
  IN IF m.to \notin BlockedAddresses /\ m.amount.amount > 0 /\ sent.ok
     THEN Ok(IF m.to = BurnModule
             THEN [sent.st EXCEPT !.gifts[m.amount.denom] = @ + m.amount.amount]
             ELSE sent.st)
     ELSE Failed(st)

Handle(st, m, h) ==
  CASE ~ IsAllowed(m, h)       -> Failed(st)
    [] m.type = "burn"         -> Burn(st, m)
    [] m.type = "burnParams"   -> UpdateBurnParams(st, m)
    [] m.type = "register"     -> RegisterValidator(st, m, h)
    [] m.type = "valParams"    -> UpdateValidatorParams(st, m)
    [] m.type = "send"         -> Send(st, m)
    [] m.type = "create" /\ IsAllowed(m, h) ->
         IF m.via = "precompile" THEN RestrictedCreateValidator(st, m, h)
                                 ELSE CreateValidator(st, m, h)

-----------------------------------------------------------------------------
(***************************************************************************)
(* Genesis                                                                 *)
(***************************************************************************)
Init ==
  /\ committed = GenStore /\ deliver = GenStore /\ branch = GenStore
  /\ height = 0 /\ phase = "genesis" /\ stage = 0
  /\ failed = FALSE /\ txs = 0 /\ msgs = 0 /\ aborts = 0

\* genutil delivers the gentxs through the router at height 0.  A gentx that
\* fails makes InitChain panic: there is no chain then.
GenTx(m) ==
  /\ phase = "genesis"
  /\ m.type = "create" /\ m.via = "router"
  /\ Handle(deliver, m, 0).ok
  /\ deliver' = Handle(deliver, m, 0).st
  /\ branch' = deliver'
  /\ UNCHANGED <<committed, height, phase, stage, failed, txs, msgs, aborts>>

InitChain ==
  /\ phase = "genesis"
  /\ phase' = "idle"
  /\ committed' = deliver
  /\ UNCHANGED <<deliver, branch, height, stage, failed, txs, msgs, aborts>>

\* The operators stop the chain, export its state and start a new chain from
\* it at the same height.
ExportImport ==
  /\ phase = "idle"
  /\ LET fresh == [committed EXCEPT !.FeeBurnPercent = 0, !.GlobalBurnCount = 0,
                                    !.GlobalBurnTotal = 0,
                                    !.AccountBurnTotal = [a \in Accounts |-> NotRecorded]]
     IN committed' = InitValidatorGenesis(
                       InitBurnGenesis(fresh, ExportBurnGenesis(committed)),
                       ExportValidatorGenesis(committed))
  /\ deliver' = committed'
  /\ branch' = deliver'
  /\ UNCHANGED <<height, phase, stage, failed, txs, msgs, aborts>>

(***************************************************************************)
(* BeginBlock.  An error of a hook fails FinalizeBlock: the node halts,    *)
(* and halts again whenever it replays the block.                          *)
(***************************************************************************)
\* Mutation: inflation arrives before the fee burn.
BeginBlockersMintFirst == <<"mint", "burn", "distribution">>

\* Mutation: inflation arrives after the collector has been swept.
BeginBlockersMintLast == <<"burn", "distribution", "mint">>

BeginBlockers == <<"burn", "mint", "distribution">>

BeginBlock ==
  /\ phase = "idle" /\ height < MaxHeight
  /\ phase' = "begin" /\ stage' = 1
  /\ UNCHANGED <<committed, deliver, branch, height, failed, txs, msgs, aborts>>

AtHook(module) == phase = "begin" /\ BeginBlockers[stage] = module

NextHook ==
  IF stage = Len(BeginBlockers) THEN phase' = "deliver" /\ stage' = 0
                                ELSE phase' = "begin" /\ stage' = stage + 1

FeeBurn ==
  /\ AtHook("burn")
  /\ deliver' = ProcessFeeBurn(deliver).st
  /\ IF ProcessFeeBurn(deliver).ok THEN NextHook
                                   ELSE phase' = "halted" /\ stage' = 0
  /\ branch' = deliver'
  /\ UNCHANGED <<committed, height, failed, txs, msgs, aborts>>

\* x/mint (external) sends the inflation of the block to the fee collector.
Mint(n) ==
  /\ AtHook("mint")
  /\ deliver' = [MintCoins(deliver, FeeCollector, Native(n)) EXCEPT
                   !.minted = @ + n,
                   !.earlyMint = IF height = 0 THEN @ + n ELSE @]
  /\ NextHook
  /\ branch' = deliver'
  /\ UNCHANGED <<committed, height, failed, txs, msgs, aborts>>

\* x/distribution (external) sweeps the collector, but not in block 1.
Distribute ==
  /\ AtHook("distribution")
  /\ deliver' =
       IF height = 0 THEN deliver
       ELSE [deliver EXCEPT
               !.bal = [a \in Accounts |-> [d \in Denoms |->
                  CASE a = FeeCollector -> 0
                    [] a = Distribution -> @[a][d] + @[FeeCollector][d]
                    [] OTHER            -> @[a][d]]]]
  /\ NextHook
  /\ branch' = deliver'
  /\ UNCHANGED <<committed, height, failed, txs, msgs, aborts>>

(***************************************************************************)
(* Transactions and proposals.  The ante handler takes the fee before the  *)
(* messages run, on deliver itself: it is paid even if the messages fail.  *)
(***************************************************************************)
StartTx(payer, fee) ==
  /\ phase = "deliver" /\ txs < MaxTxs
  /\ LET paid == SendCoins(deliver, payer, FeeCollector, Native(fee))
     IN /\ paid.ok
        /\ deliver' = [paid.st EXCEPT !.feesPaid = @ + fee]
  /\ branch' = deliver'
  /\ phase' = "tx" /\ txs' = txs + 1 /\ msgs' = 0
  /\ UNCHANGED <<committed, height, stage, failed, aborts>>

StartProposal ==
  /\ phase = "end" /\ txs < MaxTxs
  /\ branch' = deliver
  /\ phase' = "gov" /\ txs' = txs + 1 /\ msgs' = 0
  /\ UNCHANGED <<committed, deliver, height, stage, failed, aborts>>

ExecMsg(m) ==
  /\ \/ phase = "tx"  /\ Signer(m) \in Users
     \/ phase = "gov" /\ Signer(m) = Gov
  /\ ~ failed /\ msgs < MaxMsgs
  /\ branch' = Handle(branch, m, height + 1).st
  /\ failed' = ~ Handle(branch, m, height + 1).ok
  /\ msgs' = msgs + 1
  /\ UNCHANGED <<committed, deliver, height, phase, stage, txs, aborts>>

AfterBranch == phase' = IF phase = "tx" THEN "deliver" ELSE "end"

WriteBranch ==
  /\ phase \in {"tx", "gov"} /\ ~ failed
  /\ deliver' = branch
  /\ AfterBranch /\ msgs' = 0
  /\ UNCHANGED <<committed, branch, height, stage, failed, txs, aborts>>

\* A message failed, or the gas ran out.
DropBranch ==
  /\ phase \in {"tx", "gov"}
  /\ branch' = deliver
  /\ AfterBranch /\ msgs' = 0
  /\ failed' = FALSE
  /\ UNCHANGED <<committed, deliver, height, stage, txs, aborts>>

(***************************************************************************)
(* EndBlock and Commit                                                     *)
(***************************************************************************)
\* Mutation: a block without transactions is never ended.
EndBlockWithTxs ==
  /\ phase = "deliver" /\ txs > 0
  /\ phase' = "end"
  /\ UNCHANGED <<committed, deliver, branch, height, stage, failed, txs, msgs, aborts>>

EndBlock ==
  /\ phase = "deliver"
  /\ phase' = "end"
  /\ UNCHANGED <<committed, deliver, branch, height, stage, failed, txs, msgs, aborts>>

\* x/staking (external) removes a validator that unbonded; what slashing has
\* taken from its stake was burned from the pool, not through x/burn.
RemoveValidator(v, lost) ==
  /\ phase = "end"
  /\ v \in deliver.validators
  /\ lost <= deliver.selfBond[v]
  /\ LET back     == deliver.selfBond[v] - lost
         burnt    == BurnCoins(deliver, StakingPool, Native(lost))
         returned == SendCoins(burnt.st, StakingPool, v, Native(back))
     IN /\ burnt.ok /\ returned.ok
        /\ deliver' = [returned.st EXCEPT
                         !.slashed = @ + lost,
                         !.validators = @ \ {v}]
  /\ branch' = deliver'
  /\ UNCHANGED <<committed, height, phase, stage, failed, txs, msgs, aborts>>

Commit ==
  /\ phase = "end"
  /\ committed' = deliver
  /\ height' = height + 1
  /\ phase' = "idle" /\ txs' = 0
  /\ UNCHANGED <<deliver, branch, stage, failed, msgs, aborts>>

\* A crash, or optimistic execution of a block that was not decided.
Abort ==
  /\ phase \in {"begin", "deliver", "tx", "end", "gov"} /\ aborts < MaxAborts
  /\ deliver' = committed /\ branch' = committed
  /\ phase' = "idle" /\ stage' = 0 /\ failed' = FALSE /\ txs' = 0 /\ msgs' = 0
  /\ aborts' = aborts + 1
  /\ UNCHANGED <<committed, height>>

Progress ==
  \/ InitChain \/ BeginBlock \/ FeeBurn \/ (\E n \in Inflation : Mint(n)) \/ Distribute
  \/ WriteBranch \/ DropBranch \/ EndBlock \/ Commit

Next ==
  \/ Progress
  \/ ExportImport
  \/ Abort
  \/ StartProposal
  \/ \E m \in Msgs : GenTx(m) \/ ExecMsg(m)
  \/ \E u \in Users, fee \in Fees : StartTx(u, fee)
  \/ \E v \in Operators, lost \in Slashes : RemoveValidator(v, lost)

Spec == Init /\ [][Next]_vars

\* CometBFT keeps deciding blocks and the node keeps executing them.
FairSpec == Spec /\ WF_vars(Progress)

-----------------------------------------------------------------------------
(***************************************************************************)
(* Properties                                                              *)
(***************************************************************************)
Store ==
  [bal : [Accounts -> [Denoms -> Nat]], supply : [Denoms -> Int],
   FeeBurnPercent : Int, GlobalBurnCount : 0..(CountModulus - 1),
   GlobalBurnTotal : Nat,
   AccountBurnTotal : [Accounts -> Nat \cup {NotRecorded}],
   ValidatorParams : ValidatorParams,
   validators : SUBSET Operators,
   selfBond : [Operators -> Int], minSelf : [Operators -> Int],
   owed : [Operators -> Int], minDue : [Operators -> Int],
   minted : Int, slashed : Int, earlyMint : Int, feesPaid : Int, burns : Nat,
   gifts : [Denoms -> Int]]

Phases == {"genesis", "idle", "begin", "deliver", "tx", "end", "gov", "halted"}

\* Every variable keeps its type; balances in particular never go negative.
TypeOK ==
  /\ committed \in Store /\ deliver \in Store /\ branch \in Store
  /\ height \in Nat /\ phase \in Phases
  /\ stage \in 0..Len(BeginBlockers)
  /\ failed \in BOOLEAN /\ txs \in Nat /\ msgs \in Nat /\ aborts \in Nat

\* The stores that some reader may still get to see: a branch on which a
\* message failed is never one of them.
LiveStores == {committed, deliver} \cup (IF failed THEN {} ELSE {branch})

BurnedSinceGenesis(st) == GetGlobalBurnTotal(st) - GetGlobalBurnTotal(GenStore)
BurnedBy(st, a) == GetAccountBurnTotal(st, a) - GetAccountBurnTotal(GenStore, a)

\* Every native coin missing from the supply is in GlobalBurnTotal or was
\* slashed, and no burn ever touches the supply of another denomination
\* (burnNative, updateTrackers), whatever fails or is rolled back.
SupplyAccounted ==
  \A st \in LiveStores : \A d \in Denoms :
    st.supply[d] =
      GenSupply[d] + (IF d = BondDenom
                      THEN st.minted - st.slashed - BurnedSinceGenesis(st)
                      ELSE 0)

\* The burn account holds what people sent to it with MsgSend and nothing
\* else: no burn, and no failed burn (burnNative checks the denomination
\* after the transfer), leaves coins behind in it.
BurnAccountHoldsOnlyGifts ==
  \A st \in LiveStores : \A d \in Denoms :
    st.bal[BurnModule][d] = GenBal[BurnModule][d] + st.gifts[d]

\* No way to create a validator after genesis (router, precompile, proposal,
\* registration by somebody else) avoids the registration burn: each operator
\* has burned, from its own account, the fees in force at its registrations.
RegistrationPaid ==
  \A st \in LiveStores : \A v \in Operators : BurnedBy(st, v) >= st.owed[v]

\* A validator is bound to at least the minimum self-delegation that was in
\* force when it registered, and it delegated that much.
SelfBondHonoured ==
  \A st \in LiveStores : \A v \in st.validators :
    /\ st.minSelf[v] >= st.minDue[v]
    /\ st.selfBond[v] >= st.minSelf[v]

\* The registration that meets the parameters in force exactly, if it has to
\* bond anything at all (x/staking wants a positive self-delegation).
ExactRegistration(st, v, denom) ==
  LET p    == st.ValidatorParams
      bond == IF p.MinSelfDelegation.amount > 0 THEN p.MinSelfDelegation.amount ELSE 1
  IN [type |-> "register", signer |-> v, operator |-> v, burn |-> p.RegistrationBurn,
      value |-> [denom |-> denom, amount |-> bond], minSelf |-> bond]

CanAfford(st, v) ==
  st.bal[v][BondDenom] >= 1 + st.ValidatorParams.RegistrationBurn.amount
                            + st.ValidatorParams.MinSelfDelegation.amount

\* As long as both parameters are in the bond denomination, an operator with
\* enough coins and no validator can register: meeting the parameters exactly
\* is enough, whatever was burned, sent, slashed or rolled back before.
FundedOperatorCanRegister ==
  \A v \in Users \ committed.validators :
    /\ committed.ValidatorParams.RegistrationBurn.denom = BondDenom
    /\ committed.ValidatorParams.MinSelfDelegation.denom = BondDenom
    /\ CanAfford(committed, v)
    => Handle(committed, ExactRegistration(committed, v, BondDenom), height + 1).ok

\* The documentation of x/validator: a zero amount disables the corresponding
\* requirement.  With a zero minimum some bond, of some denomination, should
\* be good enough for an operator that can afford it.
ZeroMinimumDisablesRequirement ==
  \A v \in Users \ committed.validators :
    committed.ValidatorParams.MinSelfDelegation.amount = 0 /\ CanAfford(committed, v)
    => \E d \in Denoms :
         Handle(committed, ExactRegistration(committed, v, d), height + 1).ok

\* The documentation of x/burn: the fee burn takes a percentage of the fees,
\* and newly minted inflation is not subject to it.
OnlyFeesBurned ==
  \A st \in LiveStores :
    BurnedBy(st, FeeCollector) <= st.feesPaid + GenBal[FeeCollector][BondDenom]

\* What the fee burn has destroyed was paid as fees (or was in the collector
\* at genesis); the only inflation it can reach is that of block 1, which
\* x/distribution leaves in the collector (order of SetOrderBeginBlockers).
FeeBurnWithinFees ==
  \A st \in LiveStores :
    BurnedBy(st, FeeCollector)
      <= st.feesPaid + st.earlyMint + GenBal[FeeCollector][BondDenom]

\* ProcessFeeBurn never fails, so BeginBlock never halts the chain.
NoHalt == phase # "halted"

\* GlobalBurnCount is the number of burns: what genesis brought and one for
\* each time x/bank destroyed coins of the burn account, modulo the width of
\* the counter.  A burn of nothing, a failed or a rolled back one, and an
\* export and import, count for nothing.
BurnsCounted ==
  \A st \in LiveStores :
    st.GlobalBurnCount = (GenBurn.Count + st.burns) % CountModulus

SumOfAccounts(st) == SumFunction([a \in Accounts |-> GetAccountBurnTotal(st, a)])

\* The account totals grow with the global total: every burn is booked on
\* exactly one address (updateTrackers), also across rollbacks and imports.
AccountTotalsAddUp ==
  \A st \in LiveStores :
    SumOfAccounts(st) - SumOfAccounts(GenStore) = BurnedSinceGenesis(st)

\* The parameters of both modules change only by a governance proposal (or
\* by going back to the committed state).
ParamsChangeOnlyByProposal ==
  [][ \/ phase = "gov" \/ deliver' = committed
      \/ /\ deliver'.FeeBurnPercent = deliver.FeeBurnPercent
         /\ deliver'.ValidatorParams = deliver.ValidatorParams ]_vars

\* While the chain is between blocks nothing, an export and import included,
\* changes what the queries of x/burn and x/validator answer.
ImportPreservesQueries ==
  [][ phase = "idle" =>
        /\ BurnStats(committed') = BurnStats(committed)
        /\ \A a \in Accounts : AccountBurns(committed', a) = AccountBurns(committed, a)
        /\ committed'.FeeBurnPercent = committed.FeeBurnPercent
        /\ committed'.ValidatorParams = committed.ValidatorParams ]_vars

\* Every block is eventually committed: no hook, transaction, proposal or
\* abandoned execution stops the chain.
BlocksCommit ==
  \A h \in 0..(MaxHeight - 1) : (height = h) ~> (height = h + 1)

\* From block 2 on, transactions start with an empty fee collector: fees and
\* inflation of earlier blocks have been burned or distributed.
CollectorDrained ==
  phase = "deliver" /\ height > 0 /\ txs = 0
    => \A d \in Denoms : deliver.bal[FeeCollector][d] = 0

-----------------------------------------------------------------------------
(***************************************************************************)
(* The chain implements BurnLedger: what a reader of committed state sees. *)
(***************************************************************************)
LedgerOf(st) ==
  [supply |-> st.supply, burned |-> GetGlobalBurnTotal(st),
   count |-> st.GlobalBurnCount,
   burnedBy |-> [a \in Accounts |-> GetAccountBurnTotal(st, a)],
   issued |-> st.minted, slashed |-> st.slashed, due |-> st.owed]

Ledger == INSTANCE BurnLedger WITH
  GenesisLedger <- LedgerOf(GenStore), ledger <- LedgerOf(committed)

\* Block by block, the supply shrinks by what the trackers record, no tracker
\* ever falls, and registration fees are burned in the block in which the
\* validator appears: no crash, revert or import ever separates the two.
LedgerSpec == Ledger!Spec
=============================================================================
