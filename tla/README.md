# A TLA+ model of mono-chain

mono-chain is a Cosmos SDK application (`monod`) with an EVM. It adds two
modules of its own to those of the SDK and of cosmos/evm: `x/burn`, which
destroys native coins and keeps count of what was destroyed, and `x/validator`,
which lets an operator become a validator only after a burn and with a minimum
self-delegation. This directory models them, the way the application runs and is put together,
their messages on the wire, the export of the state for a chain that starts again
at height 0, the files that `monod` keeps in a home directory, and the two commands
that make test networks.

1. [The system](#the-system)
2. [Modules](#modules)
3. [What TLC checks](#what-tlc-checks)
4. [Where code and documentation disagree](#where-code-and-documentation-disagree)
5. [What is proved](#what-is-proved)
6. [What is not modelled](#what-is-not-modelled)
7. [Plan](#plan)

Paths are relative to the root of the repository (`src/` here).

## The system

### Components, their state and their operations

| Component | State | Operations | Correct when |
|---|---|---|---|
| `x/burn` keeper, message server (`x/burn/keeper/{keeper,burn,msg_server,grpc_query}.go`) | parameter `FeeBurnPercent`; `GlobalBurnCount` (uint64 sequence), `GlobalBurnTotal`, `AccountBurnTotal` by address | `MsgBurn`, `MsgUpdateParams`, queries | what leaves the supply and what the trackers say move together, also when something fails half-way; the burn account never keeps coins that were to be burned |
| `x/burn` fee burn (`keeper/fee_burn.go`, `abci.go`) | none of its own: reads the fee collector | the first `BeginBlock` hook | burns a part of the fees and nothing else; never fails, because a failing hook stops the chain |
| `x/burn` genesis (`keeper/genesis.go`, `types/genesis.go`) | – | validate, import, export | import undoes export |
| `x/validator` keeper, message server (`x/validator/keeper`) | two coins: `ValidatorRegistrationBurn`, `ValidatorMinSelfDelegation` | `MsgRegisterValidator`, `MsgUpdateParams`, genesis | burn, bond and validator appear together or not at all; who meets the parameters can register |
| guards (`x/validator/ante/staking_restriction.go`) | none | refuse `MsgCreateValidator` after genesis: a circuit breaker in the message router, a restricted message server in front of the EVM precompile | no path creates a validator without the burn |
| application (`app/{app,ante,config,genesis}.go`) | the layers of the multistore | order of the hooks, ante handler, `InitChainer`, optimistic execution | a reader of committed state never sees half a transaction or an abandoned block |
| zero-height export (`app/export.go`) | rewrites `x/distribution`, `x/staking`, `x/slashing` | `prepForZeroHeightGenesis`, twelve steps in order | no reward is lost, no height of the old chain remains, delegators can go on |
| messages on the wire (`x/*/types/*.pb.go`, generated from `proto/`) | the parameter items, as bytes | `Size`, `Marshal`, `Unmarshal` of 21 message types | no input makes a decoder panic or misread; what is stored is what was accepted |
| application construction (`app.New` in `app/app.go`) | keepers, some copied, some pointed to, some reached through the address of a field that is filled later | some thirty steps in order | nothing is copied unfinished, no pointer stays open |
| EVM mempool (`app/mempool.go`) | inside cosmos/evm | configured by one step of `app.New` | works with the finished ante handler and keepers |
| node initialisation (`cmd/monod/cmd/{chain_id,mono_config,config,root,commands}.go`) | `client.toml`, `app.toml`, `genesis.json` of each home directory | resolution of flags, files and defaults | a home made for a network id runs with its chain id and its EVM chain id |
| in-place testnet (`cmd/monod/cmd/testnet.go`) | the state of a live chain | replaces the validator set by one validator and funds accounts | the chain it leaves behind can make blocks |
| multi-node testnet (`cmd/monod/cmd/testnet_multi_node.go`) | node directories, gentxs, genesis | generate keys, gentxs and one genesis for n nodes | all nodes get the same genesis, and it is valid |

The rest (module registration, AutoCLI descriptions, simulation, OpenAPI documents)
keeps no state of the running chain.

### How they interact

`x/validator` calls `x/burn` (`BurnFromAccount`) and then the `x/staking`
message server inside one message; `x/burn` calls `x/bank`. They share the
multistore: a call writes to the branch it runs on, and an error does not undo
the writes made before it. The only thing that undoes them is that `baseapp`
throws the branch away. Governance changes the parameters from `EndBlock`. The
fee burn shares the fee collector with the ante handler (which fills it),
`x/mint` (which adds inflation) and `x/distribution` (which empties it, from
block 2 on); what it burns depends on the order of these in
`SetOrderBeginBlockers`. The commands of `monod` share the files of a home
directory, without a lock: the first one of any kind writes `client.toml` and
`app.toml`, `init` writes `genesis.json`, and `start` and `export` read all of
them.

### What is hard

The list, with lines, is `hazards` in `PROJECT.json`. In short:

- *partial failure*: the denomination is checked after the transfer, the burn
  precedes the staking call that may fail, and three trackers follow the bank's
  burn;
- *abandoned work*: a transaction that fails in its second message or runs out
  of gas, a block that optimistic execution ran and consensus did not decide, a
  crash before `Commit`;
- *order*: hooks at `BeginBlock`; the steps of the zero-height export;
- *stopping for good*: an error in a `BeginBlock` hook comes back on every
  replay;
- *several doors*: router, authz, proposal, gentx and EVM precompile all lead to
  `CreateValidator`;
- *edges*: zero, negative and absent amounts, the uint64 sequence, parameters
  with amount zero in a foreign denomination, the first block, lengths that overflow
  an int, a network id beyond uint64, stakes below the power reduction;
- *files of earlier commands*: `app.toml` and gentxs that another run left behind,
  a process that is killed between two files;
- *copies*: a Go struct that is passed on before its hooks or fields are set.

## Modules

```
Bank  <-  BurnKeeper  <-  ValidatorKeeper  <-  MonoChain  <-  MonoChain_proofs
                                                  |  \                |
                                       MCMonoChain    INSTANCE BurnLedger
                                                                      |
                         FiniteSums_proofs  <-------------------------+-- and *
ZeroHeightExport  <-  MCZeroHeightExport, ZeroHeightExport_proofs*
MultiNodeGenesis  <-  MCMultiNodeGenesis, MultiNodeGenesis_proofs
InPlaceTestnet    <-  MCInPlaceTestnet, InPlaceTestnet_proofs
AppWiring  <-  NodeInit  <-  MCNodeInit, NodeInit_proofs
ProtoWire  <-  SdkCodec  <-  RpcWire  <-  MCRpcWire, RpcWire_proofs
    |              |            |                       |
    |    BurnCodec, ValidatorCodec (INSTANCEd by RpcWire)
    '------------  ProtoWire_proofs*  <-----------------'
```

| Module | Models |
|---|---|
| `Bank` | accounts, blocked addresses (`app/config.go`), and the bank operations that the two modules call (external) |
| `BurnKeeper` | `x/burn`, one operator per function, named after it |
| `ValidatorKeeper` | `x/validator`; `CreateValidator` of `x/staking` (external) |
| `MonoChain` | the state machine: genesis, blocks, transactions, proposals, commit, abandoned blocks, export and import |
| `BurnLedger` | abstract specification: what a reader of committed state may rely on, with blocks as the only steps |
| `MonoChain_proofs` | theorems about `MonoChain`; in its second part fees, the burn counter, the account totals, parameters |
| `FiniteSums_proofs` | lemmas about sums over a finite set, and that a non-empty set of naturals has a least element |
| `ZeroHeightExport` | `prepForZeroHeightGenesis`, step by step, with the staking operations that lead to the states it finds |
| `MultiNodeGenesis` | `monod multi-node`: the directories, gentxs and genesis of n nodes, over several runs of the command |
| `InPlaceTestnet` | `monod in-place-testnet`: the conversion of a live chain, index by index, and the blocks after it |
| `ProtoWire` | the varint, length-prefix, skip, field and loop code that every `*.pb.go` repeats, and the numbers of `cosmossdk.io/math` (external) |
| `SdkCodec` | the types of the SDK inside the messages: `Coin`, `MsgCreateValidator` (external) |
| `BurnCodec`, `ValidatorCodec` | `Size`, `Marshal`, `Unmarshal` of each message of the two modules, put together as the generated functions are |
| `RpcWire` | messages in flight, what may happen to their bytes, and the `UpdateParams` handlers with the parameter stores behind them |
| `AppWiring` | `app.New`: the steps, and what each copies and points to |
| `NodeInit` | the commands of `monod` on home directories; starting a node runs through `AppWiring` |
| `ZeroHeightExport_proofs`, `MultiNodeGenesis_proofs`, `InPlaceTestnet_proofs`, `NodeInit_proofs`, `RpcWire_proofs` | theorems about these modules; `NodeInit_proofs` starts with `AppWiring`: when each object of `app.New` is complete, and that no copy is older |
| `ProtoWire_proofs` | lemmas about the decoders and encoders of `ProtoWire`, for any table of fields |
| `MC…` | instances for TLC |

### Stores, outcomes and branches

A keeper has no memory of its own, so a keeper function is an operator on a
*store*, a record with one field per collection (`bal`, `supply`,
`FeeBurnPercent`, `GlobalBurnCount`, …). It returns `[ok, st]`. With `ok = FALSE`
the call returned an error or panicked and `st` holds the writes made before
that. `BurnFromAccount` of a foreign coin, for instance, fails with the coin
already in the burn account, as in the code.

`MonoChain` has three stores: `committed`, `deliver` (the block being executed)
and `branch` (the transaction or proposal being executed). A behaviour is

- `GenTx`, `InitChain`: gentxs through the router at height 0;
- `BeginBlock`, then `FeeBurn`, `Mint`, `Distribute` in the order `BeginBlockers`;
- `StartTx` (the ante handler takes the fee from `deliver`), `ExecMsg` on
  `branch`, then `WriteBranch` or `DropBranch`; gas may run out after any
  message, so `DropBranch` is always possible;
- `EndBlock`; `StartProposal` and `ExecMsg` by governance; `RemoveValidator`;
  `Commit`;
- `Abort` at any point before `Commit` (crash, or optimistic execution of a block
  that was not decided); `ExportImport` between blocks.

Data is abstracted: an address is a model value, a percentage an integer over
`PercentOne` (10^18 in the code), a validator its operator, its self-delegation
and its declared minimum. An absent (nil) amount is a negative one: the code
treats them alike. Integers of the SDK are unbounded up to 256 bits and stay
unbounded; the uint64 sequence wraps at `CountModulus`.

History fields, which no operator reads, record what properties speak of:
inflation, slashing, fees, gifts to the burn account, the burns that `x/bank` made of
the burn account (`burns`, against which `BurnsCounted` holds the sequence), and for
each operator the registration fees that fell due (`owed`) and the minimum in force
when it registered (`minDue`). They are part of the store and roll back with it.

`ZeroHeightExport` keeps the rewards of a validator by period, as
`x/distribution` does: the current period, and a bag of references to the
records of earlier ones; a record without references is deleted, and an
operation that needs a deleted record fails. How much a withdrawal pays is
nondeterministic. `active` are the validators that `x/staking` meets on its walk
through the power index. Each step of the function is an action; a step that
can fail does so if it is in `Faults`. `ignored` remembers the errors that the
function dropped. One of them, `"created"`, comes after the community pool has been
credited and saved (`app/export.go:147`) and before, or between, the writes of
`AfterValidatorCreated`: the rewards of that validator are then in the pool and
outstanding. `Surplus` measures it, and `Import` needs it to be zero, since
`x/distribution` panics on a genesis with more rewards than its account holds. The list
that decides who is jailed is any set of `Addresses`, strangers and an empty list among
them.

`MultiNodeGenesis` keeps the directory of each node (node key, gentx files,
genesis file) across runs of the command, and the local variables of the current
run. A loop over the nodes is a phase with a counter; each round is one action.
Keys are named after the run that made them: `InitializeNodeValidatorFiles` keeps
an existing node key, `GenerateSaveCoinKey` replaces an existing account. An error
removes the output directory (`FailAndRemove`) or leaves it (`FailAndLeave`, also
the end of the process), and a write that fails may leave a file cut short
(`FailInWrite`). Amounts are scaled: `PowerReduction` stands for 10^18,
`FlagDefault` for 10^8.

`InPlaceTestnet` has a committed store and the one that `initAppForTestnet` writes
to; the store holds the validators, the indexes of `x/staking` (power, last set,
unbonding queue, consensus key), the keys with a signing info and the operators
with reward records. A block succeeds if `x/distribution`, `x/slashing` and
`x/staking` find in it what they ask for and the new validator has power. The power
reduction is chosen at the start: the app's (10 here, against 9 tokens, for 10^18
against 9 * 10^14) and a smaller one, with which there are blocks after the first
and one sees what else the command does.

### The wire and the home directories

In `ProtoWire` a `[]byte` is a sequence of bytes and a decoder's outcome has a
status: it succeeded, returned an error, went out of range, or looped without
consuming anything. The loops of the generated code are recursive functions on the
number of rounds. Sums and conversions wrap at `WordBits` and `FieldNumBits`, so that
the overflow checks of the generated code matter. `Marshal` fills a buffer of `Size`
bytes from the end, as the code does; a mismatch is a panic. Numbers of the SDK are
encoded by their digits, and an absent one (`nil`) is a value of its own; the encoder
writes it as zero, which is what `Normalized` says. In `RpcWire` a message is
sent, its bytes are left alone, cut, extended by an unknown field, followed by a second
encoding, or are arbitrary, and then the receiver decodes it; parameter updates go on
to the handler and the store. `Merged` is what two encodings one after the other mean
for each kind of field. An unknown field is a list of tokens, each a field number, a
wire type and a value of that type, with groups that open and close again. For transactions
the SDK refuses unknown fields before these decoders run; the tolerance matters to
queries, stores and genesis files.

`NodeInit` has one action per access to a file: `NewRootCmd` (which reads or creates
the `client.toml` of the *default* home), `ReadClientConfig`, `Resolve`, `StatAppToml`,
`WriteAppToml`, `LoadAppToml`, `RunInit`, `BeginNew`, then the steps of `app.New`. A
file is written in one step; one that is cut short is not represented. A new
`client.toml` gets `--chain-id` or else the id in that of the default home, which a user
may have set before (`Configured`). `start` takes the chain id from `--chain-id` and
only without it from `genesis.json` (`DefaultBaseappOptions`); `export` gives `app.New`
none. The EVM chain id is that of `app.toml` in both. Processes overlap, and `Kill`
ends one anywhere. A chain id is a word with or
without blanks around it; which words are well formed, and with which number, is a
constant. `inits` and `wrote` are history: the network ids of the `init` commands of
a home, and of the commands that found no `app.toml` in it.

`AppWiring` knows two copies that are stale when the node runs, and
`OnlyTwoCopiesAreStale` that there is no third: the client context of the mempool, and
the decoder and encoder that BaseApp takes of the first `txConfig` (`app/app.go:237`),
which another one with textual signing replaces (line 338).

## What TLC checks

| Run | Instance | Shows |
|---|---|---|
| `burn` | 2 users, 2 denominations, 3 blocks, 1 transaction or proposal of up to 2 messages per block, 1 abandoned block; burns of 2, 0, -1 and of a foreign coin, gifts, percentages 1/2, 1 and 3/2; sequence modulo 4; a genesis with an address twice and a total that is not the sum | `SupplyAccounted`, `BurnAccountHoldsOnlyGifts`, `AccountTotalsAddUp`, `FeeBurnWithinFees`, `CollectorDrained`, `BurnsCounted`, `NoHalt`, `ImportPreservesQueries`, `TypeOK` |
| `registration` | 2 blocks of 2 transactions or proposals; 15 messages: a burn, paid, unpaid and under-bonded registrations, by the operator and by somebody else, `MsgCreateValidator` on both paths, parameter changes; validators that are slashed and leave; with fairness | `RegistrationPaid`, `SelfBondHonoured`, `FundedOperatorCanRegister`, `ParamsChangeOnlyByProposal`, `LedgerSpec` (refinement of `BurnLedger`), `BlocksCommit` |
| `zero_height_export` | 2 validators, 1 delegator, 3 changes of reward periods before the export, all faults, lists of the validators and one more address, import and further life of the new chain | `RewardsConserved`, `JailRespectsList`, `FreshStart` |
| `multi_node` | 3 runs of the command for 1 to 3 nodes, with and without lists of stakes and ports, one stake that cannot be paid | `SameGenesis`, `AppStatesDoNotDiffer`, `PortsDistinct` |
| `in_place_testnet` | 3 validators in every mix of bonded and unbonding; known and unknown operators and keys; 2 runs of the command, 2 blocks each | `OldSetIsGone`, `HaltsForTwoReasons`, `CommittedIsConsistent` |
| `wire` | words of 10 bits, field numbers of 5; a few values of each of the 21 message types, counters and lengths that need two varint bytes; six unknown fields, one of each wire type; all inputs of up to 4 out of 11 bytes | `DecoderNeverPanics`, `RoundTrip`, `ReencodingIsStable`, `UnknownFieldsIgnored`, `CutLosesWholeFields`, `ConcatenationMerges`, `StoreKeepsAcceptedParams`, `TypeOK` |
| `node_init` | 2 processes, 2 homes, 3 commands; two good network ids, one also with blanks, one beyond uint64 (here 99), one malformed, one too long; the default home with and without an id in `client.toml`; `start` with and without `--chain-id` | `NetworkIDReachesBothFiles`, `RunningNodeHasBothIds`, `RefusedIdsLeaveNoTrace`, `OnlyTwoCopiesAreStale`, `RunningAppIsWired`, `TypeOK` |
| `foreign_minimum`, `first_block_inflation`, `withdraw_after_import`, `default_stakes_have_no_power`, `in_place_no_power` | – | the disagreements of the next section |

*Why these bounds.* Three blocks are the least in which the collector is filled
(1), burned and swept for the first time (2), and burned with nothing but fees
of the previous block in it (3). Two messages are the least in which the second
fails after the first has written. One abandoned block per behaviour is enough
to abandon each kind of partial block and to repeat it. With `PercentOne = 2`
the percentages below, at and above one occur and rounding happens. A sequence
modulo 4 starting at 2 wraps within a behaviour. In the export, two validators
are the least for an error to leave some behind and for a list to name one of
them; three changes of period are a delegation, a slash and a withdrawal or
undelegation, in any order and on either validator. Three runs of the command
are the least in which two failed ones can leave different things behind; three
nodes let a run have more nodes than the next by more than one. Two runs of the
in-place command are the least in which it meets a chain that it has converted
before. Ten bits let a length be negative after its conversion and let an index
overflow after its addition with a varint of two bytes, and four bytes are the
least that hold a tag, such a length and a value. Three
commands are two that race or follow each other on a home and one that starts a
node on what they left. Each property was also
checked to fail when the code it is about is changed in a plausible way
(`mutants` in `PROJECT.json`; the changed definitions stand before the
originals, marked *Mutation* or *Mutant*).

*Deadlock* is checked in `burn`, `registration` and `wire`; at `MaxHeight` the chain
may still export and import. In the other runs it is not: a chain that has halted, an
export that has failed and the last run of a command stop.

*Fairness.* `FairSpec` assumes `WF_vars(Progress)`: some step of the block's life
cycle is eventually taken when one stays possible. CometBFT keeps deciding
blocks and the ABCI methods are called one after the other by one goroutine.
Nothing is assumed of users, proposals, crashes or imports; crashes are bounded
by `MaxAborts`, since a node that crashes in every block commits none.

## Where code and documentation disagree

1. *A zero minimum in a foreign denomination* (run `foreign_minimum`).
   `validateMinSelfDelegation` (`x/validator/types/params.go:50`) looks at the
   denomination of a non-zero amount only. After a proposal that sets the minimum
   to zero of another coin every registration must delegate in that coin
   (`x/validator/keeper/keeper.go:134`), and `x/staking` refuses it. The module's
   README (line 190) says that a zero amount disables the requirement.
   `FundedOperatorCanRegister` shows that this is the only way to be locked out.
2. *The inflation of block 1* (run `first_block_inflation`). `x/distribution` does
   not sweep the collector in block 1, so the fee burn of block 2 is computed on
   the first block's inflation too. The README of `x/burn` (lines 49 and 155) says
   the percentage is taken of fees and not of inflation. `FeeBurnWithinFees` shows
   that it is limited to that one block.
3. *Delegators after a zero-height export* (run `withdraw_after_import`).
   `prepForZeroHeightGenesis` re-initialises the delegations (`app/export.go:98`)
   before it deletes the historical rewards and sets the validators back to
   period 1. A delegation then refers to a period without a record, and in the
   new chain its owner can neither withdraw nor change it.
4. *Default stakes without power* (run `default_stakes_have_no_power`). The default
   of the flag, and its example, are below the power reduction of 10^18 that
   `app/config.go:71` sets, so that the generated chain has no validator with
   power and refuses to start.
5. *An in-place testnet without power* (run `in_place_no_power`). The new validator
   has 9 * 10^14 tokens (`cmd/monod/cmd/testnet.go:32`), less than the power
   reduction. In the first block `x/staking` takes it out of the set as a validator
   without power, nothing remains, and CometBFT stops. No block is committed,
   whatever key the command is given.

Some more are visible in the model and need no run:

- A validator of an in-place testnet whose key is new to the chain would halt it
  even with power: it is stored as bonded (`cmd/monod/cmd/testnet.go:95`), so nothing
  creates its signing info, and `x/slashing` fails. `HaltsForTwoReasons` shows that
  these are the only two reasons.
- The zero-height export reports some errors as success. An error while validators
  are re-initialised ends the loop and is dropped (`app/export.go:151`); an iterator
  that fails to close makes the function return nil (line 223) before the signing
  infos are reset. This is why `FreshStart` has a condition (`ignored`). If the error
  is one of `AfterValidatorCreated` (line 149), the exported rewards exceed what was
  allocated by those of that validator, and no chain can start from the export: the
  exception in `RewardsConserved`.
- A node that is restarted with a `--chain-id` other than that of its genesis runs
  with it: only `InitChain` of a new chain compares the two. This is why
  `RunningNodeHasBothIds` has a condition for the chain id.
- `--network-id` is described as a flag "to set both chain-id and evm-chain-id"
  (`cmd/monod/cmd/mono_config.go:22`). On a home that has an `app.toml` already, from
  a command of any kind or from an `init` that failed, it sets the first only, and
  reports success. This is why `NetworkIDReachesBothFiles` and
  `RunningNodeHasBothIds` have the condition `MadeFor`.
- The mempool keeps the empty client context that the app has while `New` runs
  (`app/mempool.go:41`), and BaseApp the decoder and encoder of a `txConfig` that is
  replaced: the exceptions in `OnlyTwoCopiesAreStale`.
- An entry of `--validators-stake-amount` that is no number is skipped, so that the
  later ones move forward and the nodes at the end get 100 units of power
  (`valTokens`), where the comment at `cmd/monod/cmd/testnet_multi_node.go:104`
  promises 100000000.
- Both coins of a balance in that genesis are in the bond denomination: the supply
  counts both, the account has one (`AmountOf`).
- The empty default of `--accounts-to-fund` splits into one empty address
  (`cmd/monod/cmd/testnet.go:211`), with which the command exits (`FundFails`).

## What is proved

Every invariant and action property that a passing run checks is also a theorem,
for every value of the constants, and so is the refinement of `BurnLedger`. Only the
liveness property `BlocksCommit` is left to TLC.

| Theorem | States | Module |
|---|---|---|
| `TypeCorrect` | `Spec => []TypeOK`: no balance is ever negative | `MonoChain_proofs` |
| `NeverHalts` | `Spec => []NoHalt` | |
| `SupplyIsAccounted` | `Spec => []SupplyAccounted` | |
| `BurnAccountClean` | `Spec => []BurnAccountHoldsOnlyGifts` | |
| `RegistrationsArePaid` | `Spec => []RegistrationPaid` | |
| `SelfBondsHonoured` | `Spec => []SelfBondHonoured` | |
| `ImportsPreserveQueries` | `Spec => ImportPreservesQueries` | |
| `FundedOperatorsCanRegister` | `Spec => []FundedOperatorCanRegister` | |
| `ImplementsBurnLedger` | `Spec => LedgerSpec` (refinement) | |
| `FeeBurnStaysWithinFees` | `Spec => []FeeBurnWithinFees` | |
| `CollectorIsDrained` | `Spec => []CollectorDrained` | |
| `EveryBurnIsCounted` | `Spec => []BurnsCounted` | |
| `AccountTotalsFollowTheGlobalOne` | `Spec => []AccountTotalsAddUp` | |
| `ParamsChangeByProposal` | `Spec => ParamsChangeOnlyByProposal` | |
| `ExportJailsByList` | `Spec => []JailRespectsList` | `ZeroHeightExport_proofs` |
| `ExportStartsFresh` | `Spec => []FreshStart` | |
| `RewardsAreConserved` | `Spec => []RewardsConserved` | |
| `SuccessGivesOneGenesis` | `Spec => []SameGenesis` | `MultiNodeGenesis_proofs` |
| `FirstAppStateStandsForAll` | `Spec => []AppStatesDoNotDiffer` | |
| `DefaultPortsDiffer` | `MaxNodes <= 3887 => (Spec => []PortsDistinct)` | |
| `OldSetGone` | `Spec => []OldSetIsGone` | `InPlaceTestnet_proofs` |
| `OnlyTwoReasonsToHalt` | `Spec => []HaltsForTwoReasons` | |
| `CommittedStaysConsistent` | `Spec => []CommittedIsConsistent` | |
| `NodeTypes` | `Spec => []TypeOK` | `NodeInit_proofs` |
| `OneNetworkIDInBothFiles` | `Spec => []NetworkIDReachesBothFiles` | |
| `RunningNodesAgree` | `Spec => []RunningNodeHasBothIds` | |
| `RefusedIdsAreNotSaved` | `Spec => []RefusedIdsLeaveNoTrace` | |
| `NoOtherCopyIsStale` | `Spec => []OnlyTwoCopiesAreStale` | |
| `RunningNodesAreWired` | `Spec => []RunningAppIsWired` | |
| `WireTypes` | `Spec => []TypeOK`: what is decoded has the Go type | `RpcWire_proofs` |
| `DecodersNeverPanic` | `Spec => []DecoderNeverPanics` | |
| `MessagesRoundTrip` | `Spec => []RoundTrip` | |
| `ConcatenationsMerge` | `Spec => []ConcatenationMerges` | |
| `ReencodingStable` | `Spec => []ReencodingIsStable` | |
| `UnknownFieldsSkipped` | `Spec => []UnknownFieldsIgnored` | |
| `CutsLoseWholeFields` | `Spec => []CutLosesWholeFields` | |
| `StoresKeepAcceptedParams` | `Spec => []StoreKeepsAcceptedParams` | |

The bound in `DefaultPortsDiffer` is exact. A node's gRPC port goes down from 9090 by
two, its API port from 1317 by one: node 3887 would have 1316, the API port of node 1.

*Assumptions.* TLC evaluates all of them in the runs.

- `BankAssumption`: finitely many users, none of them a module account; the bond
  denomination is one of the denominations. `BurnAssumption`: `PercentOne` and
  `CountModulus` are positive. `ChainAssumption`: the genesis passes validation,
  messages have their types, the bounds are numbers.
- `ExportAssumption`: there are finitely many validators (they are the records of a
  store), they are among the addresses that a list may name, and the bounds are
  numbers.
- `MultiNodeAssumption`, `InPlaceAssumption`: the types of flags and bounds; what
  the live chain has as operators and keys is among the operators and keys; a power
  reduction is not zero.
- `WidthAssumption`: a field number has more than four bits, and at least four fewer
  than an integer. `WireAssumption`: the messages sent have their Go types, the bytes
  received are bytes, the bond denomination is a string, the default parameters fit in
  a buffer; the unknown fields are sequences of tokens with groups that close, and no
  message has a case for their number.
- `NodeAssumption`, `CommandAssumption`: the default EVM id is a positive uint64, an
  id in a well-formed name is positive (`regexEIP155` in
  `cmd/monod/cmd/chain_id.go:20` allows no leading zero), commands have their types, there is one, the ids that a user has configured are chain
  ids, and the marks for "no id", "no file"
  and "made up" are no chain ids.

*The chain.* None of the invariants is inductive alone: `NoHalt` needs valid
parameters in the store that the hook will read, which are those of a branch
that was written several steps earlier; `RegistrationPaid` needs the trackers
never to fall. The invariant `IInv` says of `committed` and `deliver` that they
are `Good` (well typed, parameters valid, validators bonded), that the committed
store *grows* from genesis and `deliver` from the committed store, that the same
holds of `branch` unless a message on it has failed, and that outside a
transaction `branch` is `deliver`. `Grows(st, new)` relates two stores: supply,
totals, count, fees due and the burn account move together. It is reflexive and
transitive, so it is enough to show it for each operation once (the lemmas
`…Effect`); a failed message may leave any store behind, about which nothing but
its type is claimed. The refinement of `BurnLedger` is the same relation read
off `committed`. `ImportUndoesExport` rests on the walk visiting every recorded
address exactly once (a bijection from an initial segment of the naturals, from
the library's theorems on finite sets). `FractionBound` shows that truncation
after multiplication with at most one never exceeds the balance.

`CInv` adds what flows. `Held(st)` is what the collector holds and has burned, less
what was paid into it as fees or by the inflation of block 1. Inflation of a later
block is in the collector between `x/mint` and `x/distribution` only (`Pending`), and
by then the fee burn of this block is over; this is why it cannot be burned.
`CountMoves` says that the counter and the number of burns that `x/bank` made move
together, modulo `CountModulus`: a call of `burnNative` that burns nothing moves
neither, every other one both, and no other operation touches either of them. And `Gap(st)`, the account totals less the global one, does not move
at all. What a transaction does on its branch is compared with `deliver`, so that a
dropped branch leaves no trace and a written one adds its burns once.

*Sums.* `SumFunction` of the community modules is a recursive function on the
subsets of a set that takes away an element which CHOOSE picks.
`FiniteSums_proofs` shows that it exists, that any order gives the same sum, and that
changing one term moves it by the difference. The library's induction theorems have
an operator as their parameter, which no installed prover can instantiate; instead,
the set of sizes for which a claim fails has a least element (`LeastNat`, from
the well-foundedness of `<`), and that leads to a contradiction.

*The export.* `ZInv` follows the order of `prepForZeroHeightGenesis`: for each phase,
what the phases before it have left and no later one disturbs: who is jailed, which
records are those of a new validator, which heights are zero. A step that fails and
whose error is dropped is in `ignored`, and only then does a later phase promise
less. `RInv` is `RewardsConserved` with amounts that are never negative, and says that
the dropped error of `AfterValidatorCreated` can only be there after the loop over the
validators, when no step moves a reward any more, and not on a chain that runs.

*Several runs.* In `MInv` an account is named after the run that made its key. A gentx
file that an earlier run left names an account which this run's genesis does not have,
and a file cut short names none; so every file with an account of this run is the
gentx of its node, and the collection finds the same gentxs in every directory. `PInv`
says for each step of `initAppForTestnet` what the steps before it have emptied, and
so the result does not depend on the state that the command found, nor on whether it
was given before.

*Commands that overlap.* `NInv` says where everything comes from: a number in
`app.toml`, or one that a process has read from it, was resolved from the network id
of a command that found no `app.toml`; an id in `genesis.json`, or read from it, is
the network id of an `init`, or was not given by that flag; the id of a node is its own
`--chain-id` or one that was read from `genesis.json`. These histories only
grow, so what a process has read stays true however late it is used, whoever is killed
in between.

*Wiring.* `OrderElements` lays out the list of 37 steps, `CompleteFrom` says after
which of them each object is complete, and `CopiesAreComplete` that every copy but
two is made later than that. `NInv` supplies that a running node has gone through all
the steps.

*The wire.* A loop of the generated code is a recursive function: the state after each
of its rounds, of which there are at most half as many as bytes, since a field takes two.
That such a function exists (`LoopExists`), and claims about all its rounds (`CountUp`),
follow from a least counterexample as above. `Takes` and `Decodes` say that a field, and
the switch of a message, yield a value of the type or an error whatever bytes they are
given; this is shown for a varint, a length, the skipping of a field and each kind of
field, and then for every message from its table of cases. `WireInv` has what follows of
the states: types, and no decoder that panics or spins.

For what is read back, `Left` says which bytes a loop still has to read, `Writes` that
certain bytes take it from one message to another, and `Cuts` that a beginning of them
ends in an error or takes it part of the way. `Coded` has both, with `Merged` as the
result, for the encoding of every message type, nested ones first; a round trip, a
concatenation and a cut are then one step of a loop that starts with an empty message.
An unknown field is followed token by token (`TokenSkipped`), with the depth of the open
groups as the witness. `History` says of the state that the bytes under way are what was
sent, changed as the recorded fate says, that what was decoded was decoded from them, and
that the store holds an encoding of what was accepted.

*Only model-checked.* `BlocksCommit` is liveness under fairness, for which the prover
has no rules about ENABLED. The properties of the runs that end in a violation are
refuted, and hence no theorems.

## What is not modelled

- Gas, events, logging, encoding of addresses, JSON. A transaction that
  runs out of gas is a dropped branch.
- The rest of the SDK modules and cosmos/evm: contracts, the ERC-20 module, IBC.
  They move coins between users or module accounts through `x/bank`, as `MsgSend`
  does here, and do not touch the state of the two modules.
- Fees of EVM transactions go to the same collector; their refund is not
  distinguished.
- API servers, command registration, AutoCLI, simulation: no state of the chain. The
  temporary app that `NewRootCmd` makes on an empty database, and the chain
  configuration of the EVM, which is a global variable of cosmos/evm.
- The mempool itself is in cosmos/evm; `AppWiring` has what is handed to it. So is the
  server that registers the listeners for pending transactions: `app/app.go:897`
  appends to a list that `onPendingTx` walks, without a lock, and whether the two can
  overlap is decided there.
- Of the configuration files everything but the ids; the CometBFT configuration is
  the default.
- Delegations that an in-place testnet leaves without a validator, and the tokens of
  its validator that no pool backs. An undelegation from a removed validator fails as
  a transaction; the pool is asked for the tokens only when the validator leaves the
  set, which ends the testnet.
- The vesting genesis account (`app/genesis_account.go`) is a check of one record.

## Plan

In this order; all but the last are done.

1. `Bank`, `BurnKeeper`, `ValidatorKeeper`, `MonoChain`, `BurnLedger`, their runs.
2. `MonoChain_proofs`: the invariant `IInv` and the theorems that rest on it alone.
3. `ZeroHeightExport`.
4. `MultiNodeGenesis`.
5. `InPlaceTestnet`.
6. `ProtoWire`, `SdkCodec`, `BurnCodec`, `ValidatorCodec`, `RpcWire`.
7. `AppWiring`, `NodeInit`.
8. Theorems about the properties of all modules.
9. Abstract specifications for the export and for the files of a home, with proofs
   that the detailed modules implement them.
