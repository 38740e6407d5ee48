---------------------------- MODULE InPlaceTestnet ---------------------------
(***************************************************************************)
(* `monod in-place-testnet` (src/cmd/monod/cmd/testnet.go): takes the      *)
(* state of a live chain, replaces its validator set by one validator,     *)
(* funds some accounts and starts the node.                                *)
(*                                                                         *)
(* initAppForTestnet writes to the uncommitted store; the first block      *)
(* commits it.  A node that stops before that has changed nothing, and the *)
(* command may be given again, also on a chain that it has converted       *)
(* already.  x/staking, x/distribution and x/slashing are outside this     *)
(* repository and modelled from that use; the consensus state is changed   *)
(* by the SDK's server, so that the new key casts every vote.              *)
(***************************************************************************)
EXTENDS Integers, Sequences, FiniteSets

CONSTANTS
  OldOperators,  \* operators of the live chain; the key of each is its own name
  Operators,     \* operators that the command may be given
  Keys,          \* consensus keys that it may be given
  FundFlags,     \* the values of --accounts-to-fund, split at commas
  ValVotingPower,   \* the tokens of the new validator; 9 * 10^14 in the code
  PowerReductions,  \* tokens for one unit of power: 10^18 in this app, and smaller
                    \* ones, which show what else the command does
  MaxRuns,       \* bound: times the command is given
  MaxBlocks      \* bound: blocks of the testnet

\* What the split of an empty flag yields, and no address.
EmptyAddress == "empty"

ASSUME InPlaceAssumption ==
  /\ OldOperators \subseteq Operators /\ OldOperators \subseteq Keys
  /\ FundFlags \subseteq Seq(STRING)
  /\ ValVotingPower \in Nat /\ PowerReductions \subseteq Nat \ {0}
  /\ MaxRuns \in Nat /\ MaxBlocks \in Nat

VARIABLES
  committed, store,
  reduction,  \* sdk.DefaultPowerReduction
  args,       \* [operator, key, accounts] of the command
  phase,
  next,       \* index of the next account to fund
  runs, blocks

vars == <<committed, store, reduction, args, phase, next, runs, blocks>>

(***************************************************************************)
(* The store: the record of each validator is its operator, with its key   *)
(* and whether it is jailed; the indexes of x/staking hold operators.      *)
(***************************************************************************)
Restricted(f, S) == [x \in DOMAIN f \cap S |-> f[x]]
Extended(f, x, y) == [z \in DOMAIN f \cup {x} |-> IF z = x THEN y ELSE f[z]]

\* The live chain: every validator is bonded, or jailed and unbonding.
LiveStore(bonded) ==
  [validators |-> [v \in OldOperators |-> [key |-> v, jailed |-> v \notin bonded]],
   power |-> bonded, last |-> bonded, queue |-> OldOperators \ bonded,
   byCons |-> [k \in OldOperators |-> k], signing |-> OldOperators,
   rewards |-> OldOperators, funded |-> 0]

Init ==
  /\ \E bonded \in SUBSET OldOperators :
       bonded # {} /\ committed = LiveStore(bonded)
  /\ store = committed
  /\ reduction \in PowerReductions
  /\ args \in [operator : Operators, key : Keys, accounts : FundFlags]
  /\ phase = "stopped" /\ next = 1 /\ runs = 0 /\ blocks = 0

\* What a step of the initialisation does to the store.
Step(from, new, to) ==
  /\ phase = from
  /\ store' = new /\ phase' = to
  /\ UNCHANGED <<reduction, committed, args, next, runs, blocks>>

Start(operator, key, accounts) ==
  /\ phase \in {"stopped", "exited"} /\ runs < MaxRuns
  /\ args' = [operator |-> operator, key |-> key, accounts |-> accounts]
  /\ phase' = "power" /\ next' = 1 /\ runs' = runs + 1 /\ blocks' = 0
  /\ UNCHANGED <<reduction, committed, store>>

RemoveFromPower == Step("power", [store EXCEPT !.power = {}], "last")

\* Mutation: the last validators are kept.
RemoveFromLastKeeps == Step("last", store, "validators")

RemoveFromLast == Step("last", [store EXCEPT !.last = {}], "validators")

\* Mutation: the deletions go straight to the committed store.
RemoveValidatorsDurable ==
  /\ phase = "validators"
  /\ store' = [store EXCEPT !.validators = Restricted(@, {})]
  /\ committed' = store' /\ phase' = "queue"
  /\ UNCHANGED <<reduction, args, next, runs, blocks>>

RemoveValidators ==
  Step("validators", [store EXCEPT !.validators = Restricted(@, {})], "queue")

RemoveFromQueue == Step("queue", [store EXCEPT !.queue = {}], "add")

\* SetValidator, SetValidatorByConsAddr, SetValidatorByPowerIndex and
\* SetLastValidatorPower.  The validator is bonded from the start, so that
\* x/staking will not call the hook that makes a signing info.
AddValidator ==
  Step("add",
       [store EXCEPT
          !.validators = Extended(@, args.operator, [key |-> args.key, jailed |-> FALSE]),
          !.byCons = Extended(@, args.key, args.operator),
          !.power = @ \cup {args.operator}, !.last = @ \cup {args.operator}],
       "distribution")

\* Mutation: the reward records are left out.
InitializeRewardsSkipped == Step("distribution", store, "fund")

\* AfterValidatorCreated, and the same records once more.
InitializeRewards ==
  Step("distribution", [store EXCEPT !.rewards = @ \cup {args.operator}], "fund")

FundAccount ==
  /\ phase = "fund" /\ next <= Len(args.accounts)
  /\ args.accounts[next] # EmptyAddress
  /\ store' = [store EXCEPT !.funded = @ + 1]
  /\ next' = next + 1
  /\ UNCHANGED <<reduction, committed, args, phase, runs, blocks>>

\* handleErr ends the process: the address does not parse.
FundFails ==
  /\ phase = "fund" /\ next <= Len(args.accounts)
  /\ args.accounts[next] = EmptyAddress
  /\ store' = committed
  /\ phase' = "exited"
  /\ UNCHANGED <<reduction, committed, args, next, runs, blocks>>

StartNode ==
  /\ phase = "fund" /\ next > Len(args.accounts)
  /\ phase' = "begin"
  /\ UNCHANGED <<reduction, committed, store, args, next, runs, blocks>>

-----------------------------------------------------------------------------
(***************************************************************************)
(* The blocks of the testnet (external).  x/distribution pays the voter,   *)
(* x/slashing looks up its signing info.                                   *)
(***************************************************************************)
\* The validator of key k, if the index leads to one.
Known(k) == k \in DOMAIN store.byCons /\ store.byCons[k] \in DOMAIN store.validators

BeginBlockSucceeds ==
  /\ Known(args.key) /\ store.byCons[args.key] \in store.rewards
  /\ args.key \in store.signing

BeginBlock ==
  /\ phase = "begin" /\ blocks < MaxBlocks
  /\ phase' = IF BeginBlockSucceeds THEN "end" ELSE "halted"
  /\ UNCHANGED <<reduction, committed, store, args, next, runs, blocks>>

\* x/staking walks the power index down to the first validator without power, asks
\* for the others that were in the last set, which leave it, and ends the unbonding
\* of those in the queue.  CometBFT refuses an update that leaves no validator.
HasPower == ValVotingPower >= reduction

EndBlockSucceeds ==
  /\ store.power # {} /\ HasPower
  /\ \A v \in store.power : v \in DOMAIN store.validators /\ ~ store.validators[v].jailed
  /\ store.last \cup store.queue \subseteq DOMAIN store.validators

EndBlock ==
  /\ phase = "end"
  /\ IF EndBlockSucceeds
     THEN /\ store' = [store EXCEPT !.last = store.power]
          /\ committed' = store'
          /\ phase' = "begin" /\ blocks' = blocks + 1
     ELSE phase' = "halted" /\ UNCHANGED <<committed, store, blocks>>
  /\ UNCHANGED <<reduction, args, next, runs>>

\* The process ends; what was not committed is lost.
Stop ==
  /\ phase \notin {"stopped", "exited"}
  /\ store' = committed
  /\ phase' = "stopped"
  /\ UNCHANGED <<reduction, committed, args, next, runs, blocks>>

Next ==
  \/ \E o \in Operators, k \in Keys, f \in FundFlags : Start(o, k, f)
  \/ RemoveFromPower \/ RemoveFromLast \/ RemoveValidators \/ RemoveFromQueue
  \/ AddValidator \/ InitializeRewards \/ FundAccount \/ FundFails \/ StartNode
  \/ BeginBlock \/ EndBlock
  \/ Stop

Spec == Init /\ [][Next]_vars

-----------------------------------------------------------------------------
(***************************************************************************)
(* Properties                                                              *)
(***************************************************************************)
Converted == phase \in {"begin", "end", "halted"}

\* The description of the command: it removes the old validator set.  From
\* the first block on every index that x/staking reads leads to the new
\* validator and no other, also after the command was given a second time.
OldSetIsGone ==
  Converted =>
    /\ DOMAIN store.validators = {args.operator}
    /\ store.power = {args.operator} /\ store.last = {args.operator}
    /\ store.queue = {}
    /\ Known(args.key)

\* The testnet halts for two reasons only: x/slashing has no signing info of the
\* new key, or the tokens of the new validator are no power.  No record that
\* initAppForTestnet left behind or left out does it.
HaltsForTwoReasons ==
  phase = "halted" => args.key \notin store.signing \/ ~ HasPower

\* The state is converted as a whole or not at all: the committed store is
\* that of a chain whose validator set can be read without an error.
CommittedIsConsistent ==
  /\ committed.power \cup committed.last \cup committed.queue
       \subseteq DOMAIN committed.validators
  /\ \A v \in DOMAIN committed.validators :
       LET k == committed.validators[v].key
       IN k \in DOMAIN committed.byCons /\ committed.byCons[k] = v

\* The description of the command: it updates the state with the provided
\* validator and starts the node.  The node makes blocks (with a key that the chain
\* knows, so that the signing info is there).
NodeRuns == phase # "halted"
=============================================================================
