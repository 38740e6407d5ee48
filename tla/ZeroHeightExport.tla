-------------------------- MODULE ZeroHeightExport --------------------------
(***************************************************************************)
(* prepForZeroHeightGenesis of src/app/export.go: before the state is      *)
(* exported for a chain that starts again at height 0, the rewards are     *)
(* paid out and everything that names a height or a reward period is       *)
(* rewritten.  The steps of the function are actions of this module, in    *)
(* the order of the code; each may fail where the code handles a failure.  *)
(*                                                                         *)
(* x/distribution, x/staking and x/slashing are outside this repository;   *)
(* the operations that the function calls, and the ones that lead to the   *)
(* states it finds, are modelled from that use.                            *)
(*                                                                         *)
(* The rewards of validator v are kept by period.  period[v] is the        *)
(* current one.  refs[v], a bag, counts the references to the record of    *)
(* each earlier period; a record without references is deleted.  A         *)
(* delegation refers to the period in which it was last settled.           *)
(***************************************************************************)
EXTENDS Integers, FiniteSets, Bags, Functions

CONSTANTS
  Validators, Delegators,
  Addresses,   \* the operator addresses that a list of allowed ones may name
  Faults,      \* the steps of the export that may fail
  MaxHeight,   \* bound: blocks of the chain
  MaxPeriods,  \* bound: reward periods of a running chain, of all validators
  MaxRewards,  \* bound: rewards that are allocated
  MaxExports   \* bound: exports

ASSUME ExportAssumption ==
  /\ IsFiniteSet(Validators) /\ Validators \subseteq Addresses
  /\ MaxHeight \in Nat /\ MaxPeriods \in Nat /\ MaxRewards \in Nat /\ MaxExports \in Nat
  /\ Faults \subseteq {"rewards", "reinit", "created", "redelegations", "unbondings",
                       "close", "signing"}

NotDelegating == -1

VARIABLES
  \* x/distribution, by validator
  period, refs,
  start,        \* [v][d]: the period that the delegation refers to
  slashEvents,  \* the periods that slash events refer to
  outstanding,
  paid, pool, allocated,   \* paid out, community pool, allocated in all
  \* x/staking and x/slashing; active: whom x/staking meets when it walks the
  \* power index from the top, which ends at MaxValidators and at no power
  jailed, active, unbondingHeight, redelegations, unbondings, startHeight,
  \* the function
  phase, todo, allowed,
  height, exports,
  \* history: who was jailed when the export began, which errors it ignored
  jailedBefore, ignored

distr    == <<period, refs, start, slashEvents, outstanding, paid, pool, allocated>>
stakers  == <<jailed, active, unbondingHeight, redelegations, unbondings, startHeight>>
control  == <<phase, todo, allowed, height, exports, jailedBefore, ignored>>
vars     == <<distr, stakers, control>>

Delegations == {dv \in Delegators \X Validators : start[dv[2]][dv[1]] # NotDelegating}

-----------------------------------------------------------------------------
(***************************************************************************)
(* The operations of x/distribution (external), on the record             *)
(* [period, refs] of one validator.                                        *)
(***************************************************************************)
Of(v) == [period |-> period[v], refs |-> refs[v]]
SetRecord(v, r) ==
  /\ period' = [period EXCEPT ![v] = r.period]
  /\ refs' = [refs EXCEPT ![v] = r.refs]

HasRecord(r, p) == BagIn(p, r.refs)
AddReference(r, p)  == [r EXCEPT !.refs = @ (+) SetToBag({p})]
DropReference(r, p) == [r EXCEPT !.refs = @ (-) SetToBag({p})]

\* The current period's reference moves on.  That panics without the record of
\* the period before, which rolls a transaction back and ends an export: the
\* actions that do it have CanIncrement as a guard.
CanIncrement(r) == HasRecord(r, r.period - 1)
IncrementValidatorPeriod(r) ==
  [AddReference(DropReference(r, r.period - 1), r.period) EXCEPT !.period = @ + 1]

\* A delegation that is (re-)initialised refers to the last complete period.
InitializeDelegation(r) == AddReference(r, r.period - 1)
StartOf(r) == r.period - 1

Settled(r, s) == DropReference(IncrementValidatorPeriod(r), s)
CanSettle(r, s) ==
  /\ CanIncrement(r)
  /\ HasRecord(IncrementValidatorPeriod(r), s)

\* WithdrawDelegationRewards of delegation d of v: settle, then re-initialise.
WithdrawDelegationRewards(v, d) ==
  LET r == Settled(Of(v), start[v][d])
  IN /\ CanSettle(Of(v), start[v][d])
     /\ SetRecord(v, InitializeDelegation(r))
     /\ start' = [start EXCEPT ![v][d] = StartOf(r)]

\* Some of the outstanding rewards are paid; rounding leaves a remainder.
Pay(v) ==
  \E n \in 0..outstanding[v] :
    outstanding' = [outstanding EXCEPT ![v] = @ - n] /\ paid' = paid + n

-----------------------------------------------------------------------------
(***************************************************************************)
(* The chain before the export, and after the import.                      *)
(***************************************************************************)
Init ==
  /\ period = [v \in Validators |-> 1] /\ refs = [v \in Validators |-> SetToBag({0})]
  /\ start = [v \in Validators |-> [d \in Delegators |-> NotDelegating]]
  /\ slashEvents = [v \in Validators |-> {}]
  /\ outstanding = [v \in Validators |-> 0] /\ paid = 0 /\ pool = 0 /\ allocated = 0
  /\ jailed = {} /\ active \in SUBSET Validators
  /\ unbondingHeight = [v \in Validators |-> 0] /\ startHeight = [v \in Validators |-> 1]
  /\ redelegations = {} /\ unbondings = {}
  /\ phase = "live" /\ todo = {} /\ allowed = {} /\ jailedBefore = {} /\ ignored = {}
  /\ height = 1 /\ exports = 0

Live == phase = "live" /\ SumFunction(period) < MaxPeriods

NextBlock ==
  /\ phase = "live" /\ height < MaxHeight
  /\ height' = height + 1
  /\ UNCHANGED <<distr, stakers, phase, todo, allowed, exports, jailedBefore, ignored>>

Allocate(v) ==
  /\ Live /\ allocated < MaxRewards
  /\ outstanding' = [outstanding EXCEPT ![v] = @ + 1] /\ allocated' = allocated + 1
  /\ UNCHANGED <<period, refs, start, slashEvents, paid, pool, stakers, control>>

Delegate(d, v) ==
  /\ Live /\ start[v][d] = NotDelegating /\ CanIncrement(Of(v))
  /\ LET r == IncrementValidatorPeriod(Of(v))
     IN SetRecord(v, InitializeDelegation(r)) /\ start' = [start EXCEPT ![v][d] = StartOf(r)]
  /\ UNCHANGED <<slashEvents, outstanding, paid, pool, allocated, stakers, control>>

Withdraw(d, v) ==
  /\ Live /\ start[v][d] # NotDelegating
  /\ WithdrawDelegationRewards(v, d) /\ Pay(v)
  /\ UNCHANGED <<slashEvents, pool, allocated, stakers, control>>

\* The delegation is settled and removed; the entry remembers the height.
Undelegate(d, v) ==
  /\ Live /\ start[v][d] # NotDelegating /\ CanSettle(Of(v), start[v][d])
  /\ SetRecord(v, Settled(Of(v), start[v][d])) /\ Pay(v)
  /\ start' = [start EXCEPT ![v][d] = NotDelegating]
  /\ \/ unbondings' = unbondings \cup {height} /\ UNCHANGED redelegations
     \/ redelegations' = redelegations \cup {height} /\ UNCHANGED unbondings
  /\ UNCHANGED <<slashEvents, pool, allocated,
                 jailed, active, unbondingHeight, startHeight, control>>

SlashAndJail(v) ==
  /\ Live /\ v \notin jailed /\ CanIncrement(Of(v))
  /\ LET r == IncrementValidatorPeriod(Of(v))
     IN /\ SetRecord(v, AddReference(r, StartOf(r)))
        /\ slashEvents' = [slashEvents EXCEPT ![v] = @ \cup {StartOf(r)}]
  /\ jailed' = jailed \cup {v} /\ active' = active \ {v}
  /\ unbondingHeight' = [unbondingHeight EXCEPT ![v] = height]
  /\ UNCHANGED <<start, outstanding, paid, pool, allocated,
                 redelegations, unbondings, startHeight, control>>

Unjail(v) ==
  /\ phase = "live" /\ v \in jailed
  /\ jailed' = jailed \ {v} /\ active' \in {active, active \cup {v}}
  /\ startHeight' = [startHeight EXCEPT ![v] = height]
  /\ UNCHANGED <<distr, unbondingHeight, redelegations, unbondings, control>>

-----------------------------------------------------------------------------
(***************************************************************************)
(* The export                                                              *)
(***************************************************************************)
\* Continue with phase p, whose loop visits the elements of t.
Goto(p, t) ==
  /\ phase' = p /\ todo' = t
  /\ UNCHANGED <<allowed, height, exports, jailedBefore>>

Proceed(p, t) == Goto(p, t) /\ UNCHANGED ignored

\* An error that the code ignores.
Ignore(step) == step \in Faults /\ ignored' = ignored \cup {step}

\* An error returned to the caller: nothing is exported.
ReturnError(step) ==
  step \in Faults /\ Proceed("failed", {}) /\ UNCHANGED <<distr, stakers>>

\* An empty list of allowed addresses means that no validator is jailed.
StartExport(list) ==
  /\ phase = "live" /\ exports < MaxExports
  /\ phase' = "commission" /\ todo' = Validators
  /\ allowed' = list /\ jailedBefore' = jailed /\ ignored' = {} /\ exports' = exports + 1
  /\ UNCHANGED <<distr, stakers, height>>

Step(p, x) == phase = p /\ x \in todo

WithdrawCommission(v) ==
  /\ Step("commission", v)
  /\ Pay(v)
  /\ IF todo = {v} THEN Proceed("rewards", Delegations) ELSE Proceed(phase, todo \ {v})
  /\ UNCHANGED <<period, refs, start, slashEvents, pool, allocated, stakers>>

\* The error of a withdrawal is ignored; by then the period has moved on.
WithdrawRewards(d, v) ==
  /\ Step("rewards", <<d, v>>)
  /\ \/ WithdrawDelegationRewards(v, d) /\ Pay(v) /\ UNCHANGED ignored
     \/ /\ Ignore("rewards") /\ CanIncrement(Of(v))
        /\ SetRecord(v, IncrementValidatorPeriod(Of(v)))
        /\ UNCHANGED <<start, outstanding, paid>>
  /\ Goto(phase, todo \ {<<d, v>>})
  /\ UNCHANGED <<slashEvents, pool, allocated, stakers>>

EndRewards ==
  /\ phase = "rewards" /\ todo = {}
  /\ Proceed("delegations", Delegations)
  /\ UNCHANGED <<distr, stakers>>

\* BeforeDelegationCreated and AfterDelegationModified.
ReinitDelegation(d, v) ==
  /\ Step("delegations", <<d, v>>) /\ CanIncrement(Of(v))
  /\ LET r == IncrementValidatorPeriod(Of(v))
     IN SetRecord(v, InitializeDelegation(r)) /\ start' = [start EXCEPT ![v][d] = StartOf(r)]
  /\ Proceed(phase, todo \ {<<d, v>>})
  /\ UNCHANGED <<slashEvents, outstanding, paid, pool, allocated, stakers>>

ClearHistory ==
  /\ phase = "delegations" /\ todo = {}
  /\ slashEvents' = [v \in Validators |-> {}]
  /\ refs' = [v \in Validators |-> EmptyBag]
  /\ Proceed("validators", Validators)
  /\ UNCHANGED <<period, start, outstanding, paid, pool, allocated, stakers>>

\* AfterValidatorCreated writes a first record, for period 0, which replaces a
\* record of that period, then the current period, and at the end the
\* outstanding rewards.
FirstRecord(v) ==
  [refs EXCEPT ![v] = [p \in DOMAIN @ \cup {0} |-> IF p = 0 THEN 1 ELSE @[p]]]
FirstPeriod(v) == [period EXCEPT ![v] = 1]

AfterValidatorCreated(v) ==
  /\ refs' = FirstRecord(v) /\ period' = FirstPeriod(v)
  /\ outstanding' = [outstanding EXCEPT ![v] = 0]

\* An error of any of these writes keeps the ones before it.
AfterValidatorCreatedFails(v) ==
  /\ \/ UNCHANGED <<refs, period>>
     \/ refs' = FirstRecord(v) /\ UNCHANGED period
     \/ refs' = FirstRecord(v) /\ period' = FirstPeriod(v)
  /\ UNCHANGED outstanding

\* Mutation: the outstanding rewards are not donated.
ReinitValidatorNoDonation(v) ==
  /\ Step("validators", v)
  /\ AfterValidatorCreated(v)
  /\ IF todo = {v} THEN Proceed("redelegations", {}) ELSE Proceed(phase, todo \ {v})
  /\ UNCHANGED <<start, slashEvents, paid, pool, allocated, stakers>>

\* What cannot be paid goes to the community pool.  An error ends the
\* iteration, not the export; it leaves the pool credited if the pool was
\* saved before.
ReinitValidator(v) ==
  /\ Step("validators", v)
  /\ \/ /\ pool' = pool + outstanding[v]
        /\ AfterValidatorCreated(v)
        /\ IF todo = {v} THEN Proceed("redelegations", {}) ELSE Proceed(phase, todo \ {v})
     \/ /\ pool' = pool + outstanding[v]
        /\ Ignore("created") /\ AfterValidatorCreatedFails(v)
        /\ Goto("redelegations", {})
     \/ /\ Ignore("reinit")
        /\ Goto("redelegations", {})
        /\ UNCHANGED <<period, refs, outstanding, pool>>
  /\ UNCHANGED <<start, slashEvents, paid, allocated, stakers>>

ZeroHeights(S) == {0 : h \in S}

ResetRedelegations ==
  /\ phase = "redelegations"
  /\ \/ /\ redelegations' = ZeroHeights(redelegations)
        /\ Proceed("unbondings", {})
        /\ UNCHANGED <<distr, jailed, active, unbondingHeight, unbondings, startHeight>>
     \/ ReturnError("redelegations")

\* Mutation: unbonding delegations keep their creation height.
ResetUnbondingsKeeps ==
  /\ phase = "unbondings"
  /\ Proceed("bondHeights", {})
  /\ UNCHANGED <<distr, stakers>>

ResetUnbondings ==
  /\ phase = "unbondings"
  /\ \/ /\ unbondings' = ZeroHeights(unbondings)
        /\ Proceed("bondHeights", {})
        /\ UNCHANGED <<distr, jailed, active, unbondingHeight, redelegations, startHeight>>
     \/ ReturnError("unbondings")

\* Mutation: the list names the validators to jail.
JailedByListInverted == IF allowed = {} THEN {} ELSE Validators \cap allowed

JailedByList == IF allowed = {} THEN {} ELSE Validators \ allowed

\* Validators are jailed by their flag only: they stay in the power index.  An
\* iterator that fails to close ends the export without an error.
ResetBondHeights ==
  /\ phase = "bondHeights"
  /\ unbondingHeight' = [v \in Validators |-> 0]
  /\ jailed' = jailed \cup JailedByList
  /\ \/ Proceed("validatorSet", {})
     \/ Ignore("close") /\ Goto("done", {})
  /\ UNCHANGED <<distr, active, redelegations, unbondings, startHeight>>

\* x/staking panics when its walk meets a jailed validator.
ApplyValidatorSetUpdates ==
  /\ phase = "validatorSet"
  /\ IF active \cap jailed = {} THEN Proceed("signing", {}) ELSE Proceed("panicked", {})
  /\ UNCHANGED <<distr, stakers>>

ResetSigningInfos ==
  /\ phase = "signing"
  /\ \/ /\ startHeight' = [v \in Validators |-> 0]
        /\ Proceed("done", {})
        /\ UNCHANGED <<distr, jailed, active, unbondingHeight, redelegations, unbondings>>
     \/ ReturnError("signing")

\* How much more has been paid, is outstanding or is in the community pool than
\* was allocated.
Surplus == paid + pool + SumFunction(outstanding) - allocated

\* A new chain starts from the exported state; x/staking builds the power
\* index anew, without the jailed validators.  x/distribution panics if its
\* account does not hold what is outstanding or in the pool: no chain then.
Import ==
  /\ phase = "done" /\ Surplus = 0
  /\ phase' = "live" /\ height' = 1
  /\ allowed' = {} /\ jailedBefore' = {} /\ ignored' = {}
  /\ active' = active \ jailed
  /\ UNCHANGED <<distr, jailed, unbondingHeight, redelegations, unbondings, startHeight,
                 todo, exports>>

Export ==
  \/ \E list \in SUBSET Addresses : StartExport(list)
  \/ \E v \in Validators : WithdrawCommission(v) \/ ReinitValidator(v)
  \/ \E d \in Delegators, v \in Validators : WithdrawRewards(d, v) \/ ReinitDelegation(d, v)
  \/ EndRewards \/ ClearHistory
  \/ ResetRedelegations \/ ResetUnbondings \/ ResetBondHeights
  \/ ApplyValidatorSetUpdates \/ ResetSigningInfos
  \/ Import

Next ==
  \/ Export
  \/ NextBlock
  \/ \E v \in Validators : Allocate(v) \/ SlashAndJail(v) \/ Unjail(v)
  \/ \E d \in Delegators, v \in Validators :
       Delegate(d, v) \/ Withdraw(d, v) \/ Undelegate(d, v)

Spec == Init /\ [][Next]_vars

-----------------------------------------------------------------------------
(***************************************************************************)
(* Properties                                                              *)
(***************************************************************************)
\* Whatever was allocated has been paid, is outstanding or is in the community
\* pool, once, at every step of the export and whichever errors it ignores.
\* The exception: if AfterValidatorCreated fails after the pool was saved, the
\* rewards of that validator, and of no other, count twice in the export.  No
\* reward is ever lost, and no chain runs with one that counts twice.
RewardsConserved ==
  IF "created" \in ignored THEN \E v \in Validators : Surplus = outstanding[v]
                           ELSE Surplus = 0

\* A completed export has jailed exactly the validators that a non-empty list
\* leaves out, beside those that were jailed before: it jails nobody whom the
\* list names and, without a list, nobody at all; it unjails nobody.
JailRespectsList ==
  phase = "done" =>
    \A v \in Validators :
      v \in jailed <=> v \in jailedBefore \/ (allowed # {} /\ v \notin allowed)

Reset ==
  /\ redelegations \subseteq {0} /\ unbondings \subseteq {0}
  /\ \A v \in Validators :
       /\ unbondingHeight[v] = 0 /\ startHeight[v] = 0
       /\ period[v] = 1 /\ refs[v] = SetToBag({0})
       /\ slashEvents[v] = {} /\ outstanding[v] = 0

\* An export that met no error, or returned it, leaves no height and no
\* reward period of the old chain behind in the records of the validators:
\* each can start its next period in the new chain.  The condition is needed:
\* an error in the callback that re-initialises the validators, or of iter.Close,
\* is dropped, and the export succeeds without having reset the rest.
FreshStart == phase = "done" /\ ignored \subseteq {"rewards"} => Reset

\* The comment in ExportAppStateAndValidators: "as if they could withdraw
\* from the start of the next block".  Whenever the chain runs, before the
\* export and after the import, every delegator can withdraw.
DelegatorsCanWithdraw ==
  phase = "live" =>
    \A dv \in Delegations : CanSettle(Of(dv[2]), start[dv[2]][dv[1]])
=============================================================================
