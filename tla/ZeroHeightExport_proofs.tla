----------------------- MODULE ZeroHeightExport_proofs -----------------------
(***************************************************************************)
(* Proofs about ZeroHeightExport, for any validators and delegators, any   *)
(* number of exports and any errors in them.                               *)
(*                                                                         *)
(* prepForZeroHeightGenesis goes through its phases in one order, and each *)
(* phase leaves something behind that no later one disturbs.  The          *)
(* inductive invariant ZInv says of every phase what the ones before it    *)
(* have left: whom they have jailed, and what they have reset.             *)
(***************************************************************************)
EXTENDS ZeroHeightExport, FiniteSums_proofs, TLAPS

\* The phases after the re-initialisation of the validators, in four lots:
\* each has all that the ones before it had reset.
AfterBondHeights   == {"validatorSet", "signing", "done"}
AfterUnbondings    == {"bondHeights"} \cup AfterBondHeights
AfterRedelegations == {"unbondings"} \cup AfterUnbondings
AfterValidators    == {"redelegations"} \cup AfterRedelegations

BeforeJailing ==
  {"commission", "rewards", "delegations", "validators",
   "redelegations", "unbondings", "bondHeights"}

\* The distribution records of a validator of a new chain.
Fresh(v) == period[v] = 1 /\ refs[v] = SetToBag({0}) /\ outstanding[v] = 0

Shape ==
  /\ period = [v \in Validators |-> period[v]]
  /\ refs = [v \in Validators |-> refs[v]]
  /\ outstanding = [v \in Validators |-> outstanding[v]]

JailProgress ==
  /\ phase \in BeforeJailing => jailed = jailedBefore
  /\ phase \in AfterBondHeights => jailed = jailedBefore \cup JailedByList

ValidatorsProgress ==
  /\ phase = "validators" =>
       /\ todo \subseteq Validators
       /\ \A v \in todo : refs[v] = EmptyBag
       /\ \A v \in Validators : slashEvents[v] = {}
       /\ \A v \in Validators \ todo : Fresh(v)
  /\ phase \in AfterValidators /\ {"reinit", "created"} \cap ignored = {} =>
       \A v \in Validators : Fresh(v) /\ slashEvents[v] = {}

HeightsProgress ==
  /\ phase \in AfterRedelegations => redelegations \subseteq {0}
  /\ phase \in AfterUnbondings => unbondings \subseteq {0}
  /\ phase \in AfterBondHeights => \A v \in Validators : unbondingHeight[v] = 0
  /\ phase = "done" /\ "close" \notin ignored => \A v \in Validators : startHeight[v] = 0

ZInv == Shape /\ JailProgress /\ ValidatorsProgress /\ HeightsProgress
-----------------------------------------------------------------------------
LEMMA InitZInv == Init => ZInv
<1>. HAVE Init
<1>1. Shape /\ phase = "live"
  BY DEF Init, Shape
<1>. QED
  BY <1>1 DEF ZInv, JailProgress, ValidatorsProgress, HeightsProgress, BeforeJailing,
              AfterBondHeights, AfterUnbondings, AfterRedelegations, AfterValidators

\* The writes of the operations keep the shape.
LEMMA ShapeKept ==
  ASSUME Shape, NEW v,
         \/ period' = period
         \/ \E x : period' = [period EXCEPT ![v] = x],
         \/ refs' = refs
         \/ \E x : refs' = [refs EXCEPT ![v] = x],
         \/ outstanding' = outstanding
         \/ \E x : outstanding' = [outstanding EXCEPT ![v] = x]
  PROVE  Shape'
<1>1. period' = [w \in Validators |-> period'[w]]
  BY DEF Shape
<1>2. refs' = [w \in Validators |-> refs'[w]]
  BY DEF Shape
<1>3. outstanding' = [w \in Validators |-> outstanding'[w]]
  BY DEF Shape
<1>. QED  BY <1>1, <1>2, <1>3 DEF Shape

\* What the chain does while it runs needs nothing but that.
LEMMA LiveZInv ==
  ASSUME Shape', phase' \notin BeforeJailing \cup AfterValidators
  PROVE  ZInv'
BY DEF ZInv, JailProgress, ValidatorsProgress, HeightsProgress, BeforeJailing,
       AfterBondHeights, AfterUnbondings, AfterRedelegations, AfterValidators

-----------------------------------------------------------------------------
(***************************************************************************)
(* The steps of the export.                                                *)
(***************************************************************************)
\* Up to ClearHistory only the jailed validators matter.
LEMMA EarlyZInv ==
  ASSUME ZInv, Shape', phase \in {"commission", "rewards", "delegations"},
         phase' \in {"commission", "rewards", "delegations"},
         jailed' = jailed, jailedBefore' = jailedBefore
  PROVE  ZInv'
<1>1. JailProgress'
  BY DEF ZInv, JailProgress, BeforeJailing, AfterBondHeights
<1>2. ValidatorsProgress' /\ HeightsProgress'
  BY DEF ValidatorsProgress, HeightsProgress, BeforeJailing, AfterBondHeights,
         AfterUnbondings, AfterRedelegations, AfterValidators
<1>. QED  BY <1>1, <1>2 DEF ZInv

LEMMA StartExportZInv ==
  ASSUME ZInv, NEW list, StartExport(list)
  PROVE  ZInv'
<1>1. Shape'
  BY DEF ZInv, Shape, StartExport, distr
<1>2. JailProgress'
  BY DEF StartExport, stakers, JailProgress, BeforeJailing, AfterBondHeights
<1>3. ValidatorsProgress' /\ HeightsProgress'
  BY DEF StartExport, ValidatorsProgress, HeightsProgress, BeforeJailing,
         AfterBondHeights, AfterUnbondings, AfterRedelegations, AfterValidators
<1>. QED  BY <1>1, <1>2, <1>3 DEF ZInv

LEMMA ClearHistoryZInv ==
  ASSUME ZInv, ClearHistory
  PROVE  ZInv'
<1>1. /\ phase = "delegations" /\ phase' = "validators" /\ todo' = Validators
      /\ jailed' = jailed /\ jailedBefore' = jailedBefore
      /\ slashEvents' = [v \in Validators |-> {}] /\ refs' = [v \in Validators |-> EmptyBag]
      /\ period' = period /\ outstanding' = outstanding
  BY DEF ClearHistory, Proceed, Goto, stakers
<1>2. Shape'
  BY <1>1 DEF ZInv, Shape
<1>3. JailProgress'
  BY <1>1 DEF ZInv, JailProgress, BeforeJailing, AfterBondHeights
<1>4. ValidatorsProgress'
  BY <1>1 DEF ValidatorsProgress, BeforeJailing, AfterBondHeights, AfterUnbondings,
         AfterRedelegations, AfterValidators
<1>5. HeightsProgress'
  BY <1>1 DEF HeightsProgress, BeforeJailing, AfterBondHeights, AfterUnbondings,
         AfterRedelegations, AfterValidators
<1>. QED  BY <1>2, <1>3, <1>4, <1>5 DEF ZInv

\* After ClearHistory, AfterValidatorCreated makes the record of a new chain.
LEMMA CreatedIsFresh ==
  ASSUME Shape, NEW v \in Validators, refs[v] = EmptyBag, AfterValidatorCreated(v)
  PROVE  /\ Shape' /\ Fresh(v)'
         /\ \A w \in Validators \ {v} : (Fresh(w) => Fresh(w)') /\ refs'[w] = refs[w]
<1>. DEFINE r == [p \in DOMAIN refs[v] \cup {0} |-> IF p = 0 THEN 1 ELSE refs[v][p]]
<1>1. r = SetToBag({0})
  <2>1. DOMAIN refs[v] = {}
    BY DEF EmptyBag, SetToBag
  <2>2. r = [p \in {0} |-> 1]
    BY <2>1
  <2>. QED  BY <2>2 DEF SetToBag
<1>2. /\ period' = [period EXCEPT ![v] = 1] /\ refs' = [refs EXCEPT ![v] = r]
      /\ outstanding' = [outstanding EXCEPT ![v] = 0]
  BY DEF AfterValidatorCreated, FirstRecord, FirstPeriod
<1>. HIDE DEF r
<1>3. Shape'
  BY <1>2, ShapeKept
<1>4. period'[v] = 1 /\ refs'[v] = r /\ outstanding'[v] = 0
  BY <1>2 DEF Shape
<1>5. \A w \in Validators \ {v} :
        period'[w] = period[w] /\ refs'[w] = refs[w] /\ outstanding'[w] = outstanding[w]
  BY <1>2 DEF Shape
<1>. QED  BY <1>1, <1>3, <1>4, <1>5 DEF Fresh

LEMMA ReinitValidatorZInv ==
  ASSUME ZInv, NEW v \in Validators, ReinitValidator(v)
  PROVE  ZInv'
<1>1. /\ phase = "validators" /\ v \in todo
      /\ slashEvents' = slashEvents /\ jailed' = jailed /\ jailedBefore' = jailedBefore
  BY DEF ReinitValidator, Step, Proceed, Goto, stakers
<1>2. CASE /\ AfterValidatorCreated(v)
           /\ IF todo = {v} THEN Proceed("redelegations", {}) ELSE Proceed(phase, todo \ {v})
  <2>1. /\ Shape /\ todo \subseteq Validators /\ refs[v] = EmptyBag
        /\ (\A w \in todo : refs[w] = EmptyBag) /\ (\A w \in Validators : slashEvents[w] = {})
        /\ \A w \in Validators \ todo : Fresh(w)
    BY <1>1 DEF ZInv, ValidatorsProgress
  <2>2. /\ Shape' /\ Fresh(v)'
        /\ \A w \in Validators \ {v} : (Fresh(w) => Fresh(w)') /\ refs'[w] = refs[w]
    BY <1>2, <2>1, CreatedIsFresh
  <2>3. CASE todo = {v}
    <3>1. phase' = "redelegations"
      BY <1>2, <2>3 DEF Proceed, Goto
    <3>2. \A w \in Validators : Fresh(w)' /\ slashEvents'[w] = {}
      BY <1>1, <2>1, <2>2, <2>3
    <3>3. JailProgress'
      BY <1>1, <3>1 DEF ZInv, JailProgress, BeforeJailing, AfterBondHeights
    <3>4. ValidatorsProgress'
      BY <3>1, <3>2 DEF ValidatorsProgress
    <3>5. HeightsProgress'
      BY <3>1 DEF HeightsProgress, BeforeJailing, AfterBondHeights, AfterUnbondings,
             AfterRedelegations, AfterValidators
    <3>. QED  BY <2>2, <3>3, <3>4, <3>5 DEF ZInv
  <2>4. CASE todo # {v}
    <3>1. phase' = "validators" /\ todo' = todo \ {v}
      BY <1>1, <1>2, <2>4 DEF Proceed, Goto
    <3>2. /\ todo' \subseteq Validators /\ (\A w \in todo' : refs'[w] = EmptyBag)
          /\ \A w \in Validators \ todo' : Fresh(w)'
      BY <2>1, <2>2, <3>1
    <3>3. JailProgress'
      BY <1>1, <3>1 DEF ZInv, JailProgress, BeforeJailing, AfterBondHeights
    <3>4. ValidatorsProgress'
      BY <1>1, <2>1, <3>1, <3>2 DEF ValidatorsProgress, BeforeJailing, AfterBondHeights,
             AfterUnbondings, AfterRedelegations, AfterValidators
    <3>5. HeightsProgress'
      BY <3>1 DEF HeightsProgress, BeforeJailing, AfterBondHeights, AfterUnbondings,
             AfterRedelegations, AfterValidators
    <3>. QED  BY <2>2, <3>3, <3>4, <3>5 DEF ZInv
  <2>. QED  BY <2>3, <2>4
<1>3. CASE /\ Ignore("reinit") \/ Ignore("created")
           /\ Goto("redelegations", {})
           /\ UNCHANGED <<period, refs, outstanding>> \/ AfterValidatorCreatedFails(v)
  <2>1. phase' = "redelegations" /\ {"reinit", "created"} \cap ignored' # {}
    <3>1. "reinit" \in ignored' \/ "created" \in ignored'
      BY <1>3 DEF Ignore
    <3>. QED  BY <1>3, <3>1 DEF Goto
  <2>2. Shape'
    <3>1. Shape
      BY DEF ZInv
    <3>2. CASE UNCHANGED <<period, refs, outstanding>>
      BY <3>1, <3>2 DEF Shape
    <3>3. CASE AfterValidatorCreatedFails(v)
      BY <3>1, <3>3, ShapeKept DEF AfterValidatorCreatedFails, FirstRecord, FirstPeriod
    <3>. QED  BY <1>3, <3>2, <3>3
  <2>3. JailProgress'
    BY <1>1, <2>1 DEF ZInv, JailProgress, BeforeJailing, AfterBondHeights
  <2>4. ValidatorsProgress' /\ HeightsProgress'
    BY <2>1 DEF ValidatorsProgress, HeightsProgress, BeforeJailing, AfterBondHeights,
           AfterUnbondings, AfterRedelegations, AfterValidators
  <2>. QED  BY <2>2, <2>3, <2>4 DEF ZInv
<1>. QED  BY <1>2, <1>3 DEF ReinitValidator

\* From then on the distribution records are left alone.
LEMMA RecordsKept ==
  ASSUME ZInv, UNCHANGED distr, phase \in AfterValidators, phase' \in AfterValidators,
         ignored \subseteq ignored'
  PROVE  Shape' /\ ValidatorsProgress'
<1>1. /\ period' = period /\ refs' = refs /\ outstanding' = outstanding
      /\ slashEvents' = slashEvents
  BY DEF distr
<1>2. Shape'
  BY <1>1 DEF ZInv, Shape
<1>3. phase' # "validators"
  BY DEF BeforeJailing, AfterBondHeights, AfterUnbondings, AfterRedelegations,
         AfterValidators
<1>4. ASSUME {"reinit", "created"} \cap ignored' = {}
      PROVE  \A v \in Validators : Fresh(v)' /\ slashEvents'[v] = {}
  <2>1. {"reinit", "created"} \cap ignored = {}
    BY <1>4
  <2>2. \A v \in Validators : Fresh(v) /\ slashEvents[v] = {}
    BY <2>1 DEF ZInv, ValidatorsProgress
  <2>. QED  BY <1>1, <2>2 DEF Fresh
<1>. QED  BY <1>2, <1>3, <1>4 DEF ValidatorsProgress

LEMMA ResetRedelegationsZInv ==
  ASSUME ZInv, ResetRedelegations
  PROVE  ZInv'
<1>1. CASE /\ redelegations' = ZeroHeights(redelegations) /\ Proceed("unbondings", {})
           /\ UNCHANGED <<distr, jailed, active, unbondingHeight, unbondings, startHeight>>
  <2>1. /\ phase = "redelegations" /\ phase' = "unbondings" /\ ignored' = ignored
        /\ jailed' = jailed /\ jailedBefore' = jailedBefore /\ UNCHANGED distr
    BY <1>1 DEF ResetRedelegations, Proceed, Goto
  <2>2. Shape' /\ ValidatorsProgress'
    BY <2>1, RecordsKept DEF BeforeJailing, AfterBondHeights, AfterUnbondings,
           AfterRedelegations, AfterValidators
  <2>3. JailProgress'
    BY <2>1 DEF ZInv, JailProgress, BeforeJailing, AfterBondHeights
  <2>4. HeightsProgress'
    BY <1>1, <2>1 DEF HeightsProgress, ZeroHeights, BeforeJailing, AfterBondHeights,
           AfterUnbondings, AfterRedelegations, AfterValidators
  <2>. QED  BY <2>2, <2>3, <2>4 DEF ZInv
<1>2. CASE ReturnError("redelegations")
  <2>1. phase' = "failed" /\ Shape'
    BY <1>2 DEF ReturnError, Proceed, Goto, distr, ZInv, Shape
  <2>. QED  BY <2>1, LiveZInv DEF BeforeJailing, AfterBondHeights, AfterUnbondings,
                AfterRedelegations, AfterValidators
<1>. QED  BY <1>1, <1>2 DEF ResetRedelegations

LEMMA ResetUnbondingsZInv ==
  ASSUME ZInv, ResetUnbondings
  PROVE  ZInv'
<1>1. CASE /\ unbondings' = ZeroHeights(unbondings) /\ Proceed("bondHeights", {})
           /\ UNCHANGED <<distr, jailed, active, unbondingHeight, redelegations, startHeight>>
  <2>1. /\ phase = "unbondings" /\ phase' = "bondHeights" /\ ignored' = ignored
        /\ jailed' = jailed /\ jailedBefore' = jailedBefore /\ UNCHANGED distr
        /\ redelegations' = redelegations
    BY <1>1 DEF ResetUnbondings, Proceed, Goto
  <2>2. Shape' /\ ValidatorsProgress'
    BY <2>1, RecordsKept DEF BeforeJailing, AfterBondHeights, AfterUnbondings,
           AfterRedelegations, AfterValidators
  <2>3. JailProgress'
    BY <2>1 DEF ZInv, JailProgress, BeforeJailing, AfterBondHeights
  <2>4. HeightsProgress'
    BY <1>1, <2>1 DEF ZInv, HeightsProgress, ZeroHeights, BeforeJailing,
           AfterBondHeights, AfterUnbondings, AfterRedelegations, AfterValidators
  <2>. QED  BY <2>2, <2>3, <2>4 DEF ZInv
<1>2. CASE ReturnError("unbondings")
  <2>1. phase' = "failed" /\ Shape'
    BY <1>2 DEF ReturnError, Proceed, Goto, distr, ZInv, Shape
  <2>. QED  BY <2>1, LiveZInv DEF BeforeJailing, AfterBondHeights, AfterUnbondings,
                AfterRedelegations, AfterValidators
<1>. QED  BY <1>1, <1>2 DEF ResetUnbondings

LEMMA ResetBondHeightsZInv ==
  ASSUME ZInv, ResetBondHeights
  PROVE  ZInv'
<1>1. /\ phase = "bondHeights" /\ unbondingHeight' = [v \in Validators |-> 0]
      /\ jailed' = jailed \cup JailedByList /\ jailedBefore' = jailedBefore
      /\ allowed' = allowed /\ UNCHANGED distr /\ redelegations' = redelegations
      /\ unbondings' = unbondings /\ ignored \subseteq ignored'
      /\ phase' = "validatorSet" \/ (phase' = "done" /\ "close" \in ignored')
  BY DEF ResetBondHeights, Proceed, Goto, Ignore
<1>2. Shape' /\ ValidatorsProgress'
  BY <1>1, RecordsKept DEF BeforeJailing, AfterBondHeights, AfterUnbondings,
         AfterRedelegations, AfterValidators
<1>3. JailProgress'
  <2>1. JailedByList' = JailedByList
    BY <1>1 DEF JailedByList
  <2>. QED  BY <1>1, <2>1 DEF ZInv, JailProgress, BeforeJailing, AfterBondHeights
<1>4. HeightsProgress'
  BY <1>1 DEF ZInv, HeightsProgress, BeforeJailing, AfterBondHeights, AfterUnbondings,
         AfterRedelegations, AfterValidators
<1>. QED  BY <1>2, <1>3, <1>4 DEF ZInv

LEMMA ApplyValidatorSetUpdatesZInv ==
  ASSUME ZInv, ApplyValidatorSetUpdates
  PROVE  ZInv'
<1>1. /\ phase = "validatorSet" /\ UNCHANGED <<distr, stakers>>
      /\ allowed' = allowed /\ jailedBefore' = jailedBefore /\ ignored' = ignored
      /\ phase' = "signing" \/ phase' = "panicked"
  BY DEF ApplyValidatorSetUpdates, Proceed, Goto
<1>2. CASE phase' = "panicked"
  <2>1. Shape'
    BY <1>1 DEF distr, ZInv, Shape
  <2>. QED  BY <1>2, <2>1, LiveZInv DEF BeforeJailing, AfterBondHeights,
                AfterUnbondings, AfterRedelegations, AfterValidators
<1>3. CASE phase' = "signing"
  <2>1. Shape' /\ ValidatorsProgress'
    BY <1>1, <1>3, RecordsKept DEF BeforeJailing, AfterBondHeights, AfterUnbondings,
           AfterRedelegations, AfterValidators
  <2>2. JailedByList' = JailedByList
    BY <1>1 DEF JailedByList
  <2>3. JailProgress'
    BY <1>1, <1>3, <2>2 DEF ZInv, JailProgress, BeforeJailing, AfterBondHeights, stakers
  <2>4. HeightsProgress'
    BY <1>1, <1>3 DEF ZInv, HeightsProgress, stakers, BeforeJailing, AfterBondHeights,
           AfterUnbondings, AfterRedelegations, AfterValidators
  <2>. QED  BY <2>1, <2>3, <2>4 DEF ZInv
<1>. QED  BY <1>1, <1>2, <1>3

LEMMA ResetSigningInfosZInv ==
  ASSUME ZInv, ResetSigningInfos
  PROVE  ZInv'
<1>1. CASE /\ startHeight' = [v \in Validators |-> 0] /\ Proceed("done", {})
           /\ UNCHANGED <<distr, jailed, active, unbondingHeight, redelegations, unbondings>>
  <2>1. /\ phase = "signing" /\ phase' = "done" /\ ignored' = ignored
        /\ jailed' = jailed /\ jailedBefore' = jailedBefore /\ allowed' = allowed
        /\ UNCHANGED distr
    BY <1>1 DEF ResetSigningInfos, Proceed, Goto
  <2>2. Shape' /\ ValidatorsProgress'
    BY <2>1, RecordsKept DEF BeforeJailing, AfterBondHeights, AfterUnbondings,
           AfterRedelegations, AfterValidators
  <2>3. JailedByList' = JailedByList
    BY <2>1 DEF JailedByList
  <2>4. JailProgress'
    BY <2>1, <2>3 DEF ZInv, JailProgress, BeforeJailing, AfterBondHeights
  <2>5. HeightsProgress'
    BY <1>1, <2>1 DEF ZInv, HeightsProgress, BeforeJailing, AfterBondHeights,
           AfterUnbondings, AfterRedelegations, AfterValidators
  <2>. QED  BY <2>2, <2>4, <2>5 DEF ZInv
<1>2. CASE ReturnError("signing")
  <2>1. phase' = "failed" /\ Shape'
    BY <1>2 DEF ReturnError, Proceed, Goto, distr, ZInv, Shape
  <2>. QED  BY <2>1, LiveZInv DEF BeforeJailing, AfterBondHeights, AfterUnbondings,
                AfterRedelegations, AfterValidators
<1>. QED  BY <1>1, <1>2 DEF ResetSigningInfos

-----------------------------------------------------------------------------
\* The loops over commissions and delegations.
LEMMA EarlyStepsZInv ==
  ASSUME ZInv, NEW v, NEW d,
         WithdrawCommission(v) \/ WithdrawRewards(d, v) \/ ReinitDelegation(d, v) \/ EndRewards
  PROVE  ZInv'
<1>1. Shape
  BY DEF ZInv
<1>2. CASE WithdrawCommission(v)
  <2>1. Shape'
    BY <1>1, <1>2, ShapeKept DEF WithdrawCommission, Pay
  <2>. QED  BY <1>2, <2>1, EarlyZInv DEF WithdrawCommission, Step, Proceed, Goto, stakers
<1>3. CASE WithdrawRewards(d, v)
  <2>1. Shape'
    BY <1>1, <1>3, ShapeKept
    DEF WithdrawRewards, Pay, WithdrawDelegationRewards, SetRecord
  <2>. QED  BY <1>3, <2>1, EarlyZInv DEF WithdrawRewards, Step, Goto, stakers
<1>4. CASE ReinitDelegation(d, v)
  <2>1. Shape'
    BY <1>1, <1>4, ShapeKept DEF ReinitDelegation, SetRecord
  <2>. QED  BY <1>4, <2>1, EarlyZInv DEF ReinitDelegation, Step, Proceed, Goto, stakers
<1>5. CASE EndRewards
  <2>1. Shape'
    BY <1>1, <1>5 DEF EndRewards, distr, Shape
  <2>. QED  BY <1>5, <2>1, EarlyZInv DEF EndRewards, Proceed, Goto, stakers
<1>. QED  BY <1>2, <1>3, <1>4, <1>5

\* The chain that runs.
LEMMA LiveStepsZInv ==
  ASSUME ZInv, NEW v, NEW d,
         \/ NextBlock \/ Allocate(v) \/ SlashAndJail(v) \/ Unjail(v) \/ Import
         \/ Delegate(d, v) \/ Withdraw(d, v) \/ Undelegate(d, v)
  PROVE  ZInv'
<1>1. Shape
  BY DEF ZInv
<1>2. phase' = "live"
  BY DEF NextBlock, Allocate, SlashAndJail, Unjail, Import, Delegate, Withdraw, Undelegate,
         Live, control
<1>3. Shape'
  <2>1. CASE NextBlock \/ Unjail(v) \/ Import
    BY <1>1, <2>1 DEF NextBlock, Unjail, Import, distr, Shape
  <2>2. CASE Allocate(v)
    BY <1>1, <2>2, ShapeKept DEF Allocate
  <2>3. CASE SlashAndJail(v)
    BY <1>1, <2>3, ShapeKept DEF SlashAndJail, SetRecord
  <2>4. CASE Delegate(d, v)
    BY <1>1, <2>4, ShapeKept DEF Delegate, SetRecord
  <2>5. CASE Withdraw(d, v)
    BY <1>1, <2>5, ShapeKept DEF Withdraw, WithdrawDelegationRewards, SetRecord, Pay
  <2>6. CASE Undelegate(d, v)
    BY <1>1, <2>6, ShapeKept DEF Undelegate, SetRecord, Pay
  <2>. QED  BY <2>1, <2>2, <2>3, <2>4, <2>5, <2>6
<1>. QED  BY <1>2, <1>3, LiveZInv DEF BeforeJailing, AfterBondHeights, AfterUnbondings,
                AfterRedelegations, AfterValidators

LEMMA NextZInv == ZInv /\ [Next]_vars => ZInv'
<1>. SUFFICES ASSUME ZInv, [Next]_vars PROVE ZInv'
  OBVIOUS
<1>1. ASSUME NEW list \in SUBSET Addresses, StartExport(list) PROVE ZInv'
  BY <1>1, StartExportZInv
<1>2. ASSUME NEW v \in Validators, WithdrawCommission(v) \/ ReinitValidator(v) PROVE ZInv'
  BY <1>2, EarlyStepsZInv, ReinitValidatorZInv
<1>3. ASSUME NEW d \in Delegators, NEW v \in Validators,
             WithdrawRewards(d, v) \/ ReinitDelegation(d, v)
      PROVE  ZInv'
  BY <1>3, EarlyStepsZInv
<1>4. CASE EndRewards
  BY <1>4, EarlyStepsZInv
<1>5. CASE ClearHistory
  BY <1>5, ClearHistoryZInv
<1>6. CASE ResetRedelegations
  BY <1>6, ResetRedelegationsZInv
<1>7. CASE ResetUnbondings
  BY <1>7, ResetUnbondingsZInv
<1>8. CASE ResetBondHeights
  BY <1>8, ResetBondHeightsZInv
<1>9. CASE ApplyValidatorSetUpdates
  BY <1>9, ApplyValidatorSetUpdatesZInv
<1>10. CASE ResetSigningInfos
  BY <1>10, ResetSigningInfosZInv
<1>11. CASE Import \/ NextBlock
  BY <1>11, LiveStepsZInv
<1>12. ASSUME NEW v \in Validators, Allocate(v) \/ SlashAndJail(v) \/ Unjail(v) PROVE ZInv'
  BY <1>12, LiveStepsZInv
<1>13. ASSUME NEW d \in Delegators, NEW v \in Validators,
              Delegate(d, v) \/ Withdraw(d, v) \/ Undelegate(d, v)
       PROVE  ZInv'
  BY <1>13, LiveStepsZInv
<1>14. CASE UNCHANGED vars
  BY <1>14 DEF ZInv, Shape, JailProgress, ValidatorsProgress, HeightsProgress, Fresh,
               JailedByList, vars, distr, stakers, control
<1>15. CASE Export
  BY <1>1, <1>2, <1>3, <1>4, <1>5, <1>6, <1>7, <1>8, <1>9, <1>10, <1>11, <1>15 DEF Export
<1>. QED  BY <1>11, <1>12, <1>13, <1>14, <1>15 DEF Next

LEMMA SpecZInv == Spec => []ZInv
BY InitZInv, NextZInv, PTL DEF Spec
-----------------------------------------------------------------------------
(***************************************************************************)
(* The rewards.  RInv adds to the balance of the rewards that no amount is *)
(* negative, a payment being a part of what is outstanding, and that an    *)
(* export that has counted a reward twice is past every step that moves    *)
(* one (Late), and cannot be imported.                                     *)
(***************************************************************************)
AmountsOK ==
  /\ outstanding \in [Validators -> Nat]
  /\ paid \in Nat /\ pool \in Nat /\ allocated \in Nat

Late == AfterValidators \cup {"failed", "panicked"}

CreatedIsLate == "created" \in ignored => phase \in Late

RInv == AmountsOK /\ RewardsConserved /\ CreatedIsLate

amounts == <<outstanding, paid, pool, allocated>>

\* A write to the outstanding rewards of one validator moves the sum by the
\* difference.
LEMMA OutstandingMoves ==
  ASSUME AmountsOK, NEW v \in Validators, NEW x \in Nat,
         outstanding' = [outstanding EXCEPT ![v] = x]
  PROVE  /\ outstanding' \in [Validators -> Nat]
         /\ SumFunction(outstanding) \in Int
         /\ SumFunction(outstanding)' = SumFunction(outstanding) + (x - outstanding[v])
<1>1. outstanding \in [Validators -> Nat] /\ outstanding' \in [Validators -> Nat]
  BY DEF AmountsOK
<1>2. IsFiniteSet(Validators) /\ outstanding \in [Validators -> Int] /\ x \in Int
  BY <1>1, ExportAssumption
<1>3. /\ SumFunction(outstanding) \in Int
      /\ SumFunction([outstanding EXCEPT ![v] = x])
           = SumFunction(outstanding) + (x - outstanding[v])
  BY <1>2, SumFunctionMoves
<1>. QED  BY <1>1, <1>3

\* As long as nothing counts twice the balance is exact.
LEMMA BalancedRInv ==
  ASSUME AmountsOK', Surplus' = 0, "created" \notin ignored'
  PROVE  RInv'
BY DEF RInv, RewardsConserved, CreatedIsLate

LEMMA BalancedBefore ==
  ASSUME RInv, phase \notin Late
  PROVE  AmountsOK /\ Surplus = 0 /\ "created" \notin ignored
BY DEF RInv, RewardsConserved, CreatedIsLate

LEMMA LateNames ==
  /\ "live" \notin Late /\ "commission" \notin Late /\ "rewards" \notin Late
  /\ "delegations" \notin Late /\ "validators" \notin Late
  /\ {"redelegations", "unbondings", "bondHeights", "validatorSet", "signing",
      "done", "failed", "panicked"} \subseteq Late
BY DEF Late, AfterValidators, AfterRedelegations, AfterUnbondings, AfterBondHeights

LEMMA InitRInv == Init => RInv
<1>. HAVE Init
<1>1. AmountsOK
  BY DEF Init, AmountsOK
<1>2. SumFunctionOnSet(outstanding, Validators) = 0
  <2>1. \A v \in Validators : outstanding[v] = 0
    BY DEF Init
  <2>. QED  BY <2>1, ExportAssumption, SumZero
<1>3. DOMAIN outstanding = Validators
  BY DEF Init
<1>4. SumFunction(outstanding) = 0
  BY <1>2, <1>3 DEF SumFunction
<1>. QED  BY <1>1, <1>4 DEF RInv, RewardsConserved, Surplus, CreatedIsLate, Init

\* A payment moves a part of what is outstanding to paid.
LEMMA PayRInv ==
  ASSUME RInv, NEW v \in Validators, Pay(v), UNCHANGED <<pool, allocated>>,
         phase \notin Late, "created" \in ignored' => "created" \in ignored
  PROVE  RInv'
<1>0. AmountsOK /\ Surplus = 0 /\ "created" \notin ignored
  BY BalancedBefore
<1>1. PICK n \in 0..outstanding[v] :
        outstanding' = [outstanding EXCEPT ![v] = @ - n] /\ paid' = paid + n
  BY DEF Pay
<1>2. outstanding[v] \in Nat /\ n \in Nat /\ outstanding[v] - n \in Nat
  BY <1>0, <1>1 DEF AmountsOK
<1>3. /\ outstanding' \in [Validators -> Nat]
      /\ SumFunction(outstanding) \in Int
      /\ SumFunction(outstanding)'
           = SumFunction(outstanding) + ((outstanding[v] - n) - outstanding[v])
  BY <1>0, <1>1, <1>2, OutstandingMoves
<1>4. AmountsOK'
  BY <1>0, <1>1, <1>2, <1>3 DEF AmountsOK
<1>5. SumFunction(outstanding)' = SumFunction(outstanding) - n
  BY <1>2, <1>3
<1>6. /\ paid \in Nat /\ pool \in Nat /\ allocated \in Nat
      /\ paid' = paid + n /\ pool' = pool /\ allocated' = allocated
  BY <1>0, <1>1 DEF AmountsOK
<1>7. Surplus' = 0
  BY <1>0, <1>2, <1>3, <1>5, <1>6 DEF Surplus
<1>. QED  BY <1>0, <1>4, <1>7, BalancedRInv

LEMMA AllocateRInv ==
  ASSUME RInv, NEW v \in Validators, Allocate(v)
  PROVE  RInv'
<1>0. AmountsOK /\ Surplus = 0 /\ "created" \notin ignored
  BY BalancedBefore, LateNames DEF Allocate, Live
<1>1. /\ outstanding' = [outstanding EXCEPT ![v] = @ + 1] /\ allocated' = allocated + 1
      /\ paid' = paid /\ pool' = pool /\ ignored' = ignored
  BY DEF Allocate, control
<1>2. outstanding[v] \in Nat /\ outstanding[v] + 1 \in Nat
  BY <1>0 DEF AmountsOK
<1>3. /\ outstanding' \in [Validators -> Nat]
      /\ SumFunction(outstanding) \in Int
      /\ SumFunction(outstanding)'
           = SumFunction(outstanding) + ((outstanding[v] + 1) - outstanding[v])
  BY <1>0, <1>1, <1>2, OutstandingMoves
<1>4. AmountsOK'
  BY <1>0, <1>1, <1>3 DEF AmountsOK
<1>5. SumFunction(outstanding)' = SumFunction(outstanding) + 1
  BY <1>2, <1>3
<1>6. paid \in Nat /\ pool \in Nat /\ allocated \in Nat
  BY <1>0 DEF AmountsOK
<1>7. Surplus' = 0
  BY <1>0, <1>1, <1>3, <1>5, <1>6 DEF Surplus
<1>. QED  BY <1>0, <1>1, <1>4, <1>7, BalancedRInv

\* What cannot be paid is donated before the record is made anew.  If that
\* fails after the donation, what was donated stays outstanding.
LEMMA DonateRInv ==
  ASSUME RInv, NEW v \in Validators, ReinitValidator(v)
  PROVE  RInv'
<1>0. AmountsOK /\ Surplus = 0 /\ "created" \notin ignored
  BY BalancedBefore, LateNames DEF ReinitValidator, Step
<1>1. paid' = paid /\ allocated' = allocated
  BY DEF ReinitValidator
<1>2. /\ outstanding[v] \in Nat /\ paid \in Nat /\ pool \in Nat /\ allocated \in Nat
      /\ SumFunction(outstanding) \in Int
  <2>1. outstanding = [outstanding EXCEPT ![v] = outstanding[v]] /\ outstanding[v] \in Nat
    BY <1>0 DEF AmountsOK
  <2>2. outstanding \in [Validators -> Int] /\ IsFiniteSet(Validators)
    BY <1>0, ExportAssumption DEF AmountsOK
  <2>3. SumFunction(outstanding) \in Int
    BY <2>1, <2>2, SumFunctionMoves
  <2>. QED  BY <1>0, <2>1, <2>3 DEF AmountsOK
<1>3. CASE /\ pool' = pool + outstanding[v] /\ AfterValidatorCreated(v)
           /\ IF todo = {v} THEN Proceed("redelegations", {}) ELSE Proceed(phase, todo \ {v})
  <2>1. outstanding' = [outstanding EXCEPT ![v] = 0] /\ ignored' = ignored
    BY <1>3 DEF AfterValidatorCreated, Proceed
  <2>2. /\ outstanding' \in [Validators -> Nat]
        /\ SumFunction(outstanding)' = SumFunction(outstanding) + (0 - outstanding[v])
    BY <1>0, <2>1, OutstandingMoves
  <2>3. AmountsOK'
    BY <1>1, <1>2, <1>3, <2>2 DEF AmountsOK
  <2>4. Surplus' = 0
    BY <1>0, <1>1, <1>2, <1>3, <2>2 DEF Surplus
  <2>. QED  BY <1>0, <2>1, <2>3, <2>4, BalancedRInv
<1>4. CASE /\ pool' = pool + outstanding[v]
           /\ Ignore("created") /\ AfterValidatorCreatedFails(v)
           /\ Goto("redelegations", {})
  <2>1. /\ outstanding' = outstanding /\ "created" \in ignored' /\ phase' \in Late
        /\ pool' = pool + outstanding[v]
    BY <1>4, LateNames DEF AfterValidatorCreatedFails, Ignore, Goto
  <2>2. AmountsOK'
    BY <1>0, <1>1, <1>2, <2>1 DEF AmountsOK
  <2>3. Surplus' = outstanding'[v]
    BY <1>0, <1>1, <1>2, <2>1 DEF Surplus
  <2>4. RewardsConserved'
    BY <2>1, <2>3 DEF RewardsConserved
  <2>. QED  BY <2>1, <2>2, <2>4 DEF RInv, CreatedIsLate
<1>5. CASE /\ Ignore("reinit") /\ Goto("redelegations", {})
           /\ UNCHANGED <<period, refs, outstanding, pool>>
  <2>1. "created" \notin ignored'
    BY <1>0, <1>5 DEF Ignore
  <2>2. AmountsOK' /\ Surplus' = 0
    BY <1>0, <1>1, <1>5 DEF AmountsOK, Surplus
  <2>. QED  BY <2>1, <2>2, BalancedRInv
<1>. QED  BY <1>3, <1>4, <1>5 DEF ReinitValidator

\* Every other step leaves the amounts alone.  It keeps what is late late, or
\* begins an export, or imports a state that counts nothing twice.
LEMMA AmountsKept ==
  ASSUME RInv, UNCHANGED amounts,
         \/ /\ "created" \in ignored' <=> "created" \in ignored
            /\ phase \in Late => phase' \in Late
         \/ "created" \notin ignored' /\ Surplus = 0
  PROVE  RInv'
<1>1. AmountsOK' /\ Surplus' = Surplus /\ outstanding' = outstanding
  BY DEF RInv, AmountsOK, Surplus, amounts
<1>2. CASE /\ "created" \in ignored' <=> "created" \in ignored
           /\ phase \in Late => phase' \in Late
  BY <1>1, <1>2 DEF RInv, RewardsConserved, CreatedIsLate
<1>3. CASE "created" \notin ignored' /\ Surplus = 0
  BY <1>1, <1>3, BalancedRInv
<1>. QED  BY <1>2, <1>3

LEMMA NextRInv == RInv /\ [Next]_vars => RInv'
<1>. SUFFICES ASSUME RInv, [Next]_vars PROVE RInv'
  OBVIOUS
<1>1. ASSUME NEW list \in SUBSET Addresses, StartExport(list) PROVE RInv'
  <2>1. Surplus = 0
    BY <1>1, BalancedBefore, LateNames DEF StartExport
  <2>. QED  BY <1>1, <2>1, AmountsKept DEF StartExport, distr, amounts
<1>2. ASSUME NEW v \in Validators, WithdrawCommission(v) PROVE RInv'
  BY <1>2, PayRInv, LateNames DEF WithdrawCommission, Step, Proceed
<1>3. ASSUME NEW v \in Validators, ReinitValidator(v) PROVE RInv'
  BY <1>3, DonateRInv
<1>4. ASSUME NEW d \in Delegators, NEW v \in Validators, WithdrawRewards(d, v) PROVE RInv'
  <2>1. /\ pool' = pool /\ allocated' = allocated /\ phase = "rewards" /\ phase' = phase
        /\ "created" \in ignored' <=> "created" \in ignored
    BY <1>4 DEF WithdrawRewards, Step, Goto, Ignore
  <2>2. CASE Pay(v)
    BY <2>1, <2>2, PayRInv, LateNames
  <2>3. CASE UNCHANGED <<start, outstanding, paid>>
    BY <2>1, <2>3, AmountsKept DEF amounts
  <2>. QED  BY <1>4, <2>2, <2>3 DEF WithdrawRewards
<1>5. ASSUME NEW d \in Delegators, NEW v \in Validators, ReinitDelegation(d, v) PROVE RInv'
  BY <1>5, AmountsKept DEF ReinitDelegation, Step, Proceed, Goto, amounts
<1>6. CASE EndRewards \/ ClearHistory
  BY <1>6, AmountsKept, LateNames DEF EndRewards, ClearHistory, Proceed, Goto, distr, amounts
<1>7. CASE ApplyValidatorSetUpdates \/ ResetBondHeights
  BY <1>7, AmountsKept, LateNames
  DEF ApplyValidatorSetUpdates, ResetBondHeights, Proceed, Goto, Ignore, distr, amounts
<1>8. CASE ResetRedelegations \/ ResetUnbondings \/ ResetSigningInfos
  BY <1>8, AmountsKept, LateNames
  DEF ResetRedelegations, ResetUnbondings, ResetSigningInfos, ReturnError, Proceed, Goto,
      distr, amounts
<1>9. CASE Import
  BY <1>9, AmountsKept DEF Import, distr, amounts
<1>10. CASE NextBlock
  BY <1>10, AmountsKept DEF NextBlock, distr, amounts
<1>11. ASSUME NEW v \in Validators, Allocate(v) PROVE RInv'
  BY <1>11, AllocateRInv
<1>12. ASSUME NEW v \in Validators, SlashAndJail(v) \/ Unjail(v) PROVE RInv'
  BY <1>12, AmountsKept DEF SlashAndJail, Unjail, distr, control, amounts
<1>13. ASSUME NEW d \in Delegators, NEW v \in Validators, Delegate(d, v) PROVE RInv'
  BY <1>13, AmountsKept DEF Delegate, control, amounts
<1>14. ASSUME NEW d \in Delegators, NEW v \in Validators, Withdraw(d, v) \/ Undelegate(d, v)
       PROVE  RInv'
  BY <1>14, PayRInv, LateNames DEF Withdraw, Undelegate, Live, control
<1>15. CASE UNCHANGED vars
  BY <1>15, AmountsKept DEF vars, distr, control, amounts
<1>16. CASE Export
  BY <1>1, <1>2, <1>3, <1>4, <1>5, <1>6, <1>7, <1>8, <1>9, <1>16 DEF Export
<1>. QED  BY <1>10, <1>11, <1>12, <1>13, <1>14, <1>15, <1>16 DEF Next

-----------------------------------------------------------------------------
(***************************************************************************)
(* Theorems                                                                *)
(***************************************************************************)
\* An export that prepForZeroHeightGenesis completes has jailed exactly the
\* validators that were jailed before and, if its list is not empty, those that
\* the list leaves out: nobody it names, whatever else it names, and whichever
\* errors it ignored on the way.
THEOREM ExportJailsByList == Spec => []JailRespectsList
<1>1. ZInv => JailRespectsList
  <2>. SUFFICES ASSUME ZInv, phase = "done", NEW v \in Validators
                PROVE  v \in jailed <=> v \in jailedBefore \/ (allowed # {} /\ v \notin allowed)
    BY DEF JailRespectsList
  <2>1. jailed = jailedBefore \cup JailedByList
    BY DEF ZInv, JailProgress, AfterBondHeights
  <2>2. v \in JailedByList <=> allowed # {} /\ v \notin allowed
    BY DEF JailedByList
  <2>. QED  BY <2>1, <2>2
<1>. QED  BY <1>1, SpecZInv, PTL

\* A completed export that dropped no error of re-initialising the validators
\* or of iter.Close has reset every height and every reward record, even if
\* withdrawals failed, and however often the chain was exported before.
THEOREM ExportStartsFresh == Spec => []FreshStart
<1>1. ZInv => FreshStart
  <2>. SUFFICES ASSUME ZInv, phase = "done", ignored \subseteq {"rewards"} PROVE Reset
    BY DEF FreshStart
  <2>1. {"reinit", "created"} \cap ignored = {} /\ "close" \notin ignored
    OBVIOUS
  <2>2. \A v \in Validators : Fresh(v) /\ slashEvents[v] = {}
    BY <2>1 DEF ZInv, ValidatorsProgress, AfterValidators, AfterRedelegations,
                AfterUnbondings, AfterBondHeights
  <2>3. /\ redelegations \subseteq {0} /\ unbondings \subseteq {0}
        /\ \A v \in Validators : unbondingHeight[v] = 0 /\ startHeight[v] = 0
    BY <2>1 DEF ZInv, HeightsProgress, AfterRedelegations, AfterUnbondings, AfterBondHeights
  <2>. QED  BY <2>2, <2>3 DEF Reset, Fresh
<1>. QED  BY <1>1, SpecZInv, PTL

\* Withdrawals of commissions and rewards, allocations and the donation of what
\* is left to the community pool neither create nor lose rewards, for any number
\* of validators, exports and ignored errors, but for the one error that leaves
\* the rewards of one validator in the export twice, which no chain imports.
THEOREM RewardsAreConserved == Spec => []RewardsConserved
<1>1. RInv => RewardsConserved
  BY DEF RInv
<1>. QED  BY <1>1, InitRInv, NextRInv, PTL DEF Spec
=============================================================================
