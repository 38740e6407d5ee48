------------------------ MODULE InPlaceTestnet_proofs ------------------------
(***************************************************************************)
(* Proofs about InPlaceTestnet, for every validator set of the live chain, *)
(* every operator, key and list of accounts that the command is given, and *)
(* however often it is given.                                              *)
(*                                                                         *)
(* The inductive invariant PInv says for each step of initAppForTestnet    *)
(* what the steps before it have emptied, so that nothing depends on the   *)
(* state the command found: the indexes of the new validator are complete  *)
(* (Installed) from AddValidator on.                                       *)
(***************************************************************************)
EXTENDS InPlaceTestnet, TLAPS

\* A store has these collections.
Shape(s) ==
  s = [validators |-> s.validators, power |-> s.power, last |-> s.last,
       queue |-> s.queue, byCons |-> s.byCons, signing |-> s.signing,
       rewards |-> s.rewards, funded |-> s.funded]

Consistent(s) ==
  /\ s.power \cup s.last \cup s.queue \subseteq DOMAIN s.validators
  /\ \A v \in DOMAIN s.validators :
       /\ s.validators[v].key \in DOMAIN s.byCons
       /\ s.byCons[s.validators[v].key] = v

\* The validator of the command and no other.
Installed ==
  /\ DOMAIN store.validators = {args.operator}
  /\ store.validators[args.operator] = [key |-> args.key, jailed |-> FALSE]
  /\ store.power = {args.operator} /\ store.last = {args.operator}
  /\ store.queue = {}
  /\ args.key \in DOMAIN store.byCons /\ store.byCons[args.key] = args.operator

PInv ==
  /\ Shape(store) /\ Shape(committed) /\ Consistent(committed)
  /\ phase \in {"last", "validators", "queue", "add"} => store.power = {}
  /\ phase \in {"validators", "queue", "add"} => store.last = {}
  /\ phase \in {"queue", "add"} => DOMAIN store.validators = {}
  /\ phase = "add" => store.queue = {}
  /\ phase \in {"distribution", "fund", "begin", "end", "halted"} => Installed
  /\ phase \in {"fund", "begin", "end", "halted"} => args.operator \in store.rewards
  /\ HaltsForTwoReasons

LEMMA InitPInv == Init => PInv
<1>. HAVE Init
<1>1. PICK bonded \in SUBSET OldOperators : committed = LiveStore(bonded)
  BY DEF Init
<1>2. Shape(committed)
  BY <1>1 DEF LiveStore, Shape
<1>3. Consistent(committed)
  BY <1>1 DEF LiveStore, Consistent
<1>. QED  BY <1>2, <1>3 DEF Init, PInv, HaltsForTwoReasons

LEMMA NextPInv == PInv /\ [Next]_vars => PInv'
<1>. SUFFICES ASSUME PInv, [Next]_vars PROVE PInv'
  OBVIOUS
<1>. USE DEF HaltsForTwoReasons, HasPower
<1>0. Shape(store) /\ Shape(committed) /\ Consistent(committed)
  BY DEF PInv
<1>1. ASSUME NEW o \in Operators, NEW k \in Keys, NEW f \in FundFlags, Start(o, k, f)
      PROVE  PInv'
  BY <1>1 DEF Start, PInv
<1>2. CASE RemoveFromPower
  <2>1. Shape(store') /\ store'.power = {}
    BY <1>0, <1>2 DEF RemoveFromPower, Step, Shape
  <2>. QED  BY <1>0, <1>2, <2>1 DEF RemoveFromPower, Step, PInv
<1>3. CASE RemoveFromLast
  <2>1. Shape(store') /\ store'.last = {} /\ store'.power = store.power
    BY <1>0, <1>3 DEF RemoveFromLast, Step, Shape
  <2>. QED  BY <1>0, <1>3, <2>1 DEF RemoveFromLast, Step, PInv
<1>4. CASE RemoveValidators
  <2>1. /\ Shape(store') /\ store'.last = store.last /\ store'.power = store.power
        /\ store'.validators = Restricted(store.validators, {})
    BY <1>0, <1>4 DEF RemoveValidators, Step, Shape
  <2>2. DOMAIN store'.validators = {}
    BY <2>1 DEF Restricted
  <2>. QED  BY <1>0, <1>4, <2>1, <2>2 DEF RemoveValidators, Step, PInv
<1>5. CASE RemoveFromQueue
  <2>1. /\ Shape(store') /\ store'.last = store.last /\ store'.power = store.power
        /\ store'.validators = store.validators /\ store'.queue = {}
    BY <1>0, <1>5 DEF RemoveFromQueue, Step, Shape
  <2>. QED  BY <1>0, <1>5, <2>1 DEF RemoveFromQueue, Step, PInv
<1>6. CASE AddValidator
  <2>. DEFINE rec == [key |-> args.key, jailed |-> FALSE]
              val == Extended(store.validators, args.operator, rec)
              idx == Extended(store.byCons, args.key, args.operator)
  <2>1. /\ phase = "add" /\ phase' = "distribution"
        /\ UNCHANGED <<reduction, committed, args, next, runs, blocks>>
        /\ store' = [store EXCEPT !.validators = val, !.byCons = idx,
                                  !.power = @ \cup {args.operator},
                                  !.last = @ \cup {args.operator}]
    BY <1>6 DEF AddValidator, Step
  <2>2. /\ store.power = {} /\ store.last = {} /\ store.queue = {}
        /\ DOMAIN store.validators = {}
    BY <2>1 DEF PInv
  <2>3. DOMAIN val = {args.operator} /\ val[args.operator] = rec
    BY <2>2 DEF Extended
  <2>4. args.key \in DOMAIN idx /\ idx[args.key] = args.operator
    BY DEF Extended
  <2>. HIDE DEF val, idx, rec
  <2>5. /\ Shape(store') /\ store'.validators = val /\ store'.byCons = idx
        /\ store'.power = {args.operator} /\ store'.last = {args.operator}
        /\ store'.queue = {}
    BY <1>0, <2>1, <2>2 DEF Shape
  <2>6. Installed'
    BY <2>1, <2>3, <2>4, <2>5 DEF Installed, rec
  <2>. QED  BY <1>0, <2>1, <2>5, <2>6 DEF PInv
<1>7. CASE InitializeRewards
  <2>1. /\ phase = "distribution" /\ phase' = "fund"
        /\ UNCHANGED <<reduction, committed, args, next, runs, blocks>>
        /\ store' = [store EXCEPT !.rewards = @ \cup {args.operator}]
    BY <1>7 DEF InitializeRewards, Step
  <2>2. /\ Shape(store') /\ store'.validators = store.validators
        /\ store'.byCons = store.byCons /\ store'.power = store.power
        /\ store'.last = store.last /\ store'.queue = store.queue
        /\ args.operator \in store'.rewards
    BY <1>0, <2>1 DEF Shape
  <2>3. Installed'
    BY <2>1, <2>2 DEF PInv, Installed
  <2>. QED  BY <1>0, <2>1, <2>2, <2>3 DEF PInv
<1>8. CASE FundAccount
  <2>1. /\ phase = "fund" /\ phase' = "fund"
        /\ UNCHANGED <<reduction, committed, args, runs, blocks>>
        /\ store' = [store EXCEPT !.funded = @ + 1]
    BY <1>8 DEF FundAccount
  <2>2. /\ Shape(store') /\ store'.validators = store.validators
        /\ store'.byCons = store.byCons /\ store'.power = store.power
        /\ store'.last = store.last /\ store'.queue = store.queue
        /\ store'.rewards = store.rewards
    BY <1>0, <2>1 DEF Shape
  <2>3. Installed'
    BY <2>1, <2>2 DEF PInv, Installed
  <2>. QED  BY <1>0, <2>1, <2>2, <2>3 DEF PInv
<1>9. CASE FundFails
  BY <1>0, <1>9 DEF FundFails, PInv
<1>10. CASE StartNode
  BY <1>0, <1>10 DEF StartNode, PInv, Installed
<1>11. CASE BeginBlock
  <2>1. /\ phase = "begin" /\ phase' = IF BeginBlockSucceeds THEN "end" ELSE "halted"
        /\ UNCHANGED <<reduction, committed, store, args, next, runs, blocks>>
    BY <1>11 DEF BeginBlock
  <2>2. Installed /\ args.operator \in store.rewards
    BY <2>1 DEF PInv
  <2>3. BeginBlockSucceeds <=> args.key \in store.signing
    BY <2>2 DEF BeginBlockSucceeds, Known, Installed
  <2>4. Installed'
    BY <2>1, <2>2 DEF Installed
  <2>. QED  BY <1>0, <2>1, <2>2, <2>3, <2>4 DEF PInv
<1>12. CASE EndBlock
  <2>1. /\ phase = "end" /\ UNCHANGED <<reduction, args, next, runs>>
        /\ IF EndBlockSucceeds
           THEN /\ store' = [store EXCEPT !.last = store.power]
                /\ committed' = store' /\ phase' = "begin"
           ELSE phase' = "halted" /\ UNCHANGED <<committed, store>>
    BY <1>12 DEF EndBlock
  <2>2. Installed /\ args.operator \in store.rewards
    BY <2>1 DEF PInv
  <2>3. CASE ~ EndBlockSucceeds
    <3>1. ~ HasPower
      BY <2>2, <2>3 DEF EndBlockSucceeds, Installed
    <3>2. Installed'
      BY <2>1, <2>2, <2>3 DEF Installed
    <3>. QED  BY <1>0, <2>1, <2>2, <2>3, <3>1, <3>2 DEF PInv
  <2>4. CASE EndBlockSucceeds
    <3>1. /\ Shape(store') /\ store'.validators = store.validators
          /\ store'.byCons = store.byCons /\ store'.power = store.power
          /\ store'.last = store.power /\ store'.queue = store.queue
          /\ store'.rewards = store.rewards
      BY <1>0, <2>1, <2>4 DEF Shape
    <3>2. Installed'
      BY <2>1, <2>2, <3>1 DEF Installed
    <3>3. Consistent(store')
      BY <2>2, <3>1 DEF Installed, Consistent
    <3>. QED  BY <1>0, <2>1, <2>2, <2>4, <3>1, <3>2, <3>3 DEF PInv
  <2>. QED  BY <2>3, <2>4
<1>13. CASE Stop
  BY <1>0, <1>13 DEF Stop, PInv
<1>14. CASE UNCHANGED vars
  BY <1>14 DEF vars, PInv, Installed
<1>. QED
  BY <1>1, <1>2, <1>3, <1>4, <1>5, <1>6, <1>7, <1>8, <1>9, <1>10, <1>11, <1>12, <1>13,
     <1>14 DEF Next

LEMMA SpecPInv == Spec => []PInv
BY InitPInv, NextPInv, PTL DEF Spec

\* From the first block on, every index that x/staking reads leads to the new
\* validator alone, also when the command was stopped half way before or was
\* given for a chain that it had converted already.
THEOREM OldSetGone == Spec => []OldSetIsGone
<1>1. PInv => OldSetIsGone
  BY DEF PInv, OldSetIsGone, Converted, Installed, Known
<1>. QED  BY <1>1, SpecPInv, PTL

\* No record that the command left behind or left out stops the testnet: it
\* halts for want of a signing info or of voting power only.
THEOREM OnlyTwoReasonsToHalt == Spec => []HaltsForTwoReasons
<1>1. PInv => HaltsForTwoReasons
  BY DEF PInv
<1>. QED  BY <1>1, SpecPInv, PTL

\* The state is converted as a whole or not at all.
THEOREM CommittedStaysConsistent == Spec => []CommittedIsConsistent
<1>1. PInv => CommittedIsConsistent
  BY DEF PInv, Consistent, CommittedIsConsistent
<1>. QED  BY <1>1, SpecPInv, PTL
=============================================================================
