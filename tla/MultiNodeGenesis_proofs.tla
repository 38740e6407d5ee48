----------------------- MODULE MultiNodeGenesis_proofs -----------------------
(***************************************************************************)
(* Proofs about MultiNodeGenesis, for any number of nodes, any flags and   *)
(* any number of runs, each of which may fail anywhere and leave its files *)
(* to the next.                                                            *)
(*                                                                         *)
(* Why leftovers do no harm: an account is named after the run that made   *)
(* its key, so a file of an earlier run names an account that the genesis  *)
(* of this run does not have, and a file that was cut short names none.    *)
(* The inductive invariant MInv keeps, beside the progress of the loops,   *)
(* that every file with an account of this run is the gentx of its node.   *)
(***************************************************************************)
EXTENDS MultiNodeGenesis, TLAPS

\* A run in progress or one that has succeeded.
Live == Running \/ phase = "done"

\* The nodes whose gentx has been written, ...
Written == IF phase \in {"node", "key", "gentx"} THEN 0..(i - 1) ELSE Active

\* ... whose directory has all gentxs, ...
Complete ==
  CASE phase = "copy"               -> 0..(i - 1)
    [] phase \in {"collect", "done"} -> Active
    [] OTHER                        -> {}

\* ... whose genesis is that of InitGenFiles, ...
Based ==
  CASE phase = "genesis" -> 0..(i - 1)
    [] phase = "copy"    -> Active
    [] phase = "collect" -> i..(args.n - 1)
    [] OTHER             -> {}

\* ... and whose genesis is final.
Collected ==
  CASE phase = "collect" -> 0..(i - 1)
    [] phase = "done"    -> Active
    [] OTHER             -> {}

FinalGenesis ==
  [chain    |-> run,
   accounts |-> {Account(k) : k \in Active},
   gentxs   |-> {Gentx(k) : k \in Active}]

\* Directory j has the gentx of node k under its name.
Has(j, k) ==
  /\ Gentx(k) \in dirs[j].gentxs
  /\ \A f \in dirs[j].gentxs : f.name = Name(k) => f = Gentx(k)

DirsShape ==
  /\ dirs = [j \in Nodes |-> dirs[j]]
  /\ \A j \in Nodes :
       dirs[j] = [key |-> dirs[j].key, gentxs |-> dirs[j].gentxs,
                  genesis |-> dirs[j].genesis]

FilesNameKnownRuns ==
  \A j \in Nodes : \A f \in dirs[j].gentxs :
    f.account = NoAccount \/ f.account \in Nodes \X (0..run)

FilesOfThisRun ==
  \A j \in Nodes : \A f \in dirs[j].gentxs : \A k \in Active :
    f.account = Account(k) => k \in Written /\ f = Gentx(k)

MInv ==
  /\ DirsShape
  /\ args.n \in 1..MaxNodes /\ run \in Nat /\ i \in Nat
  /\ FilesNameKnownRuns
  /\ Running => i \in Active
  /\ Live =>
       /\ run > 0
       /\ FilesOfThisRun
       /\ accounts = {Account(k) : k \in IF phase = "gentx" THEN 0..i ELSE Written}
       /\ \A k \in Written : Has(k, k)
       /\ \A j \in Complete, k \in Active : Has(j, k)
       /\ \A j \in Based : dirs[j].genesis = BaseGenesis
       /\ \A j \in Collected : dirs[j].genesis = FinalGenesis
       /\ appState = IF phase = "done" \/ (phase = "collect" /\ i > 0)
                     THEN FinalGenesis ELSE NoGenesis
-----------------------------------------------------------------------------
(***************************************************************************)
(* What a step leaves alone keeps its name and its contents.               *)
(***************************************************************************)
LEMMA TokensKept ==
  ASSUME NEW k, args' = args
  PROVE  valTokens(k)' = valTokens(k)
<1>1. validatorsStakesAmount' = validatorsStakesAmount
  BY DEF validatorsStakesAmount
<1>. QED  BY <1>1 DEF valTokens

LEMMA NamesKept ==
  ASSUME NEW k, args' = args, run' = run, dirs'[k].key = dirs[k].key
  PROVE  Name(k)' = Name(k) /\ Account(k)' = Account(k) /\ Gentx(k)' = Gentx(k)
BY TokensKept DEF Name, Account, Gentx

LEMMA ActiveNodes ==
  ASSUME MInv
  PROVE  /\ Active \subseteq Nodes /\ Active # {} /\ 0 \in Active /\ args.n \in Nat
         /\ Live => Written \subseteq Active /\ Complete \subseteq Active
         /\ Running => i \in Active /\ i \in Nodes
<1>1. args.n \in 1..MaxNodes /\ MaxNodes \in Nat /\ i \in Nat /\ (Running => i \in Active)
  BY MultiNodeAssumption DEF MInv
<1>2. Active \subseteq Nodes /\ Active # {} /\ 0 \in Active /\ args.n \in Nat
  BY <1>1 DEF Active, Nodes
<1>3. Live => Written \subseteq Active
  BY <1>1 DEF Live, Running, Written, Active
<1>4. Live => Complete \subseteq Active
  BY <1>1 DEF Live, Running, Complete, Active
<1>. QED  BY <1>1, <1>2, <1>3, <1>4

LEMMA FilesKept ==
  ASSUME MInv, args' = args, run' = run,
         \A j \in Nodes : dirs'[j].gentxs = dirs[j].gentxs /\ dirs'[j].key = dirs[j].key
  PROVE  /\ FilesNameKnownRuns'
         /\ \A j \in Nodes, k \in Active : Has(j, k) => Has(j, k)'
         /\ Live /\ Written' = Written => FilesOfThisRun'
<1>1. Active' = Active /\ Active \subseteq Nodes
  BY ActiveNodes DEF Active
<1>2. \A k \in Active : /\ Name(k)' = Name(k) /\ Account(k)' = Account(k)
                        /\ Gentx(k)' = Gentx(k)
  BY <1>1, NamesKept
<1>3. FilesNameKnownRuns'
  BY DEF MInv, FilesNameKnownRuns, Nodes
<1>4. \A j \in Nodes, k \in Active : Has(j, k) => Has(j, k)'
  BY <1>2 DEF Has
<1>5. ASSUME Live, Written' = Written PROVE FilesOfThisRun'
  <2>. SUFFICES ASSUME NEW j \in Nodes, NEW f \in dirs'[j].gentxs, NEW k \in Active,
                       f.account = Account(k)'
                PROVE  k \in Written /\ f = Gentx(k)'
    BY <1>1, <1>5 DEF FilesOfThisRun, Nodes
  <2>1. f \in dirs[j].gentxs /\ f.account = Account(k)
    BY <1>2
  <2>2. FilesOfThisRun
    BY <1>5 DEF MInv
  <2>. QED  BY <1>2, <2>1, <2>2 DEF FilesOfThisRun
<1>. QED  BY <1>3, <1>4, <1>5

LEMMA PutFiles ==
  ASSUME NEW files, NEW new, NEW f
  PROVE  f \in Put(files, new) <=>
           f \in new \/ (f \in files /\ \A g \in new : g.name # f.name)
BY DEF Put

\* The file that is copied is the gentx of its node.
LEMMA OriginalIsGentx ==
  ASSUME NEW k, Has(k, k)
  PROVE  Original(k) = Gentx(k)
<1>1. Gentx(k).name = Name(k)
  BY DEF Gentx
<1>. QED  BY <1>1 DEF Has, Original

\* A directory that has all gentxs and passes CollectTxs has nothing else.
LEMMA CollectedFiles ==
  ASSUME MInv, phase = "collect", NEW j \in Active, j \in Based, CollectTxs(j)
  PROVE  NodeAppState(j) = FinalGenesis
<1>1. /\ dirs[j].genesis = BaseGenesis /\ accounts = {Account(k) : k \in Active}
      /\ \A k \in Active : Has(j, k)
      /\ FilesOfThisRun /\ j \in Nodes
  BY ActiveNodes DEF MInv, Live, Running, Complete, Written
<1>2. \A f \in dirs[j].gentxs : f \in {Gentx(k) : k \in Active}
  <2>. TAKE f \in dirs[j].gentxs
  <2>1. f.account \in accounts
    BY <1>1 DEF CollectTxs, BaseGenesis
  <2>2. PICK k \in Active : f.account = Account(k)
    BY <1>1, <2>1
  <2>3. f = Gentx(k)
    BY <1>1, <2>2 DEF FilesOfThisRun
  <2>. QED  BY <2>3
<1>3. dirs[j].gentxs = {Gentx(k) : k \in Active}
  BY <1>1, <1>2 DEF Has
<1>4. NodeAppState(j) = [BaseGenesis EXCEPT !.gentxs = {Gentx(k) : k \in Active}]
  BY <1>1, <1>3 DEF NodeAppState
<1>5. BaseGenesis = [chain |-> run, accounts |-> {Account(k) : k \in Active}, gentxs |-> {}]
  BY <1>1 DEF BaseGenesis
<1>. QED  BY <1>4, <1>5 DEF FinalGenesis

LEMMA InitMInv == Init => MInv
<1>. HAVE Init
<1>1. DirsShape /\ FilesNameKnownRuns
  BY DEF Init, DirsShape, EmptyDir, FilesNameKnownRuns
<1>2. args.n \in 1..MaxNodes /\ run \in Nat /\ i \in Nat /\ ~ Running /\ ~ Live
  BY MultiNodeAssumption DEF Init, Running, Live
<1>. QED  BY <1>1, <1>2 DEF MInv

(***************************************************************************)
(* One field of one directory is written.                                  *)
(***************************************************************************)
LEMMA KeyWritten ==
  ASSUME DirsShape, NEW n \in Nodes, NEW x, dirs' = [dirs EXCEPT ![n].key = x]
  PROVE  /\ DirsShape'
         /\ \A j \in Nodes \ {n} : dirs'[j] = dirs[j]
         /\ dirs'[n].key = x
         /\ dirs'[n].gentxs = dirs[n].gentxs /\ dirs'[n].genesis = dirs[n].genesis
<1>1. dirs' = [j \in Nodes |-> IF j = n THEN [dirs[n] EXCEPT !.key = x] ELSE dirs[j]]
  BY DEF DirsShape
<1>. QED  BY <1>1 DEF DirsShape, Nodes

LEMMA GentxsWritten ==
  ASSUME DirsShape, NEW n \in Nodes, NEW x, dirs' = [dirs EXCEPT ![n].gentxs = x]
  PROVE  /\ DirsShape'
         /\ \A j \in Nodes \ {n} : dirs'[j] = dirs[j]
         /\ dirs'[n].gentxs = x
         /\ dirs'[n].key = dirs[n].key /\ dirs'[n].genesis = dirs[n].genesis
<1>1. dirs' = [j \in Nodes |-> IF j = n THEN [dirs[n] EXCEPT !.gentxs = x] ELSE dirs[j]]
  BY DEF DirsShape
<1>. QED  BY <1>1 DEF DirsShape, Nodes

LEMMA GenesisWritten ==
  ASSUME DirsShape, NEW n \in Nodes, NEW x, dirs' = [dirs EXCEPT ![n].genesis = x]
  PROVE  /\ DirsShape'
         /\ \A j \in Nodes \ {n} : dirs'[j] = dirs[j]
         /\ dirs'[n].genesis = x
         /\ dirs'[n].key = dirs[n].key /\ dirs'[n].gentxs = dirs[n].gentxs
<1>1. dirs' = [j \in Nodes |-> IF j = n THEN [dirs[n] EXCEPT !.genesis = x] ELSE dirs[j]]
  BY DEF DirsShape
<1>. QED  BY <1>1 DEF DirsShape, Nodes

-----------------------------------------------------------------------------
(***************************************************************************)
(* MInv is inductive: one lemma per action.                                *)
(***************************************************************************)
\* The accounts of the files are older than the new run.
LEMMA StartMInv ==
  ASSUME MInv, NEW n \in 1..MaxNodes, NEW stakes, NEW ports, Start(n, stakes, ports)
  PROVE  MInv'
<1>1. /\ DirsShape /\ run \in Nat /\ FilesNameKnownRuns
      /\ dirs' = dirs /\ run' = run + 1 /\ i' = 0 /\ phase' = "node" /\ args'.n = n
      /\ accounts' = {} /\ appState' = NoGenesis
  BY DEF MInv, Start
<1>2. DirsShape' /\ args'.n \in 1..MaxNodes /\ run' \in Nat /\ i' \in Nat /\ run' > 0
  BY <1>1 DEF DirsShape, Nodes
<1>3. (Running => i \in Active)'
  BY <1>1, MultiNodeAssumption DEF Active
<1>4. FilesNameKnownRuns'
  BY <1>1 DEF FilesNameKnownRuns, Nodes
<1>5. Written' = {} /\ Complete' = {} /\ Based' = {} /\ Collected' = {}
  BY <1>1 DEF Written, Complete, Based, Collected
<1>6. FilesOfThisRun'
  <2>. SUFFICES ASSUME NEW j \in Nodes, NEW f \in dirs[j].gentxs, NEW k
                PROVE  f.account # Account(k)'
    BY <1>1 DEF FilesOfThisRun, Nodes
  <2>1. f.account = <<>> \/ f.account \in Nodes \X (0..run)
    BY <1>1 DEF FilesNameKnownRuns, NoAccount
  <2>2. Account(k)' = <<k, run + 1>>
    BY <1>1 DEF Account
  <2>3. <<>> # <<k, run + 1>>
    OBVIOUS
  <2>4. <<k, run + 1>> \notin Nodes \X (0..run)
    BY <1>1
  <2>. QED  BY <2>1, <2>2, <2>3, <2>4
<1>7. phase' # "gentx" /\ phase' # "done" /\ phase' # "collect"
  BY <1>1
<1>. QED  BY <1>1, <1>2, <1>3, <1>4, <1>5, <1>6, <1>7 DEF MInv

\* The key of node i may be new; its gentx has not been written yet.
LEMMA InitializeNodeMInv ==
  ASSUME MInv, InitializeNodeValidatorFiles
  PROVE  MInv'
<1>1. /\ phase = "node" /\ phase' = "key" /\ Live /\ Running
      /\ args' = args /\ i' = i /\ run' = run /\ accounts' = accounts
      /\ appState' = appState
  BY DEF InitializeNodeValidatorFiles, Live, Running
<1>2. DirsShape /\ i \in Nodes /\ i \in Nat /\ Active \subseteq Nodes /\ Written \subseteq Active
  BY <1>1, ActiveNodes DEF MInv
<1>3. PICK x : dirs' = [dirs EXCEPT ![i].key = x]
  BY <1>2 DEF InitializeNodeValidatorFiles
<1>4. /\ DirsShape' /\ \A j \in Nodes \ {i} : dirs'[j] = dirs[j]
      /\ dirs'[i].gentxs = dirs[i].gentxs
  BY <1>2, <1>3, KeyWritten
<1>5. Active' = Active /\ Nodes' = Nodes
  BY <1>1 DEF Active, Nodes
<1>6. /\ Written = 0..(i - 1) /\ Written' = 0..(i - 1) /\ Complete' = {} /\ Based' = {}
      /\ Collected' = {} /\ (\A k \in Written : k # i)
  BY <1>1, <1>2 DEF Written, Complete, Based, Collected
<1>7. \A k : Account(k)' = Account(k)
  BY <1>1 DEF Account
<1>8. \A k \in Written : Name(k)' = Name(k) /\ Gentx(k)' = Gentx(k)
  <2>. TAKE k \in Written
  <2>1. dirs'[k].key = dirs[k].key
    BY <1>2, <1>4, <1>6
  <2>. QED  BY <1>1, <2>1, NamesKept
<1>9. FilesNameKnownRuns'
  BY <1>1, <1>4 DEF MInv, FilesNameKnownRuns, Nodes
<1>10. FilesOfThisRun'
  <2>. SUFFICES ASSUME NEW j \in Nodes, NEW f \in dirs'[j].gentxs, NEW k \in Active,
                       f.account = Account(k)'
                PROVE  k \in Written' /\ f = Gentx(k)'
    BY <1>5 DEF FilesOfThisRun
  <2>1. f \in dirs[j].gentxs /\ f.account = Account(k) /\ FilesOfThisRun
    BY <1>1, <1>4, <1>7 DEF MInv
  <2>2. k \in Written /\ f = Gentx(k)
    BY <2>1 DEF FilesOfThisRun
  <2>. QED  BY <1>6, <1>8, <2>2
<1>11. \A k \in Written : Has(k, k)'
  <2>. TAKE k \in Written
  <2>1. dirs'[k].gentxs = dirs[k].gentxs /\ Has(k, k)
    BY <1>1, <1>2, <1>4 DEF MInv
  <2>. QED  BY <1>8, <2>1 DEF Has
<1>12. accounts = {Account(k) : k \in Written} /\ appState = NoGenesis /\ run > 0
  BY <1>1 DEF MInv
<1>. QED
  BY <1>1, <1>2, <1>4, <1>5, <1>6, <1>7, <1>9, <1>10, <1>11, <1>12 DEF MInv

LEMMA GenerateSaveCoinKeyMInv ==
  ASSUME MInv, GenerateSaveCoinKey
  PROVE  MInv'
<1>1. /\ phase = "key" /\ phase' = "gentx" /\ Live /\ Running /\ dirs' = dirs
      /\ args' = args /\ i' = i /\ run' = run /\ accounts' = accounts \cup {Account(i)}
      /\ appState' = appState
  BY DEF GenerateSaveCoinKey, Live, Running
<1>2. /\ DirsShape /\ i \in Nodes /\ i \in Active /\ i \in Nat
      /\ Active \subseteq Nodes /\ Written \subseteq Active
  BY <1>1, ActiveNodes DEF MInv
<1>3. Active' = Active /\ DirsShape'
  BY <1>1, <1>2 DEF Active, DirsShape, Nodes
<1>4. /\ Written = 0..(i - 1) /\ Written' = Written /\ Complete' = {} /\ Based' = {}
      /\ Collected' = {}
  BY <1>1, <1>2 DEF Written, Complete, Based, Collected
<1>5. /\ FilesNameKnownRuns' /\ FilesOfThisRun'
      /\ \A j \in Nodes, k \in Active : Has(j, k) => Has(j, k)'
  BY <1>1, <1>4, FilesKept
<1>6. \A k \in Written : Has(k, k)'
  BY <1>1, <1>2, <1>5 DEF MInv
<1>7. accounts' = {Account(k)' : k \in 0..i}
  <2>1. accounts = {Account(k) : k \in 0..(i - 1)} /\ 0..i = (0..(i - 1)) \cup {i}
    BY <1>1, <1>2, <1>4 DEF MInv
  <2>. QED  BY <1>1, <2>1 DEF Account
<1>8. appState = NoGenesis /\ run > 0
  BY <1>1 DEF MInv
<1>. QED
  BY <1>1, <1>2, <1>3, <1>4, <1>5, <1>6, <1>7, <1>8 DEF MInv

\* Two nodes never share a name or an account.
LEMMA NamesDiffer ==
  ASSUME NEW j, NEW k
  PROVE  /\ Name(j) = Name(k) => j = k
         /\ Account(j) = Account(k) => j = k
         /\ Gentx(k).name = Name(k) /\ Gentx(k).account = Account(k)
BY DEF Name, Account, Gentx

\* Files of a directory after gentxs of this run were put there.
LEMMA GentxsPut ==
  ASSUME MInv, Live, args' = args, run' = run, i \in Nodes,
         NEW K \in SUBSET Active,
         dirs' = [dirs EXCEPT ![i].gentxs = Put(@, {Gentx(k) : k \in K})]
  PROVE  /\ DirsShape' /\ FilesNameKnownRuns'
         /\ \A j \in Nodes : dirs'[j].genesis = dirs[j].genesis
         /\ \A k \in Active : /\ Name(k)' = Name(k) /\ Account(k)' = Account(k)
                              /\ Gentx(k)' = Gentx(k)
         /\ \A j \in Nodes, k \in Active :
              \/ Has(j, k)
              \/ j = i /\ k \in K
              => Has(j, k)'
         /\ Written' = Written \cup K => FilesOfThisRun'
<1>. DEFINE new == {Gentx(k) : k \in K}
<1>1. DirsShape /\ Active \subseteq Nodes /\ Active' = Active /\ run \in Nat
  BY ActiveNodes DEF MInv, Active
<1>2. dirs' = [dirs EXCEPT ![i].gentxs = Put(dirs[i].gentxs, new)]
  OBVIOUS
<1>3. /\ DirsShape' /\ \A j \in Nodes \ {i} : dirs'[j] = dirs[j]
      /\ dirs'[i].gentxs = Put(dirs[i].gentxs, new)
      /\ dirs'[i].key = dirs[i].key /\ dirs'[i].genesis = dirs[i].genesis
  <2>. HIDE DEF new
  <2>. QED  BY <1>1, <1>2, GentxsWritten
<1>4. \A j \in Nodes : dirs'[j].genesis = dirs[j].genesis /\ dirs'[j].key = dirs[j].key
  BY <1>3
<1>5. \A k \in Active : /\ Name(k)' = Name(k) /\ Account(k)' = Account(k)
                        /\ Gentx(k)' = Gentx(k)
  BY <1>1, <1>4, NamesKept
<1>6. \A j \in Nodes : \A f \in dirs'[j].gentxs : f \in dirs[j].gentxs \/ (j = i /\ f \in new)
  <2>. TAKE j \in Nodes
  <2>. TAKE f \in dirs'[j].gentxs
  <2>. HIDE DEF new
  <2>. QED  BY <1>3, PutFiles
<1>7. FilesNameKnownRuns'
  <2>. SUFFICES ASSUME NEW j \in Nodes, NEW f \in dirs'[j].gentxs
                PROVE  f.account = NoAccount \/ f.account \in Nodes \X (0..run)
    BY DEF FilesNameKnownRuns, Nodes, NoAccount
  <2>1. CASE f \in dirs[j].gentxs
    BY <2>1 DEF MInv, FilesNameKnownRuns
  <2>2. ASSUME NEW k \in K, f = Gentx(k) PROVE f.account \in Nodes \X (0..run)
    BY <1>1, <2>2 DEF Gentx, Account
  <2>. QED  BY <1>6, <2>1, <2>2
<1>8. ASSUME NEW j \in Nodes, NEW k \in Active, Has(j, k) \/ (j = i /\ k \in K)
      PROVE  Has(j, k)'
  <2>1. CASE j # i
    BY <1>3, <1>5, <1>8, <2>1 DEF Has
  <2>2. CASE j = i
    <3>1. Gentx(k) \in Put(dirs[i].gentxs, new)
      <4>1. CASE k \in K
        BY <4>1, PutFiles
      <4>2. CASE k \notin K
        <5>1. Gentx(k) \in dirs[i].gentxs
          BY <1>8, <2>2, <4>2 DEF Has
        <5>2. \A g \in new : g.name # Gentx(k).name
          BY <4>2, NamesDiffer
        <5>. HIDE DEF new
        <5>. QED  BY <5>1, <5>2, PutFiles
      <4>. QED  BY <4>1, <4>2
    <3>2. ASSUME NEW f \in Put(dirs[i].gentxs, new), f.name = Name(k)
          PROVE  f = Gentx(k)
      <4>1. CASE f \in new
        <5>1. PICK h \in K : f = Gentx(h)
          BY <4>1
        <5>2. h = k
          BY <3>2, <5>1, NamesDiffer
        <5>. QED  BY <5>1, <5>2
      <4>2. CASE f \notin new
        <5>1. f \in dirs[i].gentxs /\ \A g \in new : g.name # f.name
          <6>. HIDE DEF new
          <6>. QED  BY <3>2, <4>2, PutFiles
        <5>2. k \notin K
          BY <3>2, <5>1, NamesDiffer
        <5>. QED  BY <1>8, <2>2, <3>2, <5>1, <5>2 DEF Has
      <4>. QED  BY <4>1, <4>2
    <3>. QED  BY <1>3, <1>5, <2>2, <3>1, <3>2 DEF Has
  <2>. QED  BY <2>1, <2>2
<1>9. ASSUME Written' = Written \cup K PROVE FilesOfThisRun'
  <2>. SUFFICES ASSUME NEW j \in Nodes, NEW f \in dirs'[j].gentxs, NEW k \in Active,
                       f.account = Account(k)'
                PROVE  k \in Written' /\ f = Gentx(k)'
    BY <1>1 DEF FilesOfThisRun, Nodes
  <2>0. f.account = Account(k)
    BY <1>5
  <2>1. CASE f \in dirs[j].gentxs
    BY <1>5, <1>9, <2>0, <2>1 DEF MInv, FilesOfThisRun
  <2>2. ASSUME NEW h \in K, f = Gentx(h) PROVE k \in Written' /\ f = Gentx(k)'
    <3>1. h = k
      BY <2>0, <2>2, NamesDiffer
    <3>. QED  BY <1>5, <1>9, <2>2, <3>1
  <2>. QED  BY <1>6, <2>1, <2>2
<1>. QED  BY <1>3, <1>4, <1>5, <1>7, <1>8, <1>9

LEMMA WriteGentxMInv ==
  ASSUME MInv, WriteGentx
  PROVE  MInv'
<1>1. /\ phase = "gentx" /\ Live /\ Running
      /\ args' = args /\ run' = run /\ accounts' = accounts /\ appState' = appState
      /\ IF i + 1 < args.n THEN phase' = "node" /\ i' = i + 1
                           ELSE phase' = "genesis" /\ i' = 0
  BY DEF WriteGentx, NextNode, Live, Running
<1>2. /\ i \in Nodes /\ i \in Active /\ i \in Nat /\ args.n \in Nat /\ 0 \in Active
      /\ Active \subseteq Nodes /\ Written \subseteq Active
  BY <1>1, ActiveNodes DEF MInv
<1>3. /\ Active' = Active /\ i' \in Active /\ i' \in Nat
      /\ Written = 0..(i - 1) /\ Written' = 0..i
      /\ Written' = Written \cup {i} /\ Complete' = {} /\ Based' = {} /\ Collected' = {}
  BY <1>1, <1>2 DEF Active, Written, Complete, Based, Collected
<1>4. dirs' = [dirs EXCEPT ![i].gentxs = Put(@, {Gentx(k) : k \in {i}})]
  <2>1. {Gentx(k) : k \in {i}} = {Gentx(i)}
    OBVIOUS
  <2>. QED  BY <2>1 DEF WriteGentx
<1>5. /\ DirsShape' /\ FilesNameKnownRuns' /\ FilesOfThisRun'
      /\ \A k \in Active : Account(k)' = Account(k)
      /\ \A j \in Nodes, k \in Active : Has(j, k) \/ (j = i /\ k \in {i}) => Has(j, k)'
  <2>1. {i} \in SUBSET Active
    BY <1>2
  <2>. QED  BY <1>1, <1>2, <1>3, <1>4, <2>1, GentxsPut
<1>6. \A k \in Written' : Has(k, k)'
  BY <1>1, <1>2, <1>3, <1>5 DEF MInv
<1>7. accounts = {Account(k) : k \in 0..i} /\ appState = NoGenesis /\ run > 0
  BY <1>1 DEF MInv
<1>8. accounts' = {Account(k)' : k \in Written'}
  BY <1>1, <1>3, <1>7 DEF Account
<1>9. phase' # "gentx" /\ phase' # "done" /\ phase' # "collect"
  BY <1>1
<1>. QED  BY <1>1, <1>3, <1>5, <1>6, <1>7, <1>8, <1>9 DEF MInv

LEMMA InitGenFilesMInv ==
  ASSUME MInv, InitGenFiles
  PROVE  MInv'
<1>1. /\ phase = "genesis" /\ Live /\ Running
      /\ args' = args /\ run' = run /\ accounts' = accounts /\ appState' = appState
      /\ dirs' = [dirs EXCEPT ![i].genesis = BaseGenesis]
      /\ IF i + 1 < args.n THEN phase' = "genesis" /\ i' = i + 1
                           ELSE phase' = "copy" /\ i' = 0
  BY DEF InitGenFiles, NextNode, Live, Running
<1>2. /\ i \in Nodes /\ i \in Active /\ i \in Nat /\ args.n \in Nat /\ 0 \in Active
      /\ Active \subseteq Nodes /\ DirsShape
  BY <1>1, ActiveNodes DEF MInv
<1>3. /\ Active' = Active /\ i' \in Active /\ i' \in Nat
      /\ Written = Active /\ Written' = Active /\ Complete' = {} /\ Collected' = {}
      /\ Based = 0..(i - 1) /\ Based' = 0..i
  BY <1>1, <1>2 DEF Active, Written, Complete, Based, Collected
<1>4. /\ DirsShape' /\ dirs'[i].genesis = BaseGenesis
      /\ \A j \in Nodes \ {i} : dirs'[j] = dirs[j]
      /\ dirs'[i].gentxs = dirs[i].gentxs /\ dirs'[i].key = dirs[i].key
  BY <1>1, <1>2, GenesisWritten
<1>5. /\ FilesNameKnownRuns' /\ FilesOfThisRun'
      /\ \A j \in Nodes, k \in Active : Has(j, k) => Has(j, k)'
  BY <1>1, <1>3, <1>4, FilesKept
<1>6. \A k \in Written' : Has(k, k)'
  BY <1>1, <1>2, <1>3, <1>5 DEF MInv
<1>7. BaseGenesis' = BaseGenesis
  BY <1>1 DEF BaseGenesis
<1>8. \A j \in Based' : (dirs[j].genesis = BaseGenesis)'
  <2>. SUFFICES ASSUME NEW j \in 0..i PROVE dirs'[j].genesis = BaseGenesis
    BY <1>3, <1>7
  <2>1. j \in Nodes /\ (j # i => j \in Based)
    BY <1>2, <1>3 DEF Active
  <2>. QED  BY <1>1, <1>4, <2>1 DEF MInv
<1>9. accounts = {Account(k) : k \in Active} /\ appState = NoGenesis /\ run > 0
  BY <1>1, <1>3 DEF MInv
<1>10. accounts' = {Account(k)' : k \in Written'}
  BY <1>1, <1>3, <1>9 DEF Account
<1>11. phase' # "gentx" /\ phase' # "done" /\ phase' # "collect"
  BY <1>1
<1>. QED  BY <1>1, <1>3, <1>4, <1>5, <1>6, <1>8, <1>9, <1>10, <1>11 DEF MInv

LEMMA CopyGentxsMInv ==
  ASSUME MInv, CopyGentxs
  PROVE  MInv'
<1>1. /\ phase = "copy" /\ Live /\ Running
      /\ args' = args /\ run' = run /\ accounts' = accounts /\ appState' = appState
      /\ dirs' = [dirs EXCEPT ![i].gentxs = Put(@, Copies)]
      /\ IF i + 1 < args.n THEN phase' = "copy" /\ i' = i + 1
                           ELSE phase' = "collect" /\ i' = 0
  BY DEF CopyGentxs, NextNode, Live, Running
<1>2. /\ i \in Nodes /\ i \in Active /\ i \in Nat /\ args.n \in Nat /\ 0 \in Active
      /\ Active \subseteq Nodes
  BY <1>1, ActiveNodes DEF MInv
<1>3. /\ Active' = Active /\ i' \in Active /\ i' \in Nat
      /\ Written = Active /\ Written' = Active /\ Collected' = {}
      /\ Complete = 0..(i - 1) /\ Complete' = 0..i
      /\ Based = Active /\ Based' = Active
      /\ (phase' = "collect" => i' = 0)
  BY <1>1, <1>2 DEF Active, Written, Complete, Based, Collected
<1>4. Copies = {Gentx(k) : k \in Active \ {i}}
  <2>1. \A k \in Active : Original(k) = Gentx(k)
    BY <1>1, <1>3, OriginalIsGentx DEF MInv
  <2>. QED  BY <2>1 DEF Copies
<1>5. /\ DirsShape' /\ FilesNameKnownRuns' /\ FilesOfThisRun'
      /\ \A j \in Nodes : dirs'[j].genesis = dirs[j].genesis
      /\ \A j \in Nodes, k \in Active :
           Has(j, k) \/ (j = i /\ k \in Active \ {i}) => Has(j, k)'
  <2>1. Active \ {i} \in SUBSET Active /\ Written' = Written \cup (Active \ {i})
    BY <1>3
  <2>2. dirs' = [dirs EXCEPT ![i].gentxs = Put(@, {Gentx(k) : k \in Active \ {i}})]
    BY <1>1, <1>4
  <2>. QED  BY <1>1, <1>2, <2>1, <2>2, GentxsPut
<1>6. \A k \in Written : Has(k, k)
  BY <1>1 DEF MInv
<1>7. \A k \in Written' : Has(k, k)'
  BY <1>2, <1>3, <1>5, <1>6
<1>8. \A j \in Complete', k \in Active : Has(j, k)'
  <2>. SUFFICES ASSUME NEW j \in 0..i, NEW k \in Active PROVE Has(j, k)'
    BY <1>3
  <2>1. j \in Nodes /\ (j # i => j \in Complete)
    BY <1>2, <1>3 DEF Active
  <2>2. CASE j # i
    BY <1>1, <1>5, <2>1, <2>2 DEF MInv
  <2>3. CASE j = i
    BY <1>2, <1>3, <1>5, <1>6, <2>3
  <2>. QED  BY <2>2, <2>3
<1>9. \A j \in Based' : (dirs[j].genesis = BaseGenesis)'
  <2>1. BaseGenesis' = BaseGenesis /\ \A j \in Based : dirs[j].genesis = BaseGenesis
    BY <1>1 DEF MInv, BaseGenesis
  <2>. QED  BY <1>2, <1>3, <1>5, <2>1
<1>10. accounts = {Account(k) : k \in Active} /\ appState = NoGenesis /\ run > 0
  BY <1>1, <1>3 DEF MInv
<1>11. accounts' = {Account(k)' : k \in Written'}
  BY <1>1, <1>3, <1>10 DEF Account
<1>12. phase' # "gentx" /\ phase' # "done" /\ ~(phase' = "collect" /\ i' > 0)
  BY <1>1
<1>. QED  BY <1>1, <1>3, <1>5, <1>7, <1>8, <1>9, <1>10, <1>11, <1>12 DEF MInv

\* The first node computes the final genesis; for the others it is that one.
LEMMA CollectGenFilesMInv ==
  ASSUME MInv, CollectGenFiles
  PROVE  MInv'
<1>1. /\ phase = "collect" /\ CollectTxs(i) /\ Live /\ Running
      /\ args' = args /\ run' = run /\ accounts' = accounts
      /\ appState' = IF appState = NoGenesis THEN NodeAppState(i) ELSE appState
      /\ dirs' = [dirs EXCEPT ![i].genesis = appState']
      /\ IF i + 1 < args.n THEN phase' = "collect" /\ i' = i + 1
                           ELSE phase' = "done" /\ i' = 0
  BY DEF CollectGenFiles, NextNode, Live, Running
<1>2. /\ i \in Nodes /\ i \in Active /\ i \in Nat /\ args.n \in Nat /\ 0 \in Active
      /\ Active \subseteq Nodes /\ DirsShape
  BY <1>1, ActiveNodes DEF MInv
<1>3. /\ Active' = Active /\ i' \in Active /\ i' \in Nat
      /\ Written = Active /\ Written' = Active
      /\ Complete = Active /\ Complete' = Active
      /\ Based = i..(args.n - 1) /\ Collected = 0..(i - 1) /\ Collected' = 0..i
      /\ Based' \subseteq (i + 1)..(args.n - 1)
  BY <1>1, <1>2 DEF Active, Written, Complete, Based, Collected
<1>4. appState' = FinalGenesis
  <2>1. i \in Based
    BY <1>2, <1>3 DEF Active
  <2>2. NodeAppState(i) = FinalGenesis
    BY <1>1, <1>2, <2>1, CollectedFiles
  <2>3. appState = FinalGenesis \/ appState = NoGenesis
    BY <1>1 DEF MInv
  <2>. QED  BY <1>1, <2>2, <2>3
<1>5. /\ DirsShape' /\ dirs'[i].genesis = FinalGenesis
      /\ \A j \in Nodes \ {i} : dirs'[j] = dirs[j]
      /\ dirs'[i].gentxs = dirs[i].gentxs /\ dirs'[i].key = dirs[i].key
  BY <1>1, <1>2, <1>4, GenesisWritten
<1>6. /\ FilesNameKnownRuns' /\ FilesOfThisRun'
      /\ \A j \in Nodes, k \in Active : Has(j, k) => Has(j, k)'
  BY <1>1, <1>3, <1>5, FilesKept
<1>7. \A j, k \in Active : Has(j, k)'
  BY <1>1, <1>2, <1>3, <1>6 DEF MInv
<1>8. FinalGenesis' = FinalGenesis /\ BaseGenesis' = BaseGenesis
  <2>1. \A k \in Active : Account(k)' = Account(k) /\ Gentx(k)' = Gentx(k)
    BY <1>1, <1>2, <1>5, NamesKept
  <2>. QED  BY <1>1, <1>3, <2>1 DEF FinalGenesis, BaseGenesis
<1>9. \A j \in Based' : (dirs[j].genesis = BaseGenesis)'
  <2>. SUFFICES ASSUME NEW j \in (i + 1)..(args.n - 1)
                PROVE  dirs'[j].genesis = BaseGenesis
    BY <1>3, <1>8
  <2>1. j \in Nodes \ {i} /\ j \in Based
    BY <1>2, <1>3 DEF Active
  <2>. QED  BY <1>1, <1>5, <2>1 DEF MInv
<1>10. \A j \in Collected' : (dirs[j].genesis = FinalGenesis)'
  <2>. SUFFICES ASSUME NEW j \in 0..i PROVE dirs'[j].genesis = FinalGenesis
    BY <1>3, <1>8
  <2>1. j \in Nodes /\ (j # i => j \in Collected)
    BY <1>2, <1>3 DEF Active
  <2>. QED  BY <1>1, <1>5, <2>1 DEF MInv
<1>11. accounts = {Account(k) : k \in Active} /\ run > 0
  BY <1>1, <1>3 DEF MInv
<1>12. accounts' = {Account(k)' : k \in Written'}
  BY <1>1, <1>3, <1>11 DEF Account
<1>13. phase' # "gentx" /\ (phase' = "done" \/ (phase' = "collect" /\ i' > 0))
  BY <1>1, <1>2
<1>. QED
  BY <1>1, <1>3, <1>4, <1>5, <1>6, <1>7, <1>8, <1>9, <1>10, <1>11, <1>12, <1>13 DEF MInv

\* A run that has failed promises only what the next one starts from.
LEMMA FailedMInv ==
  ASSUME MInv, args' = args, run' = run, i' = i, phase' = "failed",
         DirsShape', FilesNameKnownRuns'
  PROVE  MInv'
<1>1. ~ Running' /\ ~ Live'
  BY DEF Running, Live
<1>2. args.n \in 1..MaxNodes /\ run \in Nat /\ i \in Nat
  BY DEF MInv
<1>. QED  BY <1>1, <1>2 DEF MInv

LEMMA FailInWriteMInv ==
  ASSUME MInv, FailInWrite
  PROVE  MInv'
<1>1. /\ phase \in {"gentx", "copy"} /\ phase' = "failed" /\ Running /\ Live
      /\ args' = args /\ run' = run /\ i' = i
  BY DEF FailInWrite, Running, Live
<1>2. /\ i \in Nodes /\ i \in Active /\ Active \subseteq Nodes /\ DirsShape
      /\ run \in Nat /\ FilesNameKnownRuns
  BY <1>1, ActiveNodes DEF MInv
<1>3. PICK S \in SUBSET (IF phase = "gentx" THEN {Gentx(i)} ELSE Copies) :
        \E f \in S :
          dirs' = [dirs EXCEPT ![i].gentxs = Put(@, (S \ {f}) \cup {CutShort(f)})]
  BY DEF FailInWrite
<1>4. PICK f \in S :
        dirs' = [dirs EXCEPT ![i].gentxs = Put(@, (S \ {f}) \cup {CutShort(f)})]
  BY <1>3
<1>5. \A g \in S : \E k \in Active : g = Gentx(k)
  <2>1. CASE phase = "gentx"
    BY <1>2, <1>3, <2>1
  <2>2. CASE phase = "copy"
    <3>1. \A k \in Active : Original(k) = Gentx(k)
      BY <1>1, <2>2, OriginalIsGentx DEF MInv, Written
    <3>. QED  BY <1>3, <2>2, <3>1 DEF Copies
  <2>. QED  BY <1>1, <2>1, <2>2
<1>6. \A g \in S : g.account \in Nodes \X (0..run)
  BY <1>2, <1>5 DEF Gentx, Account
<1>7. CutShort(f).account = NoAccount
  BY <1>3, <1>5 DEF CutShort, Gentx
<1>. DEFINE new == (S \ {f}) \cup {CutShort(f)}
<1>8. \A g \in new : g.account = NoAccount \/ g.account \in Nodes \X (0..run)
  BY <1>6, <1>7
<1>. HIDE DEF new
<1>9. /\ DirsShape' /\ \A j \in Nodes \ {i} : dirs'[j] = dirs[j]
      /\ dirs'[i].gentxs = Put(dirs[i].gentxs, new)
  <2>1. dirs' = [dirs EXCEPT ![i].gentxs = Put(dirs[i].gentxs, new)]
    BY <1>4 DEF new
  <2>. QED  BY <1>2, <2>1, GentxsWritten
<1>10. FilesNameKnownRuns'
  <2>. SUFFICES ASSUME NEW j \in Nodes, NEW g \in dirs'[j].gentxs
                PROVE  g.account = NoAccount \/ g.account \in Nodes \X (0..run)
    BY <1>1 DEF FilesNameKnownRuns, Nodes, NoAccount
  <2>1. g \in dirs[j].gentxs \/ g \in new
    BY <1>9, PutFiles
  <2>. QED  BY <1>2, <1>8, <2>1 DEF FilesNameKnownRuns
<1>. QED  BY <1>1, <1>9, <1>10, FailedMInv

LEMMA NextMInv == MInv /\ [Next]_vars => MInv'
<1>. SUFFICES ASSUME MInv, [Next]_vars PROVE MInv'
  OBVIOUS
<1>. USE DEF Next
<1>1. ASSUME NEW n \in 1..MaxNodes, NEW stakes \in StakeFlags, NEW ports \in PortFlags,
             Start(n, stakes, ports)
      PROVE  MInv'
  BY <1>1, StartMInv
<1>2. CASE InitializeNodeValidatorFiles
  BY <1>2, InitializeNodeMInv
<1>3. CASE GenerateSaveCoinKey
  BY <1>3, GenerateSaveCoinKeyMInv
<1>4. CASE WriteGentx
  BY <1>4, WriteGentxMInv
<1>5. CASE InitGenFiles
  BY <1>5, InitGenFilesMInv
<1>6. CASE CopyGentxs
  BY <1>6, CopyGentxsMInv
<1>7. CASE CollectGenFiles
  BY <1>7, CollectGenFilesMInv
<1>8. CASE CollectFails \/ FailAndLeave
  <2>1. /\ dirs' = dirs /\ args' = args /\ run' = run /\ i' = i /\ phase' = "failed"
    BY <1>8 DEF CollectFails, FailAndLeave
  <2>2. DirsShape' /\ FilesNameKnownRuns'
    BY <2>1 DEF MInv, DirsShape, FilesNameKnownRuns, Nodes
  <2>. QED  BY <2>1, <2>2, FailedMInv
<1>9. CASE FailAndRemove
  <2>1. /\ dirs' = [j \in Nodes |-> EmptyDir]
        /\ args' = args /\ run' = run /\ i' = i /\ phase' = "failed"
    BY <1>9 DEF FailAndRemove
  <2>2. DirsShape' /\ FilesNameKnownRuns'
    BY <2>1 DEF DirsShape, FilesNameKnownRuns, Nodes, EmptyDir
  <2>. QED  BY <2>1, <2>2, FailedMInv
<1>10. CASE FailInWrite
  BY <1>10, FailInWriteMInv
<1>11. CASE UNCHANGED vars
  <2>1. /\ dirs' = dirs /\ args' = args /\ phase' = phase /\ i' = i /\ run' = run
        /\ accounts' = accounts /\ appState' = appState
    BY <1>11 DEF vars
  <2>2. /\ Active' = Active /\ Written' = Written /\ Complete' = Complete
        /\ Based' = Based /\ Collected' = Collected /\ Running' = Running /\ Live' = Live
    BY <2>1 DEF Active, Written, Complete, Based, Collected, Running, Live
  <2>3. \A k : /\ Account(k)' = Account(k) /\ Name(k)' = Name(k) /\ Gentx(k)' = Gentx(k)
    BY <2>1, NamesKept
  <2>4. /\ FinalGenesis' = FinalGenesis /\ BaseGenesis' = BaseGenesis
        /\ DirsShape' = DirsShape /\ \A j, k : Has(j, k)' = Has(j, k)
    BY <2>1, <2>2, <2>3 DEF FinalGenesis, BaseGenesis, DirsShape, Has, Nodes
  <2>5. FilesNameKnownRuns' /\ (Live => FilesOfThisRun')
    BY <2>1, <2>2, FilesKept
  <2>6. accounts = {Account(k) : k \in IF phase = "gentx" THEN 0..i ELSE Written} =>
          (accounts = {Account(k) : k \in IF phase = "gentx" THEN 0..i ELSE Written})'
    BY <2>1, <2>2 DEF Account
  <2>. QED  BY <2>1, <2>2, <2>4, <2>5, <2>6 DEF MInv
<1>. QED
  BY <1>1, <1>2, <1>3, <1>4, <1>5, <1>6, <1>7, <1>8, <1>9, <1>10, <1>11

LEMMA SpecMInv == Spec => []MInv
BY InitMInv, NextMInv, PTL DEF Spec
-----------------------------------------------------------------------------
(***************************************************************************)
(* Theorems                                                                *)
(***************************************************************************)
\* Whatever arguments the command is given, however often, and wherever the
\* earlier runs failed: when initTestnetFiles reports success, all nodes have
\* the same genesis, which holds the accounts and gentxs of this run only.
THEOREM SuccessGivesOneGenesis == Spec => []SameGenesis
<1>1. MInv => SameGenesis
  <2>. SUFFICES ASSUME MInv, phase = "done", NEW j \in Active
                PROVE  dirs[j].genesis = FinalGenesis
    BY DEF SameGenesis, FinalGenesis
  <2>1. j \in Collected
    BY DEF Collected
  <2>. QED  BY <2>1 DEF MInv, Live
<1>. QED  BY <1>1, SpecMInv, PTL

\* The state that collectGenFiles takes from the first directory is the one
\* that it would have taken from any other.
THEOREM FirstAppStateStandsForAll == Spec => []AppStatesDoNotDiffer
<1>1. MInv => AppStatesDoNotDiffer
  <2>. SUFFICES ASSUME MInv, phase = "collect", appState # NoGenesis,
                       NEW j \in i..(args.n - 1), CollectTxs(j)
                PROVE  NodeAppState(j) = appState
    BY DEF AppStatesDoNotDiffer
  <2>1. appState = FinalGenesis
    BY DEF MInv, Live, Running
  <2>2. j \in Based /\ j \in Active
    BY DEF MInv, Based, Active
  <2>. QED  BY <2>1, <2>2, CollectedFiles
<1>. QED  BY <1>1, SpecMInv, PTL

\* The default ports of initTestnetFiles are distinct for any network of up
\* to 3887 nodes.  The bound is exact: node 3887 would have its gRPC server
\* on the API port of node 1.  (The API port of node 1317 is already 0.)  The
\* three ports in steps of 3 differ by their remainders, the others by range.
THEOREM DefaultPortsDiffer == MaxNodes <= 3887 => (Spec => []PortsDistinct)
<1>. SUFFICES ASSUME MaxNodes <= 3887 PROVE Spec => []PortsDistinct
  OBVIOUS
<1>1. MInv => PortsDistinct
  <2>. SUFFICES ASSUME MInv, args.ports = <<>>, NEW j \in Active, NEW k \in Active,
                       NEW s \in DOMAIN Ports(j), NEW t \in DOMAIN Ports(j),
                       Ports(j)[s] = Ports(k)[t]
                PROVE  j = k /\ s = t
    BY DEF PortsDistinct
  <2>1. j \in 0..3886 /\ k \in 0..3886
    <3>1. args.n \in 1..MaxNodes /\ MaxNodes \in Nat
      BY MultiNodeAssumption DEF MInv
    <3>2. j \in 0..(args.n - 1) /\ k \in 0..(args.n - 1)
      BY DEF Active
    <3>3. \A n \in 1..MaxNodes : 0..(n - 1) \subseteq 0..3886
      BY <3>1
    <3>. QED  BY <3>1, <3>2, <3>3
  <2>2. s \in {1, 2, 3, 4, 5, 6} /\ t \in {1, 2, 3, 4, 5, 6}
    BY DEF Ports
  <2>. DEFINE a1 == 26657 - 3 * j  b1 == 26657 - 3 * k
              a2 == 26656 - 3 * j  b2 == 26656 - 3 * k
              a3 == 26658 - 3 * j  b3 == 26658 - 3 * k
              a4 == 26660 + j  b4 == 26660 + k
              a5 == 9090 - 2 * j  b5 == 9090 - 2 * k
              a6 == 1317 - j  b6 == 1317 - k
  <2>3. /\ j # k => /\ a1 # b1 /\ a2 # b2 /\ a3 # b3 /\ a4 # b4 /\ a5 # b5 /\ a6 # b6
        /\ a1 # b2 /\ a1 # b3 /\ a1 # b4 /\ a1 # b5 /\ a1 # b6
        /\ a2 # b1 /\ a2 # b3 /\ a2 # b4 /\ a2 # b5 /\ a2 # b6
        /\ a3 # b1 /\ a3 # b2 /\ a3 # b4 /\ a3 # b5 /\ a3 # b6
        /\ a4 # b1 /\ a4 # b2 /\ a4 # b3 /\ a4 # b5 /\ a4 # b6
        /\ a5 # b1 /\ a5 # b2 /\ a5 # b3 /\ a5 # b4 /\ a5 # b6
        /\ a6 # b1 /\ a6 # b2 /\ a6 # b3 /\ a6 # b4 /\ a6 # b5
    BY <2>1
  <2>. HIDE DEF a1, b1, a2, b2, a3, b3, a4, b4, a5, b5, a6, b6
  <2>4. Ports(j) = <<a1, a2, a3, a4, a5, a6>> /\ Ports(k) = <<b1, b2, b3, b4, b5, b6>>
    BY DEF Ports, RpcPort, ListenPort, a1, b1, a2, b2, a3, b3, a4, b4, a5, b5, a6, b6
  <2>5. CASE s = 1
    BY <2>3, <2>4, <2>2, <2>5
  <2>6. CASE s = 2
    BY <2>3, <2>4, <2>2, <2>6
  <2>7. CASE s = 3
    BY <2>3, <2>4, <2>2, <2>7
  <2>8. CASE s = 4
    BY <2>3, <2>4, <2>2, <2>8
  <2>9. CASE s = 5
    BY <2>3, <2>4, <2>2, <2>9
  <2>10. CASE s = 6
    BY <2>3, <2>4, <2>2, <2>10
  <2>. QED  BY <2>2, <2>5, <2>6, <2>7, <2>8, <2>9, <2>10
<1>. QED  BY <1>1, SpecMInv, PTL
=============================================================================
