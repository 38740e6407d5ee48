--------------------------- MODULE MultiNodeGenesis --------------------------
(***************************************************************************)
(* `monod multi-node` (src/cmd/monod/cmd/testnet_multi_node.go): prepares  *)
(* the directories of n validators that run on one machine.  It makes keys *)
(* and a gentx in every directory, saves a genesis without gentxs in all   *)
(* of them, copies every gentx to every directory and collects them into   *)
(* the final genesis.                                                      *)
(*                                                                         *)
(* The command may be interrupted or fail at any step and be given again,  *)
(* with other arguments, on the directories that it left behind.  Nodes    *)
(* are numbered from 0, as in the code.                                    *)
(***************************************************************************)
EXTENDS Integers, Sequences, FiniteSets

CONSTANTS
  MaxNodes,        \* bound: nodes
  MaxRuns,         \* bound: times the command is given
  StakeFlags,      \* the values of --validators-stake-amount, split at commas
  PortFlags,       \* the values of --list-ports, split at commas
  PowerReduction,  \* stake for one unit of power; 10^18 in the code
  FlagDefault      \* 100000000, the stake that flag and comment call default

\* An entry of the flag that is no number.
NotANumber == -1

ASSUME MultiNodeAssumption ==
  /\ MaxNodes \in Nat \ {0} /\ MaxRuns \in Nat
  /\ StakeFlags \subseteq Seq(Nat \cup {NotANumber}) /\ PortFlags \subseteq Seq(Nat)
  /\ PowerReduction \in Nat \ {0} /\ FlagDefault \in Nat

VARIABLES
  dirs,      \* the directory of each node
  args,      \* the arguments of the current run
  phase, i,  \* the loop it is in, and the node it has come to
  run,       \* number of the current run; it names the keys made in it
  accounts,  \* genAccounts and genBalances
  appState   \* the canonical application state

vars == <<dirs, args, phase, i, run, accounts, appState>>

Nodes  == 0..(MaxNodes - 1)
Active == 0..(args.n - 1)

(***************************************************************************)
(* A directory has a node key, which is made once and kept, a set of gentx *)
(* files and a genesis.  A gentx file is named after the key of its node;  *)
(* a file that was cut short names no account.                             *)
(***************************************************************************)
NoKey      == 0
NoGenesis  == [chain |-> 0, accounts |-> {}, gentxs |-> {}]
NoAccount  == <<>>
EmptyDir   == [key |-> NoKey, gentxs |-> {}, genesis |-> NoGenesis]

Name(j)    == <<j, dirs[j].key>>
Account(j) == <<j, run>>

Put(files, new) ==
  {f \in files : \A g \in new : g.name # f.name} \cup new
CutShort(f) == [f EXCEPT !.account = NoAccount]

(***************************************************************************)
(* Flags.  The entries that are numbers fill the map from 0 on.            *)
(***************************************************************************)
Numbers(entries) ==
  LET IsNumber(s) == s # NotANumber
  IN SelectSeq(entries, IsNumber)

validatorsStakesAmount == Numbers(args.stakes)

valTokens(j) ==
  IF j < Len(validatorsStakesAmount) THEN validatorsStakesAmount[j + 1]
                                     ELSE 100 * PowerReduction

\* Both coins of the list are in the bond denomination; a reader of the
\* balance finds the second.
AmountOf == 500 * PowerReduction

Gentx(j) == [name |-> Name(j), account |-> Account(j), stake |-> valTokens(j)]

\* Mutation: peer-to-peer ports in steps of 2.
ListenPortDense(j) == 26656 - 2 * j

ListenPort(j) == 26656 - 3 * j

NoPort == -1
RpcPort(j) ==
  CASE args.ports = <<>> -> 26657 - 3 * j
    [] args.ports # <<>> /\ j < Len(args.ports)  -> args.ports[j + 1]
    [] args.ports # <<>> /\ j >= Len(args.ports) -> NoPort

Ports(j) ==
  <<RpcPort(j), ListenPort(j), 26658 - 3 * j, 26660 + j, 9090 - 2 * j, 1317 - j>>

-----------------------------------------------------------------------------
Init ==
  /\ dirs = [j \in Nodes |-> EmptyDir]
  /\ args = [n |-> 1, stakes |-> <<>>, ports |-> <<>>]
  /\ phase = "idle" /\ i = 0 /\ run = 0 /\ accounts = {} /\ appState = NoGenesis

Running == phase \in {"node", "key", "gentx", "genesis", "copy", "collect"}

Start(n, stakes, ports) ==
  /\ ~ Running /\ run < MaxRuns
  /\ args' = [n |-> n, stakes |-> stakes, ports |-> ports]
  /\ phase' = "node" /\ i' = 0 /\ run' = run + 1
  /\ accounts' = {} /\ appState' = NoGenesis
  /\ UNCHANGED dirs

\* The next round of a loop over the nodes, or the phase after it.
NextNode(again, after) ==
  IF i + 1 < args.n THEN phase' = again /\ i' = i + 1
                    ELSE phase' = after /\ i' = 0

InitializeNodeValidatorFiles ==
  /\ phase = "node"
  /\ dirs' = [dirs EXCEPT ![i].key = IF @ = NoKey THEN run ELSE @]
  /\ phase' = "key"
  /\ UNCHANGED <<args, i, run, accounts, appState>>

\* Overwrites the key of an earlier run.
GenerateSaveCoinKey ==
  /\ phase = "key"
  /\ accounts' = accounts \cup {Account(i)}
  /\ phase' = "gentx"
  /\ UNCHANGED <<dirs, args, i, run, appState>>

WriteGentx ==
  /\ phase = "gentx"
  /\ dirs' = [dirs EXCEPT ![i].gentxs = Put(@, {Gentx(i)})]
  /\ NextNode("node", "genesis")
  /\ UNCHANGED <<args, run, accounts, appState>>

BaseGenesis == [chain |-> run, accounts |-> accounts, gentxs |-> {}]

InitGenFiles ==
  /\ phase = "genesis"
  /\ dirs' = [dirs EXCEPT ![i].genesis = BaseGenesis]
  /\ NextNode("genesis", "copy")
  /\ UNCHANGED <<args, run, accounts, appState>>

\* The gentx of node j, read from its own directory.
Original(j) == CHOOSE f \in dirs[j].gentxs : f.name = Name(j)

\* Mutation: only the gentxs of the nodes before this one are copied.
CopiesEarlier == {Original(j) : j \in 0..(i - 1)}

Copies == {Original(j) : j \in Active \ {i}}

CopyGentxs ==
  /\ phase = "copy"
  /\ dirs' = [dirs EXCEPT ![i].gentxs = Put(@, Copies)]
  /\ NextNode("copy", "collect")
  /\ UNCHANGED <<args, run, accounts, appState>>

\* genutil (external) reads every file of the directory and wants the account
\* of each in the genesis, with enough coins for its stake.
CollectTxs(j) ==
  \A f \in dirs[j].gentxs :
    f.account \in dirs[j].genesis.accounts /\ f.stake \in 1..AmountOf

\* Mutation: the state that was saved, not the one with the gentxs.
NodeAppStateSaved(j) == dirs[j].genesis

NodeAppState(j) == [dirs[j].genesis EXCEPT !.gentxs = dirs[j].gentxs]

CollectGenFiles ==
  /\ phase = "collect" /\ CollectTxs(i)
  /\ appState' = IF appState = NoGenesis THEN NodeAppState(i) ELSE appState
  /\ dirs' = [dirs EXCEPT ![i].genesis = appState']
  /\ NextNode("collect", "done")
  /\ UNCHANGED <<args, run, accounts>>

CollectFails ==
  /\ phase = "collect" /\ ~ CollectTxs(i)
  /\ phase' = "failed"
  /\ UNCHANGED <<dirs, args, i, run, accounts, appState>>

\* An error of the first two steps removes the whole output directory.
FailAndRemove ==
  /\ phase \in {"node", "key"}
  /\ dirs' = [j \in Nodes |-> EmptyDir]
  /\ phase' = "failed"
  /\ UNCHANGED <<args, i, run, accounts, appState>>

\* Any other error, or the end of the process, leaves everything as it is.
FailAndLeave ==
  /\ Running
  /\ phase' = "failed"
  /\ UNCHANGED <<dirs, args, i, run, accounts, appState>>

\* Writing a gentx fails half-way: the file is left cut short, after some of
\* the files that were to be copied.
FailInWrite ==
  /\ phase \in {"gentx", "copy"}
  /\ \E S \in SUBSET (IF phase = "gentx" THEN {Gentx(i)} ELSE Copies) :
       \E f \in S :
         dirs' = [dirs EXCEPT ![i].gentxs = Put(@, (S \ {f}) \cup {CutShort(f)})]
  /\ phase' = "failed"
  /\ UNCHANGED <<args, i, run, accounts, appState>>

Next ==
  \/ \E n \in 1..MaxNodes, stakes \in StakeFlags, ports \in PortFlags :
       Start(n, stakes, ports)
  \/ InitializeNodeValidatorFiles \/ GenerateSaveCoinKey \/ WriteGentx
  \/ InitGenFiles \/ CopyGentxs \/ CollectGenFiles \/ CollectFails
  \/ FailAndRemove \/ FailAndLeave \/ FailInWrite

Spec == Init /\ [][Next]_vars

-----------------------------------------------------------------------------
(***************************************************************************)
(* Properties                                                              *)
(***************************************************************************)
\* A run that reports success has given every node the same genesis, with the
\* account and the gentx of each node of this run and nothing else, whatever
\* earlier runs left in the directories (initTestnetFiles, collectGenFiles).
SameGenesis ==
  phase = "done" =>
    \A j \in Active :
      dirs[j].genesis = [chain    |-> run,
                         accounts |-> {Account(k) : k \in Active},
                         gentxs   |-> {Gentx(k) : k \in Active}]

\* The comment in collectGenFiles on the state that the first node computes:
\* "they should not differ".  No directory yields another one.
AppStatesDoNotDiffer ==
  phase = "collect" /\ appState # NoGenesis =>
    \A j \in i..(args.n - 1) : CollectTxs(j) => NodeAppState(j) = appState

\* With the default ports no two servers of the network listen on one port,
\* so that all nodes can run on one machine.
PortsDistinct ==
  phase = "done" /\ args.ports = <<>> =>
    \A j, k \in Active : \A s, t \in DOMAIN Ports(j) :
      Ports(j)[s] = Ports(k)[t] => j = k /\ s = t

\* The description of the command: the files are for running n validator
\* nodes.  x/staking starts a chain only if some validator has power.
NetworkCanStart ==
  phase = "done" => \E f \in dirs[0].genesis.gentxs : f.stake >= PowerReduction
=============================================================================
