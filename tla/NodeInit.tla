------------------------------ MODULE NodeInit ------------------------------
(***************************************************************************)
(* monod's commands on home directories: what init, start, export and the  *)
(* other commands read and write of client.toml, app.toml and              *)
(* genesis.json, one file access per step.  Commands on one home may       *)
(* overlap, fail and be killed; app.New follows AppWiring step by step.    *)
(*                                                                         *)
(* A chain id is a record: `base` is the text without surrounding blanks   *)
(* and `padded` says whether there are any.  Empty is the absent flag.     *)
(***************************************************************************)
EXTENDS AppWiring, Integers, FiniteSets

CONSTANTS
  Procs,               \* processes
  Homes, DefaultHome,  \* home directories, app.DefaultNodeHome among them
  ChainIDs,            \* values of --chain-id and --network-id
  Eip155,              \* base -> the number in it; its domain are the well-formed bases
  TooLong,             \* bases of more than 48 characters
  MaxUint64,           \* 2^64 - 1
  DefaultEVMChainID,
  Configured,          \* ids in the client.toml that a user may have in DefaultHome already
  Commands,            \* the command lines that are given
  MaxCommands          \* bound on their number

ASSUME NodeAssumption ==
  /\ DefaultHome \in Homes
  /\ MaxUint64 \in Nat /\ DefaultEVMChainID \in 1..MaxUint64
  /\ \A b \in DOMAIN Eip155 : Eip155[b] \in Nat \ {0}

VARIABLES
  client,    \* home -> chain-id in client.toml, or NoFile
  appToml,   \* home -> evm-chain-id in app.toml, or NoToml
  genesis,   \* home -> chain_id in genesis.json, or NoFile
  proc,      \* process -> where its command stands
  given,     \* number of commands given
  inits,     \* home -> the --network-id values of its init commands, those that
             \* resolveEVMChainID refused left out (history)
  wrote      \* home -> the --network-id values of the commands, of whatever kind,
             \* that found no app.toml (history)

vars == <<client, appToml, genesis, proc, given, inits, wrote>>

NoFile == [base |-> "no file", padded |-> FALSE]
NoToml == 0  \* no well-formed id has this number
Empty == [base |-> "", padded |-> FALSE]
Random == [base |-> "test-chain", padded |-> FALSE]

\* A command line: its kind, --home, --network-id, --chain-id, --overwrite.
Command == [kind : {"init", "start", "export", "other"}, home : Homes,
            network : ChainIDs \cup {Empty}, chain : ChainIDs \cup {Empty}, overwrite : BOOLEAN]

\* No id that is given is empty or equals the one that InitCmd makes up.
ASSUME CommandAssumption ==
  /\ Commands \subseteq Command /\ Commands # {} /\ Configured \subseteq ChainIDs
  /\ ChainIDs \cap {Empty, NoFile, Random} = {}

\* pc: the next step; evm: the id resolved, then that of the app; opts: the id read
\* from app.toml; chain: clientCtx.ChainID, then that of BaseApp; step: of app.New.
NoCommand == [pc |-> "ended", cmd |-> CHOOSE c \in Commands : TRUE,
              evm |-> 0, opts |-> 0, chain |-> Empty, step |-> 0]

-----------------------------------------------------------------------------
(* chain_id.go and mono_config.go                                          *)

Error == -1

\* ParseChainID: the number, or an error.  The blanks are trimmed first.
ParseChainID(id) ==
  IF id.base \in TooLong \/ id.base \notin DOMAIN Eip155 THEN Error ELSE Eip155[id.base]

\* Mutant of resolveEVMChainID: a number that does not fit is passed on.
resolveEVMChainIDUnchecked(networkID) ==
  IF networkID = Empty THEN DefaultEVMChainID ELSE ParseChainID(networkID)

\* Mutant of resolveEVMChainID: a number that does not fit is converted all the same.
resolveEVMChainIDWraps(networkID) ==
  IF networkID = Empty THEN DefaultEVMChainID
  ELSE IF ParseChainID(networkID) = Error THEN Error
  ELSE ParseChainID(networkID) % (MaxUint64 + 1)

\* A command without the flag resolves to the default as well.
resolveEVMChainID(networkID) ==
  IF networkID = Empty THEN DefaultEVMChainID
  ELSE IF ParseChainID(networkID) > MaxUint64 THEN Error
  ELSE ParseChainID(networkID)

\* Mutant of setNetworkIDFlag: the flag is checked but not passed on.
setNetworkIDFlagForgets(cmd) ==
  [ok |-> cmd.network = Empty \/ cmd.chain = Empty, chain |-> cmd.chain]

\* setNetworkIDFlag: whether it succeeds, and --chain-id after it.
setNetworkIDFlag(cmd) ==
  [ok    |-> cmd.network = Empty \/ cmd.chain = Empty,
   chain |-> IF cmd.network = Empty THEN cmd.chain ELSE cmd.network]

-----------------------------------------------------------------------------
\* Chain ids that come from elsewhere than --network-id.
GivenChains == {c.chain : c \in Commands} \cup Configured

Init ==
  /\ \E id \in {NoFile} \cup Configured :
       client = [h \in Homes |-> IF h = DefaultHome THEN id ELSE NoFile]
  /\ appToml = [h \in Homes |-> NoToml]
  /\ genesis = [h \in Homes |-> NoFile]
  /\ proc = [p \in Procs |-> NoCommand]
  /\ given = 0
  /\ inits = [h \in Homes |-> {}]
  /\ wrote = [h \in Homes |-> {}]

At(p, pc) == proc[p].pc = pc
Goto(p, pc) == proc' = [proc EXCEPT ![p].pc = pc]
End(p) == proc' = [proc EXCEPT ![p] = NoCommand]
HomeOf(p) == proc[p].cmd.home

\* ReadFromClientConfig (external): a client.toml that is absent is created with the
\* chain id that the context has.
CreateClientConfig(h, id) ==
  client' = IF client[h] = NoFile THEN [client EXCEPT ![h] = id] ELSE client

\* NewRootCmd reads the client.toml of the default home, whatever --home will say.
NewRootCmd(p) ==
  /\ At(p, "ended") /\ given < MaxCommands
  /\ CreateClientConfig(DefaultHome, Empty)
  /\ \E c \in Commands :
       proc' = [proc EXCEPT ![p] = [NoCommand EXCEPT !.pc = "client", !.cmd = c,
                                                     !.chain = client'[DefaultHome]]]
  /\ given' = given + 1
  /\ UNCHANGED <<appToml, genesis, inits, wrote>>

\* PersistentPreRunE up to resolveEVMChainID: a new client.toml gets --chain-id or
\* else the id of the default home; --network-id plays no part yet.  The context then
\* has --chain-id or else what the file says.
ReadClientConfig(p) ==
  /\ At(p, "client")
  /\ LET h == HomeOf(p)
         c == proc[p].cmd.chain
     IN /\ CreateClientConfig(h, IF c # Empty THEN c ELSE proc[p].chain)
        /\ proc' = [proc EXCEPT ![p].pc = "resolve",
                                ![p].chain = IF c # Empty THEN c ELSE client'[h]]
  /\ UNCHANGED <<appToml, genesis, given, inits, wrote>>

Resolve(p) ==
  /\ At(p, "resolve")
  /\ LET evm == resolveEVMChainID(proc[p].cmd.network)
     IN IF evm = Error
        THEN End(p) /\ UNCHANGED inits
        ELSE /\ proc' = [proc EXCEPT ![p].pc = "stat", ![p].evm = evm]
             /\ inits' = IF proc[p].cmd.kind = "init"
                         THEN [inits EXCEPT ![HomeOf(p)] = @ \cup {proc[p].cmd.network}]
                         ELSE inits
  /\ UNCHANGED <<client, appToml, genesis, given, wrote>>

\* InterceptConfigsPreRunHandler (external) writes the app.toml of InitAppConfig
\* if there is none, and reads the file in any case.
StatAppToml(p) ==
  /\ At(p, "stat")
  /\ IF appToml[HomeOf(p)] = NoToml
     THEN Goto(p, "write") /\ wrote' = [wrote EXCEPT ![HomeOf(p)] = @ \cup {proc[p].cmd.network}]
     ELSE Goto(p, "load") /\ UNCHANGED wrote
  /\ UNCHANGED <<client, appToml, genesis, given, inits>>

WriteAppToml(p) ==
  /\ At(p, "write")
  /\ appToml' = [appToml EXCEPT ![HomeOf(p)] = proc[p].evm]
  /\ Goto(p, "load")
  /\ UNCHANGED <<client, genesis, given, inits, wrote>>

LoadAppToml(p) ==
  /\ At(p, "load")
  /\ IF proc[p].cmd.kind = "other"
     THEN End(p)
     ELSE proc' = [proc EXCEPT ![p].opts = appToml[HomeOf(p)],
                               ![p].pc = IF proc[p].cmd.kind = "init" THEN "init" ELSE "new"]
  /\ UNCHANGED <<client, appToml, genesis, given, inits, wrote>>

\* The RunE of init: setNetworkIDFlag, then InitCmd (external), which takes the
\* chain id from its flag, from the client context, or makes one up.
RunInit(p) ==
  /\ At(p, "init")
  /\ LET cmd  == proc[p].cmd
         flag == setNetworkIDFlag(cmd)
         id   == IF flag.chain # Empty THEN flag.chain
                 ELSE IF proc[p].chain # Empty THEN proc[p].chain ELSE Random
     IN genesis' = IF flag.ok /\ (genesis[cmd.home] = NoFile \/ cmd.overwrite)
                   THEN [genesis EXCEPT ![cmd.home] = id] ELSE genesis
  /\ End(p)
  /\ UNCHANGED <<client, appToml, given, inits, wrote>>

\* The chain id of BaseApp.  newApp passes DefaultBaseappOptions (external), which take
\* --chain-id before genesis.json; appExport passes no options.
BaseAppChainID(cmd) ==
  IF cmd.kind = "export" THEN Empty
  ELSE IF cmd.chain # Empty THEN cmd.chain ELSE genesis[cmd.home]

\* Without a genesis.json the export command gives up, and DefaultBaseappOptions if
\* they have to look there.
NeedsGenesis(cmd) == cmd.kind = "export" \/ cmd.chain = Empty

\* Mutant of BeginNew: the id that the flags resolve to is used, not that of app.toml.
BeginNewFromFlags(p) ==
  /\ At(p, "new")
  /\ LET cmd == proc[p].cmd
     IN IF NeedsGenesis(cmd) /\ genesis[cmd.home] = NoFile
        THEN End(p)
        ELSE proc' = [proc EXCEPT ![p].pc = "construct", ![p].chain = BaseAppChainID(cmd)]
  /\ UNCHANGED <<client, appToml, genesis, given, inits, wrote>>

\* newApp and appExport begin: the EVM id is the one of app.toml.
BeginNew(p) ==
  /\ At(p, "new")
  /\ LET cmd == proc[p].cmd
     IN IF NeedsGenesis(cmd) /\ genesis[cmd.home] = NoFile
        THEN End(p)
        ELSE proc' = [proc EXCEPT ![p].pc = "construct", ![p].evm = proc[p].opts,
                                  ![p].chain = BaseAppChainID(cmd)]
  /\ UNCHANGED <<client, appToml, genesis, given, inits, wrote>>

\* CometBFT (external) reads genesis.json before it runs a node.
MayRun(cmd) == cmd.kind = "start" /\ genesis[cmd.home] # NoFile

\* appExport takes Load itself if it is given a height; it serves nobody.
LastStep(cmd) == IF cmd.kind = "export" THEN Len(NewOrder) ELSE Len(StartOrder)

Construct(p) ==
  /\ At(p, "construct")
  /\ LET k == proc[p].step + 1
         last == LastStep(proc[p].cmd)
     IN \/ /\ k < last \/ MayRun(proc[p].cmd)
           /\ proc' = [proc EXCEPT ![p].step = k,
                                   ![p].pc = IF k < last THEN "construct" ELSE "running"]
        \/ /\ \/ k = last /\ ~MayRun(proc[p].cmd)
              \/ StartOrder[k].name \in FailingSteps
           /\ End(p)
  /\ UNCHANGED <<client, appToml, genesis, given, inits, wrote>>

\* A signal, or a crash.
Kill(p) ==
  /\ ~At(p, "ended") /\ End(p)
  /\ UNCHANGED <<client, appToml, genesis, given, inits, wrote>>

Next == \E p \in Procs :
  \/ NewRootCmd(p) \/ ReadClientConfig(p) \/ Resolve(p)
  \/ StatAppToml(p) \/ WriteAppToml(p) \/ LoadAppToml(p)
  \/ RunInit(p) \/ BeginNew(p) \/ Construct(p) \/ Kill(p)

Spec == Init /\ [][Next]_vars

-----------------------------------------------------------------------------
(* Properties                                                              *)

Steps == {"ended", "client", "resolve", "stat", "write", "load", "init", "new",
          "construct", "running"}

TypeOK ==
  /\ client \in [Homes -> ChainIDs \cup {Empty, NoFile}]
  /\ appToml \in [Homes -> 0..MaxUint64]
  /\ genesis \in [Homes -> ChainIDs \cup {Random, NoFile}]
  /\ \A h \in Homes : inits[h] \cup wrote[h] \subseteq ChainIDs \cup {Empty}
  /\ \A p \in Procs : /\ proc[p].pc \in Steps /\ proc[p].cmd \in Command
                      /\ proc[p].step \in 0..Len(StartOrder)

\* Every init of the home was given this --network-id, and so was every command
\* that found no app.toml.
MadeFor(h, id) == inits[h] = {id} /\ wrote[h] = {id}

\* Such a home has the id in genesis.json and its number in app.toml, however often
\* init was repeated or raced, and whatever was killed half way.  The second condition
\* of MadeFor is needed: after any other first command app.toml keeps the default and
\* init --network-id succeeds without a change to it.
NetworkIDReachesBothFiles ==
  \A h \in Homes : \A id \in ChainIDs :
    MadeFor(h, id) /\ genesis[h] # NoFile =>
      genesis[h] = id /\ appToml[h] = ParseChainID(id)

\* And every node that runs on such a home runs with both, unless it is started with
\* another --chain-id, so that any two of them accept the same transactions.  (A new
\* chain refuses another id in InitChain; a restarted node is not asked again.)
RunningNodeHasBothIds ==
  \A p \in Procs : \A id \in ChainIDs :
    At(p, "running") /\ MadeFor(HomeOf(p), id) =>
      /\ proc[p].evm = ParseChainID(id)
      /\ proc[p].cmd.chain \in {Empty, id} => proc[p].chain = id

\* A refused id (malformed, too long, beyond uint64) leaves no trace: app.toml has the
\* default or the number of an accepted id, and genesis.json an accepted id unless it
\* came by --chain-id or from a client.toml, which nobody checks.
RefusedIdsLeaveNoTrace ==
  \A h \in Homes :
    /\ appToml[h] # NoToml =>
         \/ appToml[h] = DefaultEVMChainID
         \/ \E id \in wrote[h] : appToml[h] = ParseChainID(id)
    /\ genesis[h] \in {c.network : c \in Commands} \ GivenChains =>
         ParseChainID(genesis[h]) \in 1..MaxUint64

\* While app.New runs, nothing is copied before it is finished: staking before its
\* hooks, a keeper before its field is set, the ante handler before the mempool.
\* Two copies are the exceptions: the mempool keeps the empty client context, because
\* SetClientCtx comes after New and changes the app's own copy only, and BaseApp the
\* decoder and the encoder of the txConfig that is replaced.
OnlyTwoCopiesAreStale ==
  \A p \in Procs :
    StaleCopies(proc[p].step) \subseteq {<<"Mempool", "ClientCtx">>, <<"BaseApp", "TxConfig">>}

\* A running node has no open reference: the addresses that app.New passes on
\* before the keeper is made have been filled, and every router that authz, gov and
\* IBC hold ends in the circuit breaker.
RunningAppIsWired ==
  \A p \in Procs : At(p, "running") => OpenRefs(proc[p].step) = {}
=============================================================================
