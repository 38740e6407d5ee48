----------------------------- MODULE AppWiring -----------------------------
(***************************************************************************)
(* app.New: the order in which the keepers and handlers are made, and how  *)
(* each takes hold of the ones it works with.  A Go struct is copied as it *)
(* is at that moment, and the copy misses whatever is done to the original *)
(* later (hooks, routes, the keeper itself if its field is still empty); a *)
(* pointer sees it all.                                                    *)
(***************************************************************************)
EXTENDS Naturals, Sequences

\* One step: what it makes, what it copies by value, what it points to.
Make(name, copies, refs) == [name |-> name, copies |-> copies, refs |-> refs]

\* BaseApp keeps the decoder and the encoder of the EVM encoding's txConfig; the step
\* TxConfig replaces that one by another with textual signing.
KeeperOrder == <<
  Make("BaseApp", {"TxConfig"}, {}),
  Make("ConsensusParams", {}, {}),
  Make("Account", {}, {}),
  Make("Bank", {"Account"}, {}),
  Make("TxConfig", {"Bank"}, {}),
  Make("Staking", {"Account", "Bank"}, {}),
  Make("Mint", {"Account", "Bank"}, {"Staking"}),
  Make("ProtocolPool", {"Account", "Bank"}, {}),
  Make("Distr", {"Account", "Bank", "ProtocolPool"}, {"Staking"}),
  Make("Slashing", {}, {"Staking"}),
  Make("FeeGrant", {"Account"}, {}),
  Make("Epochs", {}, {}),
  Make("Burn", {"Bank"}, {}),
  Make("Validator", {"Burn"}, {"Staking"}),
  Make("StakingHooks", {"Distr", "Slashing"}, {"Staking"}) >>

RouterOrder == <<
  Make("Authz", {"Account"}, {"Router"}),
  Make("Upgrade", {}, {"BaseApp"}),
  Make("IBC", {}, {"Upgrade"}),
  Make("Gov", {"Account", "Bank", "Distr"}, {"Staking", "Router"}),
  Make("Evidence", {"Slashing"}, {"Staking"}),
  Make("FeeMarket", {}, {}) >>

\* Erc20, Transfer and EVM need each other: the field addresses break the cycle.
EvmOrder == <<
  Make("Precompiles", {"Distr", "Staking", "Bank", "Gov", "Slashing"},
                      {"Transfer", "Erc20", "IBC", "Staking"}),
  Make("EVM", {"Account", "Bank", "FeeMarket", "Precompiles"},
              {"Staking", "ConsensusParams", "Erc20"}),
  Make("Erc20", {"Account", "Bank"}, {"EVM", "Staking", "Transfer"}),
  Make("Transfer", {"Account", "Bank"}, {"IBC", "Router"}),
  Make("Callback", {"Account", "Erc20"}, {"EVM"}),
  Make("IBCRoutes", {"Transfer", "Erc20", "Callback"}, {"IBC"}) >>

\* Mutant of ModuleOrder: the router is left without its circuit breaker.
ModuleOrderNoBreaker == <<
  Make("ModuleManager", {"Account", "Bank", "Burn", "Validator"}, {"Staking", "Gov"}),
  Make("Services", {}, {"ModuleManager", "Router"}) >>

ModuleOrder == <<
  Make("ModuleManager",
       {"Account", "Bank", "TxConfig", "FeeGrant", "Mint", "Slashing", "Distr", "Evidence",
        "Authz", "ConsensusParams", "Transfer", "FeeMarket", "Erc20", "Epochs", "Burn",
        "Validator", "ProtocolPool"},
       {"Staking", "Gov", "Upgrade", "IBC", "EVM"}),
  Make("Services", {}, {"ModuleManager", "Router"}),
  Make("CircuitBreaker", {}, {"Router"}) >>

\* options.Validate fails if a keeper is absent.
setAnteHandler ==
  Make("Ante", {"Account", "Bank", "FeeGrant", "FeeMarket", "TxConfig"}, {"EVM", "IBC"})

\* The ante handler is a function value: the mempool validates with the one that is
\* set when it is configured.  With the pool disabled, or without an EVM chain
\* configuration, the step does nothing: there are fewer copies.
configureEVMMempool ==
  Make("Mempool", {"Ante", "FeeMarket", "TxConfig", "ClientCtx"}, {"EVM"})

\* Mutant of AppOrder: the mempool is configured before the ante handler is set.
AppOrderMempoolFirst == <<
  Make("Stores", {}, {"BaseApp"}),
  Make("Lifecycle", {}, {"BaseApp", "ModuleManager"}),
  configureEVMMempool,
  setAnteHandler,
  Make("PostHandler", {}, {"BaseApp"}),
  Make("Load", {}, {"BaseApp"}) >>

\* Load seals the BaseApp.
AppOrder == <<
  Make("Stores", {}, {"BaseApp"}),
  Make("Lifecycle", {}, {"BaseApp", "ModuleManager"}),
  setAnteHandler,
  configureEVMMempool,
  Make("PostHandler", {}, {"BaseApp"}),
  Make("Load", {}, {"BaseApp"}) >>

\* After New the server hands over its client context.
ServerOrder == << Make("ClientCtx", {}, {}) >>

NewOrder == KeeperOrder \o RouterOrder \o EvmOrder \o ModuleOrder \o AppOrder
StartOrder == NewOrder \o ServerOrder

\* Objects that a later step completes.
Parts(c) ==
  CASE c = "Staking" -> {"Staking", "StakingHooks"}
    [] c = "IBC"     -> {"IBC", "IBCRoutes"}
    [] c = "Router"  -> {"BaseApp", "Services", "CircuitBreaker"}
    [] OTHER         -> {c}

\* What the first k steps have made.
Made(k) == {StartOrder[i].name : i \in 1..k}

\* The copies among the first k steps that lack something of what they copy.
StaleCopies(k) ==
  UNION {{<<StartOrder[i].name, c>> : c \in {d \in StartOrder[i].copies :
                                               ~(Parts(d) \subseteq Made(i - 1))}} : i \in 1..k}

\* The pointers among the first k steps that lead to nothing, or to something unfinished.
OpenRefs(k) ==
  UNION {{c \in StartOrder[i].refs : ~(Parts(c) \subseteq Made(k))} : i \in 1..k}

\* Steps that end the process when they fail: panic, or os.Exit in Load.
FailingSteps == {"BaseApp", "TxConfig", "Services", "Ante", "Mempool", "PostHandler", "Load"}
=============================================================================
