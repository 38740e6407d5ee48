--------------------------- MODULE NodeInit_proofs ---------------------------
(***************************************************************************)
(* Proofs about AppWiring and NodeInit, for any processes, homes, ids and  *)
(* command lines, and any number of commands.                              *)
(*                                                                         *)
(* First the order of app.New: where each step stands, from when on what   *)
(* it makes is complete, and that no step copies something earlier than    *)
(* that.                                                                   *)
(*                                                                         *)
(* Then the files of a home, written by commands that overlap and may be   *)
(* killed between any two accesses.  The inductive invariant NInv says     *)
(* where everything comes from: the number in app.toml, or read from it,   *)
(* was resolved from the --network-id of a command that found no app.toml, *)
(* and the id in genesis.json, or read from it, is the --network-id of an  *)
(* init or else was not given by that flag.  Those histories only grow,    *)
(* so what a process has read stays true of them however late it is used.  *)
(***************************************************************************)
EXTENDS NodeInit, SequenceTheorems, TLAPS

-----------------------------------------------------------------------------
(* app.New.                                                                *)

LEMMA ListIsSeq ==
  ASSUME NEW s, NEW n \in Nat, s = [i \in 1..n |-> s[i]], NEW S, \A i \in 1..n : s[i] \in S
  PROVE  s \in Seq(S)
OBVIOUS

\* The elements of two lists, one after the other.
LEMMA ConcatElements ==
  ASSUME NEW S, NEW s1 \in Seq(S), NEW s2 \in Seq(S), NEW r, r = s1 \o s2
  PROVE  /\ r \in Seq(S) /\ Len(r) = Len(s1) + Len(s2)
         /\ \A i \in 1..Len(s1) : r[i] = s1[i]
         /\ \A i \in 1..Len(s2) : r[Len(s1) + i] = s2[i]
<1>1. /\ r \in Seq(S) /\ Len(r) = Len(s1) + Len(s2)
      /\ \A i \in 1..(Len(s1) + Len(s2)) :
           r[i] = IF i <= Len(s1) THEN s1[i] ELSE s2[i - Len(s1)]
  BY ConcatProperties
<1>2. Len(s1) \in Nat /\ Len(s2) \in Nat
  OBVIOUS
<1>3. ASSUME NEW i \in 1..Len(s1) PROVE r[i] = s1[i]
  BY <1>1, <1>2
<1>4. ASSUME NEW i \in 1..Len(s2) PROVE r[Len(s1) + i] = s2[i]
  <2>1. /\ Len(s1) + i \in 1..(Len(s1) + Len(s2)) /\ ~ (Len(s1) + i <= Len(s1))
        /\ (Len(s1) + i) - Len(s1) = i
    BY <1>2
  <2>. QED  BY <1>1, <2>1
<1>. QED  BY <1>1, <1>3, <1>4

\* The steps of app.New and of the server in one list.
LEMMA OrderElements ==
  /\ Len(NewOrder) = 36 /\ Len(StartOrder) = 37
  /\ \A i \in 1..15  : StartOrder[i] = KeeperOrder[i]
  /\ \A i \in 1..6  : StartOrder[15 + i] = RouterOrder[i]
  /\ \A i \in 1..6  : StartOrder[21 + i] = EvmOrder[i]
  /\ \A i \in 1..3  : StartOrder[27 + i] = ModuleOrder[i]
  /\ \A i \in 1..6  : StartOrder[30 + i] = AppOrder[i]
  /\ StartOrder[37] = ServerOrder[1]
<1>. DEFINE S == {KeeperOrder[i] : i \in 1..15} \cup
                 {RouterOrder[i] : i \in 1..6} \cup
                 {EvmOrder[i] : i \in 1..6} \cup
                 {ModuleOrder[i] : i \in 1..3} \cup
                 {AppOrder[i] : i \in 1..6} \cup
                 {ServerOrder[i] : i \in 1..1}
<1>1. KeeperOrder \in Seq(S)
  <2>1. KeeperOrder = [i \in 1..15 |-> KeeperOrder[i]]
    BY DEF KeeperOrder
  <2>2. \A i \in 1..15 : KeeperOrder[i] \in S
    OBVIOUS
  <2>. HIDE DEF S
  <2>. QED  BY <2>1, <2>2, ListIsSeq
<1>2. RouterOrder \in Seq(S)
  <2>1. RouterOrder = [i \in 1..6 |-> RouterOrder[i]]
    BY DEF RouterOrder
  <2>2. \A i \in 1..6 : RouterOrder[i] \in S
    OBVIOUS
  <2>. HIDE DEF S
  <2>. QED  BY <2>1, <2>2, ListIsSeq
<1>3. EvmOrder \in Seq(S)
  <2>1. EvmOrder = [i \in 1..6 |-> EvmOrder[i]]
    BY DEF EvmOrder
  <2>2. \A i \in 1..6 : EvmOrder[i] \in S
    OBVIOUS
  <2>. HIDE DEF S
  <2>. QED  BY <2>1, <2>2, ListIsSeq
<1>4. ModuleOrder \in Seq(S)
  <2>1. ModuleOrder = [i \in 1..3 |-> ModuleOrder[i]]
    BY DEF ModuleOrder
  <2>2. \A i \in 1..3 : ModuleOrder[i] \in S
    OBVIOUS
  <2>. HIDE DEF S
  <2>. QED  BY <2>1, <2>2, ListIsSeq
<1>5. AppOrder \in Seq(S)
  <2>1. AppOrder = [i \in 1..6 |-> AppOrder[i]]
    BY DEF AppOrder, setAnteHandler, configureEVMMempool
  <2>2. \A i \in 1..6 : AppOrder[i] \in S
    OBVIOUS
  <2>. HIDE DEF S
  <2>. QED  BY <2>1, <2>2, ListIsSeq
<1>6. ServerOrder \in Seq(S)
  <2>1. ServerOrder = [i \in 1..1 |-> ServerOrder[i]]
    BY DEF ServerOrder
  <2>2. \A i \in 1..1 : ServerOrder[i] \in S
    OBVIOUS
  <2>. HIDE DEF S
  <2>. QED  BY <2>1, <2>2, ListIsSeq
<1>. HIDE DEF S
<1>7. /\ Len(KeeperOrder) = 15 /\ Len(RouterOrder) = 6 /\ Len(EvmOrder) = 6
      /\ Len(ModuleOrder) = 3 /\ Len(AppOrder) = 6 /\ Len(ServerOrder) = 1
  BY DEF KeeperOrder, RouterOrder, EvmOrder, ModuleOrder, AppOrder, ServerOrder
<1>8. 15 + 6 = 21 /\ 21 + 6 = 27 /\ 27 + 3 = 30 /\ 30 + 6 = 36 /\ 36 + 1 = 37
  OBVIOUS
<1>9. PICK a : a = KeeperOrder \o RouterOrder
  OBVIOUS
<1>10. /\ a \in Seq(S) /\ Len(a) = 21
       /\ \A i \in 1..15 : a[i] = KeeperOrder[i]
       /\ \A i \in 1..6 : a[15 + i] = RouterOrder[i]
  <2>1. /\ a \in Seq(S) /\ Len(a) = Len(KeeperOrder) + Len(RouterOrder)
        /\ \A i \in 1..Len(KeeperOrder) : a[i] = KeeperOrder[i]
        /\ \A i \in 1..Len(RouterOrder) : a[Len(KeeperOrder) + i] = RouterOrder[i]
    BY <1>1, <1>2, <1>9, ConcatElements, SMT
  <2>2. Len(KeeperOrder) = 15 /\ Len(RouterOrder) = 6
    BY <1>1, <1>7, Zenon
  <2>. QED  BY <1>8, <2>1, <2>2, Zenon
<1>11. PICK b : b = a \o EvmOrder
  OBVIOUS
<1>12. /\ b \in Seq(S) /\ Len(b) = 27
       /\ \A i \in 1..21 : b[i] = a[i]
       /\ \A i \in 1..6 : b[21 + i] = EvmOrder[i]
  <2>0. a \in Seq(S)
    BY <1>10, Zenon
  <2>1. /\ b \in Seq(S) /\ Len(b) = Len(a) + Len(EvmOrder)
        /\ \A i \in 1..Len(a) : b[i] = a[i]
        /\ \A i \in 1..Len(EvmOrder) : b[Len(a) + i] = EvmOrder[i]
    BY <2>0, <1>3, <1>11, ConcatElements, SMT
  <2>2. Len(a) = 21 /\ Len(EvmOrder) = 6
    BY <1>10, <1>7, Zenon
  <2>. QED  BY <1>8, <2>1, <2>2, Zenon
<1>13. PICK c : c = b \o ModuleOrder
  OBVIOUS
<1>14. /\ c \in Seq(S) /\ Len(c) = 30
       /\ \A i \in 1..27 : c[i] = b[i]
       /\ \A i \in 1..3 : c[27 + i] = ModuleOrder[i]
  <2>0. b \in Seq(S)
    BY <1>12, Zenon
  <2>1. /\ c \in Seq(S) /\ Len(c) = Len(b) + Len(ModuleOrder)
        /\ \A i \in 1..Len(b) : c[i] = b[i]
        /\ \A i \in 1..Len(ModuleOrder) : c[Len(b) + i] = ModuleOrder[i]
    BY <2>0, <1>4, <1>13, ConcatElements, SMT
  <2>2. Len(b) = 27 /\ Len(ModuleOrder) = 3
    BY <1>12, <1>7, Zenon
  <2>. QED  BY <1>8, <2>1, <2>2, Zenon
<1>15. PICK d : d = c \o AppOrder
  OBVIOUS
<1>16. /\ d \in Seq(S) /\ Len(d) = 36
       /\ \A i \in 1..30 : d[i] = c[i]
       /\ \A i \in 1..6 : d[30 + i] = AppOrder[i]
  <2>0. c \in Seq(S)
    BY <1>14, Zenon
  <2>1. /\ d \in Seq(S) /\ Len(d) = Len(c) + Len(AppOrder)
        /\ \A i \in 1..Len(c) : d[i] = c[i]
        /\ \A i \in 1..Len(AppOrder) : d[Len(c) + i] = AppOrder[i]
    BY <2>0, <1>5, <1>15, ConcatElements, SMT
  <2>2. Len(c) = 30 /\ Len(AppOrder) = 6
    BY <1>14, <1>7, Zenon
  <2>. QED  BY <1>8, <2>1, <2>2, Zenon
<1>17. PICK e : e = d \o ServerOrder
  OBVIOUS
<1>18. /\ e \in Seq(S) /\ Len(e) = 37
       /\ \A i \in 1..36 : e[i] = d[i]
       /\ \A i \in 1..1 : e[36 + i] = ServerOrder[i]
  <2>0. d \in Seq(S)
    BY <1>16, Zenon
  <2>1. /\ e \in Seq(S) /\ Len(e) = Len(d) + Len(ServerOrder)
        /\ \A i \in 1..Len(d) : e[i] = d[i]
        /\ \A i \in 1..Len(ServerOrder) : e[Len(d) + i] = ServerOrder[i]
    BY <2>0, <1>6, <1>17, ConcatElements, SMT
  <2>2. Len(d) = 36 /\ Len(ServerOrder) = 1
    BY <1>16, <1>7, Zenon
  <2>. QED  BY <1>8, <2>1, <2>2, Zenon
<1>19. NewOrder = d /\ StartOrder = e
  BY <1>9, <1>11, <1>13, <1>15, <1>17 DEF NewOrder, StartOrder
<1>20. ASSUME NEW i \in 1..15 PROVE e[i] = KeeperOrder[i]
  <2>1. i \in 1..36
    OBVIOUS
  <2>2. e[i] = d[i]
    BY <1>18, <2>1, Zenon
  <2>3. i \in 1..30
    OBVIOUS
  <2>4. d[i] = c[i]
    BY <1>16, <2>3, Zenon
  <2>5. i \in 1..27
    OBVIOUS
  <2>6. c[i] = b[i]
    BY <1>14, <2>5, Zenon
  <2>7. i \in 1..21
    OBVIOUS
  <2>8. b[i] = a[i]
    BY <1>12, <2>7, Zenon
  <2>9. i \in 1..15
    OBVIOUS
  <2>10. a[i] = KeeperOrder[i]
    BY <1>10, <2>9, Zenon
  <2>. QED  BY <2>2, <2>4, <2>6, <2>8, <2>10, Zenon
<1>21. ASSUME NEW i \in 1..6 PROVE e[15 + i] = RouterOrder[i]
  <2>1. 15 + i \in 1..36
    OBVIOUS
  <2>2. e[15 + i] = d[15 + i]
    BY <1>18, <2>1, Zenon
  <2>3. 15 + i \in 1..30
    OBVIOUS
  <2>4. d[15 + i] = c[15 + i]
    BY <1>16, <2>3, Zenon
  <2>5. 15 + i \in 1..27
    OBVIOUS
  <2>6. c[15 + i] = b[15 + i]
    BY <1>14, <2>5, Zenon
  <2>7. 15 + i \in 1..21
    OBVIOUS
  <2>8. b[15 + i] = a[15 + i]
    BY <1>12, <2>7, Zenon
  <2>9. a[15 + i] = RouterOrder[i]
    BY <1>10, Zenon
  <2>. QED  BY <2>2, <2>4, <2>6, <2>8, <2>9, Zenon
<1>22. ASSUME NEW i \in 1..6 PROVE e[21 + i] = EvmOrder[i]
  <2>1. 21 + i \in 1..36
    OBVIOUS
  <2>2. e[21 + i] = d[21 + i]
    BY <1>18, <2>1, Zenon
  <2>3. 21 + i \in 1..30
    OBVIOUS
  <2>4. d[21 + i] = c[21 + i]
    BY <1>16, <2>3, Zenon
  <2>5. 21 + i \in 1..27
    OBVIOUS
  <2>6. c[21 + i] = b[21 + i]
    BY <1>14, <2>5, Zenon
  <2>7. b[21 + i] = EvmOrder[i]
    BY <1>12, Zenon
  <2>. QED  BY <2>2, <2>4, <2>6, <2>7, Zenon
<1>23. ASSUME NEW i \in 1..3 PROVE e[27 + i] = ModuleOrder[i]
  <2>1. 27 + i \in 1..36
    OBVIOUS
  <2>2. e[27 + i] = d[27 + i]
    BY <1>18, <2>1, Zenon
  <2>3. 27 + i \in 1..30
    OBVIOUS
  <2>4. d[27 + i] = c[27 + i]
    BY <1>16, <2>3, Zenon
  <2>5. c[27 + i] = ModuleOrder[i]
    BY <1>14, Zenon
  <2>. QED  BY <2>2, <2>4, <2>5, Zenon
<1>24. ASSUME NEW i \in 1..6 PROVE e[30 + i] = AppOrder[i]
  <2>1. 30 + i \in 1..36
    OBVIOUS
  <2>2. e[30 + i] = d[30 + i]
    BY <1>18, <2>1, Zenon
  <2>3. d[30 + i] = AppOrder[i]
    BY <1>16, Zenon
  <2>. QED  BY <2>2, <2>3, Zenon
<1>25. e[37] = ServerOrder[1]
  <2>1. 1 \in 1..1
    OBVIOUS
  <2>. QED  BY <1>8, <1>18, <2>1, Zenon
<1>. QED  BY <1>16, <1>18, <1>19, <1>20, <1>21, <1>22, <1>23, <1>24, <1>25, Zenon

\* What each step makes, by its place in the order.
LEMMA StepNames ==
  /\ StartOrder[1].name = "BaseApp" /\ StartOrder[2].name = "ConsensusParams"
  /\ StartOrder[3].name = "Account" /\ StartOrder[4].name = "Bank"
  /\ StartOrder[5].name = "TxConfig" /\ StartOrder[6].name = "Staking"
  /\ StartOrder[7].name = "Mint" /\ StartOrder[8].name = "ProtocolPool"
  /\ StartOrder[9].name = "Distr" /\ StartOrder[10].name = "Slashing"
  /\ StartOrder[11].name = "FeeGrant" /\ StartOrder[12].name = "Epochs"
  /\ StartOrder[13].name = "Burn" /\ StartOrder[14].name = "Validator"
  /\ StartOrder[15].name = "StakingHooks" /\ StartOrder[16].name = "Authz"
  /\ StartOrder[17].name = "Upgrade" /\ StartOrder[18].name = "IBC"
  /\ StartOrder[19].name = "Gov" /\ StartOrder[20].name = "Evidence"
  /\ StartOrder[21].name = "FeeMarket" /\ StartOrder[22].name = "Precompiles"
  /\ StartOrder[23].name = "EVM" /\ StartOrder[24].name = "Erc20"
  /\ StartOrder[25].name = "Transfer" /\ StartOrder[26].name = "Callback"
  /\ StartOrder[27].name = "IBCRoutes" /\ StartOrder[28].name = "ModuleManager"
  /\ StartOrder[29].name = "Services" /\ StartOrder[30].name = "CircuitBreaker"
  /\ StartOrder[31].name = "Stores" /\ StartOrder[32].name = "Lifecycle"
  /\ StartOrder[33].name = "Ante" /\ StartOrder[34].name = "Mempool"
  /\ StartOrder[35].name = "PostHandler" /\ StartOrder[36].name = "Load"
  /\ StartOrder[37].name = "ClientCtx"
<1>1. /\ StartOrder[1].name = "BaseApp" /\ StartOrder[2].name = "ConsensusParams"
      /\ StartOrder[3].name = "Account" /\ StartOrder[4].name = "Bank"
      /\ StartOrder[5].name = "TxConfig" /\ StartOrder[6].name = "Staking"
      /\ StartOrder[7].name = "Mint" /\ StartOrder[8].name = "ProtocolPool"
      /\ StartOrder[9].name = "Distr" /\ StartOrder[10].name = "Slashing"
      /\ StartOrder[11].name = "FeeGrant" /\ StartOrder[12].name = "Epochs"
      /\ StartOrder[13].name = "Burn" /\ StartOrder[14].name = "Validator"
      /\ StartOrder[15].name = "StakingHooks"
  <2>1. /\ StartOrder[1] = KeeperOrder[1] /\ StartOrder[2] = KeeperOrder[2]
        /\ StartOrder[3] = KeeperOrder[3] /\ StartOrder[4] = KeeperOrder[4]
        /\ StartOrder[5] = KeeperOrder[5] /\ StartOrder[6] = KeeperOrder[6]
        /\ StartOrder[7] = KeeperOrder[7] /\ StartOrder[8] = KeeperOrder[8]
        /\ StartOrder[9] = KeeperOrder[9] /\ StartOrder[10] = KeeperOrder[10]
        /\ StartOrder[11] = KeeperOrder[11] /\ StartOrder[12] = KeeperOrder[12]
        /\ StartOrder[13] = KeeperOrder[13] /\ StartOrder[14] = KeeperOrder[14]
        /\ StartOrder[15] = KeeperOrder[15]
    BY OrderElements
  <2>. QED  BY <2>1 DEF KeeperOrder, Make
<1>2. /\ StartOrder[16].name = "Authz" /\ StartOrder[17].name = "Upgrade"
      /\ StartOrder[18].name = "IBC" /\ StartOrder[19].name = "Gov"
      /\ StartOrder[20].name = "Evidence" /\ StartOrder[21].name = "FeeMarket"
  <2>1. /\ StartOrder[16] = RouterOrder[1] /\ StartOrder[17] = RouterOrder[2]
        /\ StartOrder[18] = RouterOrder[3] /\ StartOrder[19] = RouterOrder[4]
        /\ StartOrder[20] = RouterOrder[5] /\ StartOrder[21] = RouterOrder[6]
    BY OrderElements
  <2>. QED  BY <2>1 DEF RouterOrder, Make
<1>3. /\ StartOrder[22].name = "Precompiles" /\ StartOrder[23].name = "EVM"
      /\ StartOrder[24].name = "Erc20" /\ StartOrder[25].name = "Transfer"
      /\ StartOrder[26].name = "Callback" /\ StartOrder[27].name = "IBCRoutes"
  <2>1. /\ StartOrder[22] = EvmOrder[1] /\ StartOrder[23] = EvmOrder[2]
        /\ StartOrder[24] = EvmOrder[3] /\ StartOrder[25] = EvmOrder[4]
        /\ StartOrder[26] = EvmOrder[5] /\ StartOrder[27] = EvmOrder[6]
    BY OrderElements
  <2>. QED  BY <2>1 DEF EvmOrder, Make
<1>4. /\ StartOrder[28].name = "ModuleManager" /\ StartOrder[29].name = "Services"
      /\ StartOrder[30].name = "CircuitBreaker"
  <2>1. /\ StartOrder[28] = ModuleOrder[1] /\ StartOrder[29] = ModuleOrder[2]
        /\ StartOrder[30] = ModuleOrder[3]
    BY OrderElements
  <2>. QED  BY <2>1 DEF ModuleOrder, Make
<1>5. /\ StartOrder[31].name = "Stores" /\ StartOrder[32].name = "Lifecycle"
      /\ StartOrder[33].name = "Ante" /\ StartOrder[34].name = "Mempool"
      /\ StartOrder[35].name = "PostHandler" /\ StartOrder[36].name = "Load"
  <2>1. /\ StartOrder[31] = AppOrder[1] /\ StartOrder[32] = AppOrder[2]
        /\ StartOrder[33] = AppOrder[3] /\ StartOrder[34] = AppOrder[4]
        /\ StartOrder[35] = AppOrder[5] /\ StartOrder[36] = AppOrder[6]
    BY OrderElements
  <2>. QED  BY <2>1 DEF AppOrder, setAnteHandler, configureEVMMempool, Make
<1>6. /\ StartOrder[37].name = "ClientCtx"
  BY OrderElements DEF ServerOrder, Make
<1>. QED  BY <1>1, <1>2, <1>3, <1>4, <1>5, <1>6

\* After the first k steps, everything that makes up c is there.
Complete(c, k) == Parts(c) \subseteq Made(k)

LEMMA CompleteStays ==
  ASSUME NEW c, NEW j \in Nat, NEW k \in Nat, j <= k, Complete(c, j)
  PROVE  Complete(c, k)
<1>1. 1..j \subseteq 1..k
  OBVIOUS
<1>. QED  BY <1>1, Zenon DEF Complete, Made

\* From which step on each object that others take hold of is complete.
LEMMA CompleteFrom ==
  /\ Complete("BaseApp", 1) /\ Complete("ConsensusParams", 2) /\ Complete("Account", 3)
  /\ Complete("Bank", 4) /\ Complete("TxConfig", 5) /\ Complete("Mint", 7)
  /\ Complete("ProtocolPool", 8) /\ Complete("Distr", 9) /\ Complete("Slashing", 10)
  /\ Complete("FeeGrant", 11) /\ Complete("Epochs", 12) /\ Complete("Burn", 13)
  /\ Complete("Validator", 14) /\ Complete("Staking", 15) /\ Complete("Authz", 16)
  /\ Complete("Upgrade", 17) /\ Complete("Gov", 19) /\ Complete("Evidence", 20)
  /\ Complete("FeeMarket", 21) /\ Complete("Precompiles", 22) /\ Complete("EVM", 23)
  /\ Complete("Erc20", 24) /\ Complete("Transfer", 25) /\ Complete("Callback", 26)
  /\ Complete("IBC", 27) /\ Complete("ModuleManager", 28) /\ Complete("Router", 30)
  /\ Complete("Ante", 33)
<1>1. ASSUME NEW n \in Nat, NEW i \in 1..n PROVE StartOrder[i].name \in Made(n)
  BY Zenon DEF Made
<1>2. /\ Complete("BaseApp", 1) /\ Complete("ConsensusParams", 2)
      /\ Complete("Account", 3) /\ Complete("Bank", 4)
  <2>1. /\ "BaseApp" \in Made(1) /\ Parts("BaseApp") = {"BaseApp"}
        /\ "ConsensusParams" \in Made(2) /\ Parts("ConsensusParams") = {"ConsensusParams"}
        /\ "Account" \in Made(3) /\ Parts("Account") = {"Account"}
        /\ "Bank" \in Made(4) /\ Parts("Bank") = {"Bank"}
    BY <1>1, StepNames DEF Parts
  <2>. QED  BY <2>1 DEF Complete
<1>3. /\ Complete("TxConfig", 5) /\ Complete("Mint", 7)
      /\ Complete("ProtocolPool", 8) /\ Complete("Distr", 9)
  <2>1. /\ "TxConfig" \in Made(5) /\ Parts("TxConfig") = {"TxConfig"}
        /\ "Mint" \in Made(7) /\ Parts("Mint") = {"Mint"}
        /\ "ProtocolPool" \in Made(8) /\ Parts("ProtocolPool") = {"ProtocolPool"}
        /\ "Distr" \in Made(9) /\ Parts("Distr") = {"Distr"}
    BY <1>1, StepNames DEF Parts
  <2>. QED  BY <2>1 DEF Complete
<1>4. /\ Complete("Slashing", 10) /\ Complete("FeeGrant", 11)
      /\ Complete("Epochs", 12) /\ Complete("Burn", 13)
  <2>1. /\ "Slashing" \in Made(10) /\ Parts("Slashing") = {"Slashing"}
        /\ "FeeGrant" \in Made(11) /\ Parts("FeeGrant") = {"FeeGrant"}
        /\ "Epochs" \in Made(12) /\ Parts("Epochs") = {"Epochs"}
        /\ "Burn" \in Made(13) /\ Parts("Burn") = {"Burn"}
    BY <1>1, StepNames DEF Parts
  <2>. QED  BY <2>1 DEF Complete
<1>5. /\ Complete("Validator", 14) /\ Complete("Authz", 16)
      /\ Complete("Upgrade", 17) /\ Complete("Gov", 19)
  <2>1. /\ "Validator" \in Made(14) /\ Parts("Validator") = {"Validator"}
        /\ "Authz" \in Made(16) /\ Parts("Authz") = {"Authz"}
        /\ "Upgrade" \in Made(17) /\ Parts("Upgrade") = {"Upgrade"}
        /\ "Gov" \in Made(19) /\ Parts("Gov") = {"Gov"}
    BY <1>1, StepNames DEF Parts
  <2>. QED  BY <2>1 DEF Complete
<1>6. /\ Complete("Evidence", 20) /\ Complete("FeeMarket", 21)
      /\ Complete("Precompiles", 22) /\ Complete("EVM", 23)
  <2>1. /\ "Evidence" \in Made(20) /\ Parts("Evidence") = {"Evidence"}
        /\ "FeeMarket" \in Made(21) /\ Parts("FeeMarket") = {"FeeMarket"}
        /\ "Precompiles" \in Made(22) /\ Parts("Precompiles") = {"Precompiles"}
        /\ "EVM" \in Made(23) /\ Parts("EVM") = {"EVM"}
    BY <1>1, StepNames DEF Parts
  <2>. QED  BY <2>1 DEF Complete
<1>7. /\ Complete("Erc20", 24) /\ Complete("Transfer", 25)
      /\ Complete("Callback", 26) /\ Complete("ModuleManager", 28)
  <2>1. /\ "Erc20" \in Made(24) /\ Parts("Erc20") = {"Erc20"}
        /\ "Transfer" \in Made(25) /\ Parts("Transfer") = {"Transfer"}
        /\ "Callback" \in Made(26) /\ Parts("Callback") = {"Callback"}
        /\ "ModuleManager" \in Made(28) /\ Parts("ModuleManager") = {"ModuleManager"}
    BY <1>1, StepNames DEF Parts
  <2>. QED  BY <2>1 DEF Complete
<1>8. /\ Complete("Ante", 33)
  <2>1. /\ "Ante" \in Made(33) /\ Parts("Ante") = {"Ante"}
    BY <1>1, StepNames DEF Parts
  <2>. QED  BY <2>1 DEF Complete
<1>9. Complete("Staking", 15)
  <2>1. /\ "Staking" \in Made(15) /\ "StakingHooks" \in Made(15)
        /\ Parts("Staking") = {"Staking", "StakingHooks"}
    BY <1>1, StepNames DEF Parts
  <2>. QED  BY <2>1 DEF Complete
<1>10. Complete("IBC", 27)
  <2>1. /\ "IBC" \in Made(27) /\ "IBCRoutes" \in Made(27)
        /\ Parts("IBC") = {"IBC", "IBCRoutes"}
    BY <1>1, StepNames DEF Parts
  <2>. QED  BY <2>1 DEF Complete
<1>11. Complete("Router", 30)
  <2>1. /\ "BaseApp" \in Made(30) /\ "Services" \in Made(30) /\ "CircuitBreaker" \in Made(30)
        /\ Parts("Router") = {"BaseApp", "Services", "CircuitBreaker"}
    BY <1>1, StepNames DEF Parts
  <2>. QED  BY <2>1 DEF Complete
<1>. QED  BY <1>2, <1>3, <1>4, <1>5, <1>6, <1>7, <1>8, <1>9, <1>10, <1>11

\* The two copies that are stale.
KnownStale == {<<"Mempool", "ClientCtx">>, <<"BaseApp", "TxConfig">>}

\* Whatever a step copies is complete before it, but for the client context of the
\* mempool, which the server sets after New, and the first txConfig of BaseApp.
LEMMA CopiesAreComplete ==
  ASSUME NEW i \in 1..37, NEW c \in StartOrder[i].copies
  PROVE  Complete(c, i - 1) \/ <<StartOrder[i].name, c>> \in KnownStale
<1>. DEFINE Good(j) == \A d \in StartOrder[j].copies :
                Complete(d, j - 1) \/ <<StartOrder[j].name, d>> \in KnownStale
<1>0. Good(1)
  BY OrderElements, StepNames DEF KeeperOrder, Make, KnownStale
<1>1. Good(2) /\ Good(3) /\ Good(4) /\ Good(5)
  BY OrderElements, CompleteFrom, CompleteStays DEF KeeperOrder, Make
<1>2. Good(6) /\ Good(7) /\ Good(8) /\ Good(9) /\ Good(10)
  BY OrderElements, CompleteFrom, CompleteStays DEF KeeperOrder, Make
<1>3. Good(11) /\ Good(12) /\ Good(13) /\ Good(14) /\ Good(15)
  BY OrderElements, CompleteFrom, CompleteStays DEF KeeperOrder, Make
<1>4. Good(16) /\ Good(17) /\ Good(18) /\ Good(19) /\ Good(20) /\ Good(21)
  BY OrderElements, CompleteFrom, CompleteStays DEF RouterOrder, Make
<1>5. Good(22) /\ Good(23) /\ Good(24) /\ Good(25) /\ Good(26) /\ Good(27)
  BY OrderElements, CompleteFrom, CompleteStays DEF EvmOrder, Make
<1>6. Good(28) /\ Good(29) /\ Good(30)
  BY OrderElements, CompleteFrom, CompleteStays DEF ModuleOrder, Make
<1>7. Good(31) /\ Good(32) /\ Good(33) /\ Good(34) /\ Good(35) /\ Good(36)
  BY OrderElements, CompleteFrom, CompleteStays, StepNames
     DEF AppOrder, setAnteHandler, configureEVMMempool, Make, KnownStale
<1>8. Good(37)
  BY OrderElements, CompleteFrom, CompleteStays DEF ServerOrder, Make
<1>. QED  BY <1>0, <1>1, <1>2, <1>3, <1>4, <1>5, <1>6, <1>7, <1>8

\* A place in the order is a place in one of its parts.
LEMMA PartOfPlace ==
  ASSUME NEW i \in 1..37
  PROVE  \/ i \in 1..15
         \/ (\E j \in 1..6 : i = 15 + j)
         \/ (\E j \in 1..6 : i = 21 + j)
         \/ (\E j \in 1..3 : i = 27 + j)
         \/ (\E j \in 1..6 : i = 30 + j)
         \/ i = 37
<1>1. CASE i \in 16..21
  <2>1. i - 15 \in 1..6 /\ i = 15 + (i - 15)
    BY <1>1
  <2>. QED  BY <2>1
<1>2. CASE i \in 22..27
  <2>1. i - 21 \in 1..6 /\ i = 21 + (i - 21)
    BY <1>2
  <2>. QED  BY <2>1
<1>3. CASE i \in 28..30
  <2>1. i - 27 \in 1..3 /\ i = 27 + (i - 27)
    BY <1>3
  <2>. QED  BY <2>1
<1>4. CASE i \in 31..36
  <2>1. i - 30 \in 1..6 /\ i = 30 + (i - 30)
    BY <1>4
  <2>. QED  BY <2>1
<1>. QED  BY <1>1, <1>2, <1>3, <1>4

\* Whatever a step points to is complete at the end.
LEMMA RefsAreComplete ==
  ASSUME NEW i \in 1..37, NEW c \in StartOrder[i].refs
  PROVE  Complete(c, 37)
<1>. DEFINE Refs == {"BaseApp", "Staking", "Router", "Upgrade", "IBC", "EVM", "Erc20",
                     "Transfer", "ConsensusParams", "ModuleManager", "Gov"}
<1>1. \A d \in Refs : Complete(d, 37)
  BY CompleteFrom, CompleteStays
<1>2. \A j \in 1..15 : StartOrder[j].refs \subseteq Refs
  <2>1. /\ KeeperOrder[1].refs \subseteq Refs /\ KeeperOrder[2].refs \subseteq Refs
        /\ KeeperOrder[3].refs \subseteq Refs /\ KeeperOrder[4].refs \subseteq Refs
        /\ KeeperOrder[5].refs \subseteq Refs /\ KeeperOrder[6].refs \subseteq Refs
        /\ KeeperOrder[7].refs \subseteq Refs /\ KeeperOrder[8].refs \subseteq Refs
        /\ KeeperOrder[9].refs \subseteq Refs /\ KeeperOrder[10].refs \subseteq Refs
        /\ KeeperOrder[11].refs \subseteq Refs /\ KeeperOrder[12].refs \subseteq Refs
        /\ KeeperOrder[13].refs \subseteq Refs /\ KeeperOrder[14].refs \subseteq Refs
        /\ KeeperOrder[15].refs \subseteq Refs
    BY DEF KeeperOrder, Make
  <2>2. \A j \in 1..15 : KeeperOrder[j].refs \subseteq Refs
    BY <2>1
  <2>. QED  BY <2>2, OrderElements
<1>3. \A j \in 1..6 : StartOrder[15 + j].refs \subseteq Refs
  <2>1. /\ RouterOrder[1].refs \subseteq Refs /\ RouterOrder[2].refs \subseteq Refs
        /\ RouterOrder[3].refs \subseteq Refs /\ RouterOrder[4].refs \subseteq Refs
        /\ RouterOrder[5].refs \subseteq Refs /\ RouterOrder[6].refs \subseteq Refs
    BY DEF RouterOrder, Make
  <2>2. \A j \in 1..6 : RouterOrder[j].refs \subseteq Refs
    BY <2>1
  <2>. QED  BY <2>2, OrderElements
<1>4. \A j \in 1..6 : StartOrder[21 + j].refs \subseteq Refs
  <2>1. /\ EvmOrder[1].refs \subseteq Refs /\ EvmOrder[2].refs \subseteq Refs
        /\ EvmOrder[3].refs \subseteq Refs /\ EvmOrder[4].refs \subseteq Refs
        /\ EvmOrder[5].refs \subseteq Refs /\ EvmOrder[6].refs \subseteq Refs
    BY DEF EvmOrder, Make
  <2>2. \A j \in 1..6 : EvmOrder[j].refs \subseteq Refs
    BY <2>1
  <2>. QED  BY <2>2, OrderElements
<1>5. \A j \in 1..3 : StartOrder[27 + j].refs \subseteq Refs
  <2>1. /\ ModuleOrder[1].refs \subseteq Refs /\ ModuleOrder[2].refs \subseteq Refs
        /\ ModuleOrder[3].refs \subseteq Refs
    BY DEF ModuleOrder, Make
  <2>2. \A j \in 1..3 : ModuleOrder[j].refs \subseteq Refs
    BY <2>1
  <2>. QED  BY <2>2, OrderElements
<1>6. \A j \in 1..6 : StartOrder[30 + j].refs \subseteq Refs
  <2>1. /\ AppOrder[1].refs \subseteq Refs /\ AppOrder[2].refs \subseteq Refs
        /\ AppOrder[3].refs \subseteq Refs /\ AppOrder[4].refs \subseteq Refs
        /\ AppOrder[5].refs \subseteq Refs /\ AppOrder[6].refs \subseteq Refs
    BY DEF AppOrder, setAnteHandler, configureEVMMempool, Make
  <2>2. \A j \in 1..6 : AppOrder[j].refs \subseteq Refs
    BY <2>1
  <2>. QED  BY <2>2, OrderElements
<1>7. StartOrder[37].refs \subseteq Refs
  BY OrderElements DEF ServerOrder, Make
<1>8. StartOrder[i].refs \subseteq Refs
  <2>1. \/ i \in 1..15
        \/ (\E j \in 1..6 : i = 15 + j)
        \/ (\E j \in 1..6 : i = 21 + j)
        \/ (\E j \in 1..3 : i = 27 + j)
        \/ (\E j \in 1..6 : i = 30 + j)
        \/ i = 37
    BY PartOfPlace
  <2>. QED  BY <2>1, <1>2, <1>3, <1>4, <1>5, <1>6, <1>7, Zenon
<1>. QED  BY <1>1, <1>8

\* Of all the copies that app.New makes, only these two are stale.
LEMMA StaleCopyIsKnown ==
  ASSUME NEW k \in 0..37
  PROVE  StaleCopies(k) \subseteq KnownStale
<1>. SUFFICES ASSUME NEW e \in StaleCopies(k) PROVE e \in KnownStale
  OBVIOUS
<1>1. PICK i \in 1..k : \E c \in StartOrder[i].copies :
        e = <<StartOrder[i].name, c>> /\ ~ Complete(c, i - 1)
  BY Zenon DEF StaleCopies, Complete
<1>2. i \in 1..37
  OBVIOUS
<1>. QED  BY <1>1, <1>2, CopiesAreComplete, Zenon

\* When the server has taken over, no pointer leads to something unfinished.
LEMMA NoOpenRefs == OpenRefs(37) = {}
<1>1. ASSUME NEW i \in 1..37, NEW c \in StartOrder[i].refs PROVE Parts(c) \subseteq Made(37)
  BY RefsAreComplete, Zenon DEF Complete
<1>. QED  BY <1>1, Zenon DEF OpenRefs

-----------------------------------------------------------------------------
(* The commands on home directories.                                       *)

Process ==
  [pc : Steps, cmd : Commands, evm : 0..MaxUint64, opts : 0..MaxUint64,
   chain : ChainIDs \cup {Empty, Random}, step : Nat]

FilesTyped ==
  /\ client \in [Homes -> GivenChains \cup {Empty, NoFile}]
  /\ appToml \in [Homes -> 0..MaxUint64]
  /\ genesis \in [Homes -> ChainIDs \cup {Random, NoFile}]
  /\ inits \in [Homes -> SUBSET (ChainIDs \cup {Empty})]
  /\ wrote \in [Homes -> SUBSET (ChainIDs \cup {Empty})]

Types == FilesTyped /\ proc \in [Procs -> Process]

\* resolveEVMChainID accepts the id.
Accepted(id) == resolveEVMChainID(id) \in 1..MaxUint64

\* The number n was resolved for an app.toml of home h.
FromToml(h, n) == \E id \in wrote[h] : n = resolveEVMChainID(id)

\* The id x may have come into the genesis of home h.
FromInit(h, x) ==
  \E id \in inits[h] : IF id = Empty THEN x \in GivenChains \cup {Random} ELSE x = id

HomeInv(h) ==
  /\ \A id \in inits[h] \cup wrote[h] : Accepted(id)
  /\ appToml[h] # NoToml => FromToml(h, appToml[h])
  /\ genesis[h] # NoFile => FromInit(h, genesis[h]) /\ appToml[h] # NoToml

Resolved == {"stat", "write", "load", "init", "new"}
Loaded   == {"init", "new", "construct", "running"}

ProcInv(p) ==
  LET h == HomeOf(p)
      network == proc[p].cmd.network
  IN /\ proc[p].pc \in Resolved =>
          proc[p].evm = resolveEVMChainID(network) /\ Accepted(network)
     /\ proc[p].pc \in Resolved /\ proc[p].cmd.kind = "init" => network \in inits[h]
     /\ proc[p].pc \in {"client", "resolve"} \cup Resolved =>
          proc[p].chain \in GivenChains \cup {Empty}
     /\ proc[p].pc = "init" => proc[p].cmd.kind = "init"
     /\ proc[p].pc = "write" => network \in wrote[h]
     /\ proc[p].pc \in {"load"} \cup Loaded => appToml[h] # NoToml
     /\ proc[p].pc \in Loaded => FromToml(h, proc[p].opts)
     /\ proc[p].pc \in {"construct", "running"} => FromToml(h, proc[p].evm)
     /\ proc[p].pc \in {"construct", "running"} /\ proc[p].cmd.kind = "start" =>
          IF proc[p].cmd.chain = Empty THEN FromInit(h, proc[p].chain)
                                       ELSE proc[p].chain = proc[p].cmd.chain
     /\ proc[p].pc = "running" => proc[p].cmd.kind = "start"

\* The step of app.New that a process has come to.
StepInv(p) ==
  /\ proc[p].step \in 0..Len(StartOrder)
  /\ proc[p].pc \notin {"construct", "running", "ended"} => proc[p].step = 0
  /\ proc[p].pc = "construct" => proc[p].step < LastStep(proc[p].cmd)
  /\ proc[p].pc = "running" => proc[p].step = Len(StartOrder)

NInv == Types /\ (\A h \in Homes : HomeInv(h)) /\ (\A p \in Procs : ProcInv(p) /\ StepInv(p))
-----------------------------------------------------------------------------
(***************************************************************************)
(* The operators of the model                                              *)
(***************************************************************************)
\* What resolveEVMChainID returns is an error, or fits and is what it parsed.
LEMMA ResolveFacts ==
  ASSUME NEW id
  PROVE  /\ resolveEVMChainID(id) # Error => Accepted(id)
         /\ Accepted(id) => resolveEVMChainID(id) # Error
         /\ resolveEVMChainID(Empty) = DefaultEVMChainID
         /\ id # Empty /\ Accepted(id) => /\ resolveEVMChainID(id) = ParseChainID(id)
                                          /\ ParseChainID(id) \in 1..MaxUint64
<1>1. ParseChainID(id) = Error \/ ParseChainID(id) \in Nat \ {0}
  BY NodeAssumption DEF ParseChainID
<1>2. resolveEVMChainID(Empty) = DefaultEVMChainID
  BY DEF resolveEVMChainID
<1>3. CASE id # Empty
  <2>1. resolveEVMChainID(id) = IF ParseChainID(id) > MaxUint64 THEN Error ELSE ParseChainID(id)
    BY <1>3 DEF resolveEVMChainID
  <2>. QED  BY <1>1, <1>2, <1>3, <2>1, NodeAssumption DEF Accepted, Error
<1>4. CASE id = Empty
  BY <1>2, <1>4, NodeAssumption DEF Accepted, Error
<1>. QED  BY <1>3, <1>4

LEMMA CommandFacts ==
  /\ \A c \in Commands : /\ c.home \in Homes /\ c.network \in ChainIDs \cup {Empty}
                         /\ c.chain \in GivenChains
  /\ GivenChains \subseteq ChainIDs \cup {Empty}
  /\ NoCommand \in Process /\ NoCommand.pc = "ended" /\ NoCommand.step = 0
<1>1. \A c \in Commands : /\ c.home \in Homes /\ c.network \in ChainIDs \cup {Empty}
                          /\ c.chain \in GivenChains /\ c.chain \in ChainIDs \cup {Empty}
  BY CommandAssumption DEF Command, GivenChains
<1>2. GivenChains \subseteq ChainIDs \cup {Empty}
  BY <1>1, CommandAssumption DEF GivenChains
<1>3. (CHOOSE c \in Commands : TRUE) \in Commands
  BY CommandAssumption
<1>4. NoCommand \in Process /\ NoCommand.pc = "ended" /\ NoCommand.step = 0
  BY <1>3, NodeAssumption DEF NoCommand, Process, Steps
<1>. QED  BY <1>1, <1>2, <1>4

\* The sentinels differ from every id that is given.
LEMMA Sentinels ==
  /\ NoFile \notin ChainIDs /\ Empty \notin ChainIDs /\ Random \notin ChainIDs
  /\ NoFile # Empty /\ NoFile # Random /\ Empty # Random
<1>1. NoFile.base # Empty.base /\ NoFile.base # Random.base /\ Empty.base # Random.base
  BY DEF NoFile, Empty, Random
<1>. QED  BY <1>1, CommandAssumption

\* The histories grow and no app.toml is removed.
Forward ==
  \A h \in Homes : /\ inits[h] \subseteq inits'[h] /\ wrote[h] \subseteq wrote'[h]
                   /\ appToml[h] # NoToml => appToml'[h] # NoToml

\* So where something came from stays true.
LEMMA OriginsKept ==
  ASSUME Forward, NEW h \in Homes, NEW x
  PROVE  (FromToml(h, x) => FromToml(h, x)') /\ (FromInit(h, x) => FromInit(h, x)')
BY DEF Forward, FromToml, FromInit, GivenChains

\* A process that does nothing is not disturbed by what another one does.
LEMMA OthersKept ==
  ASSUME NInv, Forward, NEW q \in Procs, proc'[q] = proc[q]
  PROVE  ProcInv(q)' /\ StepInv(q)'
<1>1. HomeOf(q) \in Homes /\ HomeOf(q)' = HomeOf(q) /\ ProcInv(q) /\ StepInv(q)
  BY CommandFacts DEF NInv, Types, Process, HomeOf
<1>2. \A x : /\ FromToml(HomeOf(q), x) => FromToml(HomeOf(q), x)'
             /\ FromInit(HomeOf(q), x) => FromInit(HomeOf(q), x)'
  BY <1>1, OriginsKept
<1>3. ProcInv(q)'
  BY <1>1, <1>2 DEF ProcInv, Forward
<1>4. StepInv(q)'
  BY <1>1 DEF StepInv
<1>. QED  BY <1>3, <1>4

\* A home of which only the histories grow.
LEMMA HomeKept ==
  ASSUME NInv, Forward, NEW h \in Homes,
         appToml'[h] = appToml[h], genesis'[h] = genesis[h],
         \A id \in (inits'[h] \cup wrote'[h]) \ (inits[h] \cup wrote[h]) : Accepted(id)
  PROVE  HomeInv(h)'
<1>1. HomeInv(h)
  BY DEF NInv
<1>2. \A id \in inits'[h] \cup wrote'[h] : Accepted(id)
  BY <1>1 DEF HomeInv
<1>3. \A x : (FromToml(h, x) => FromToml(h, x)') /\ (FromInit(h, x) => FromInit(h, x)')
  BY OriginsKept
<1>4. \A id : Accepted(id)' = Accepted(id)
  BY DEF Accepted, resolveEVMChainID, ParseChainID, Empty
<1>. QED  BY <1>1, <1>2, <1>3, <1>4 DEF HomeInv, NoToml, NoFile

\* What there is to show of a step of process p, which leaves it as r.
LEMMA OneStep ==
  ASSUME NInv, NEW p \in Procs, NEW r \in Process, proc' = [proc EXCEPT ![p] = r],
         FilesTyped', Forward, \A h \in Homes : HomeInv(h)',
         proc'[p] = r => ProcInv(p)' /\ StepInv(p)'
  PROVE  NInv'
<1>1. proc \in [Procs -> Process]
  BY DEF NInv, Types
<1>2. /\ proc' \in [Procs -> Process] /\ proc'[p] = r
      /\ \A q \in Procs \ {p} : proc'[q] = proc[q]
  BY <1>1
<1>3. Types'
  BY <1>2 DEF Types, FilesTyped, Process
<1>4. \A q \in Procs : ProcInv(q)' /\ StepInv(q)'
  BY <1>2, OthersKept
<1>. QED  BY <1>3, <1>4 DEF NInv

\* Steps that leave the files of the homes, but for client.toml, alone.
LEMMA FilesKept ==
  ASSUME NInv, UNCHANGED <<appToml, genesis, inits, wrote>>
  PROVE  /\ Forward /\ \A h \in Homes : HomeInv(h)'
         /\ client' \in [Homes -> GivenChains \cup {Empty, NoFile}] => FilesTyped'
<1>1. Forward
  BY DEF Forward
<1>2. \A h \in Homes : HomeInv(h)'
  BY <1>1, HomeKept
<1>3. client' \in [Homes -> GivenChains \cup {Empty, NoFile}] => FilesTyped'
  BY DEF NInv, Types, FilesTyped, GivenChains, Empty, NoFile, Random
<1>. QED  BY <1>1, <1>2, <1>3

\* A process that has ended promises nothing more.
LEMMA EndedInv ==
  ASSUME NEW p, proc'[p].pc = "ended", proc'[p].step \in 0..Len(StartOrder)
  PROVE  ProcInv(p)' /\ StepInv(p)'
BY DEF ProcInv, StepInv, Resolved, Loaded

LEMMA InitNInv == Init => NInv
<1>. HAVE Init
<1>1. Types
  <2>1. PICK id \in {NoFile} \cup Configured :
          client = [h \in Homes |-> IF h = DefaultHome THEN id ELSE NoFile]
    BY DEF Init
  <2>2. client \in [Homes -> GivenChains \cup {Empty, NoFile}]
    BY <2>1 DEF GivenChains
  <2>. QED  BY <2>2, CommandFacts, NodeAssumption DEF Init, Types, FilesTyped, NoToml
<1>2. \A h \in Homes : HomeInv(h)
  BY DEF Init, HomeInv
<1>3. \A p \in Procs : ProcInv(p) /\ StepInv(p)
  BY CommandFacts, OrderElements DEF Init, ProcInv, StepInv, Resolved, Loaded
<1>. QED  BY <1>1, <1>2, <1>3 DEF NInv
-----------------------------------------------------------------------------
(***************************************************************************)
(* NInv is inductive: one lemma per action.                                *)
(***************************************************************************)
\* The file is there afterwards, with an id that came from a flag or from the user.
LEMMA ClientConfigCreated ==
  ASSUME FilesTyped, NEW h \in Homes, NEW id \in GivenChains \cup {Empty},
         CreateClientConfig(h, id)
  PROVE  /\ client' \in [Homes -> GivenChains \cup {Empty, NoFile}]
         /\ client'[h] \in GivenChains \cup {Empty}
<1>1. client \in [Homes -> GivenChains \cup {Empty, NoFile}]
  BY DEF FilesTyped
<1>2. client' = IF client[h] = NoFile THEN [client EXCEPT ![h] = id] ELSE client
  BY DEF CreateClientConfig
<1>. QED  BY <1>1, <1>2

LEMMA NewRootCmdNInv ==
  ASSUME NInv, NEW p \in Procs, NewRootCmd(p)
  PROVE  NInv'
<1>1. PICK c \in Commands :
        proc' = [proc EXCEPT ![p] = [NoCommand EXCEPT !.pc = "client", !.cmd = c,
                                                      !.chain = client'[DefaultHome]]]
  BY DEF NewRootCmd
<1>. DEFINE r == [NoCommand EXCEPT !.pc = "client", !.cmd = c, !.chain = client'[DefaultHome]]
<1>3. UNCHANGED <<appToml, genesis, inits, wrote>>
  BY DEF NewRootCmd
<1>a. CreateClientConfig(DefaultHome, Empty)
  BY DEF NewRootCmd
<1>4. /\ client' \in [Homes -> GivenChains \cup {Empty, NoFile}]
      /\ client'[DefaultHome] \in GivenChains \cup {Empty}
  BY <1>a, NodeAssumption, ClientConfigCreated DEF NInv, Types
<1>2. /\ r \in Process /\ r.pc = "client" /\ r.step = 0 /\ r.cmd = c
      /\ r.chain \in GivenChains \cup {Empty}
  BY <1>4, CommandFacts DEF Process, Steps
<1>. HIDE DEF r
<1>5. FilesTyped' /\ Forward /\ \A h \in Homes : HomeInv(h)'
  BY <1>3, <1>4, FilesKept
<1>6. proc'[p] = r => ProcInv(p)' /\ StepInv(p)'
  BY <1>2, OrderElements DEF ProcInv, StepInv, Resolved, Loaded
<1>7. proc' = [proc EXCEPT ![p] = r]
  BY <1>1 DEF r
<1>. QED  BY <1>2, <1>5, <1>6, <1>7, OneStep

LEMMA ReadClientConfigNInv ==
  ASSUME NInv, NEW p \in Procs, ReadClientConfig(p)
  PROVE  NInv'
<1>. DEFINE h == HomeOf(p)
            c == proc[p].cmd.chain
            x == IF c # Empty THEN c ELSE client'[h]
            r == [proc[p] EXCEPT !.pc = "resolve", !.chain = x]
<1>1. /\ proc[p] \in Process /\ proc \in [Procs -> Process] /\ proc[p].pc = "client"
      /\ h \in Homes /\ c \in GivenChains /\ StepInv(p) /\ FilesTyped
      /\ proc[p].chain \in GivenChains \cup {Empty}
  BY CommandFacts DEF NInv, Types, Process, HomeOf, ReadClientConfig, At, ProcInv
<1>2. CreateClientConfig(h, IF c # Empty THEN c ELSE proc[p].chain)
  BY DEF ReadClientConfig
<1>a. (IF c # Empty THEN c ELSE proc[p].chain) \in GivenChains \cup {Empty}
  BY <1>1
<1>3. /\ client' \in [Homes -> GivenChains \cup {Empty, NoFile}]
      /\ client'[h] \in GivenChains \cup {Empty}
  BY <1>1, <1>2, <1>a, ClientConfigCreated
<1>4. x \in GivenChains \cup {Empty}
  BY <1>1, <1>3
<1>5. r \in Process /\ r.pc = "resolve" /\ r.step = 0 /\ r.chain = x
  BY <1>1, <1>4, CommandFacts DEF Process, Steps, StepInv
<1>6. proc' = [proc EXCEPT ![p] = r]
  BY <1>1 DEF ReadClientConfig
<1>7. UNCHANGED <<appToml, genesis, inits, wrote>>
  BY DEF ReadClientConfig
<1>8. FilesTyped' /\ Forward /\ \A k \in Homes : HomeInv(k)'
  BY <1>3, <1>7, FilesKept
<1>. HIDE DEF r, x
<1>9. proc'[p] = r => ProcInv(p)' /\ StepInv(p)'
  BY <1>4, <1>5, OrderElements DEF ProcInv, StepInv, Resolved, Loaded
<1>. QED  BY <1>5, <1>6, <1>8, <1>9, OneStep

LEMMA ProcFacts ==
  ASSUME NInv, NEW p \in Procs
  PROVE  /\ proc \in [Procs -> Process] /\ proc[p] \in Process /\ proc[p].cmd \in Commands
         /\ HomeOf(p) \in Homes /\ proc[p].cmd.network \in ChainIDs \cup {Empty}
         /\ ProcInv(p) /\ StepInv(p) /\ FilesTyped /\ HomeInv(HomeOf(p))
BY CommandFacts DEF NInv, Types, Process, HomeOf

\* A command ends, by itself, by an error or by a signal.
LEMMA EndNInv ==
  ASSUME NInv, NEW p \in Procs, End(p),
         FilesTyped', Forward, \A h \in Homes : HomeInv(h)'
  PROVE  NInv'
<1>1. proc' = [proc EXCEPT ![p] = NoCommand]
  BY DEF End
<1>2. proc'[p] = NoCommand => ProcInv(p)' /\ StepInv(p)'
  BY CommandFacts, OrderElements, EndedInv
<1>3. NoCommand \in Process
  BY CommandFacts
<1>. QED  BY <1>1, <1>2, <1>3, OneStep

LEMMA ResolveNInv ==
  ASSUME NInv, NEW p \in Procs, Resolve(p)
  PROVE  NInv'
<1>. DEFINE h == HomeOf(p)
            network == proc[p].cmd.network
            evm == resolveEVMChainID(network)
            r == [proc[p] EXCEPT !.pc = "stat", !.evm = evm]
<1>1. proc[p].pc = "resolve" /\ UNCHANGED <<client, appToml, genesis, wrote>>
  BY DEF Resolve, At
<1>2. CASE evm = Error
  <2>1. End(p) /\ UNCHANGED <<client, appToml, genesis, inits, wrote>>
    BY <1>1, <1>2 DEF Resolve
  <2>2. FilesTyped' /\ Forward /\ \A k \in Homes : HomeInv(k)'
    BY <2>1, ProcFacts, FilesKept DEF FilesTyped
  <2>. QED  BY <2>1, <2>2, EndNInv
<1>3. CASE evm # Error
  <2>1. /\ proc' = [proc EXCEPT ![p] = r]
        /\ inits' = IF proc[p].cmd.kind = "init"
                    THEN [inits EXCEPT ![h] = inits[h] \cup {network}] ELSE inits
    BY <1>3, ProcFacts DEF Resolve
  <2>2. Accepted(network) /\ evm \in 0..MaxUint64
    BY <1>3, ResolveFacts, NodeAssumption DEF Accepted
  <2>3. r \in Process /\ r.pc = "stat" /\ r.step = 0 /\ r.evm = evm /\ r.cmd = proc[p].cmd
        /\ r.chain = proc[p].chain /\ r.chain \in GivenChains \cup {Empty}
    BY <1>1, <2>2, ProcFacts DEF Process, Steps, StepInv, ProcInv
  <2>4. /\ h \in Homes /\ network \in ChainIDs \cup {Empty}
        /\ inits \in [Homes -> SUBSET (ChainIDs \cup {Empty})]
    BY ProcFacts DEF FilesTyped
  <2>5. /\ inits' \in [Homes -> SUBSET (ChainIDs \cup {Empty})]
        /\ \A k \in Homes : /\ inits[k] \subseteq inits'[k]
                            /\ inits'[k] \subseteq inits[k] \cup {network}
        /\ proc[p].cmd.kind = "init" => network \in inits'[h]
    BY <2>1, <2>4
  <2>6. FilesTyped'
    BY <1>1, <2>5, ProcFacts DEF FilesTyped, GivenChains, Empty, NoFile, Random
  <2>7. Forward
    BY <1>1, <2>5 DEF Forward
  <2>8. \A k \in Homes : HomeInv(k)'
    BY <1>1, <2>2, <2>5, <2>7, HomeKept
  <2>. HIDE DEF r
  <2>9. ASSUME proc'[p] = r PROVE ProcInv(p)' /\ StepInv(p)'
    <3>1. HomeOf(p)' = h /\ Accepted(network)' /\ resolveEVMChainID(network)' = evm
      BY <2>2, <2>3, <2>9
         DEF HomeOf, Accepted, resolveEVMChainID, ParseChainID, Empty
    <3>2. ProcInv(p)'
      BY <2>3, <2>5, <2>9, <3>1 DEF ProcInv, Resolved, Loaded
    <3>3. StepInv(p)'
      BY <2>3, <2>9, OrderElements DEF StepInv
    <3>. QED  BY <3>2, <3>3
  <2>. QED  BY <2>1, <2>3, <2>6, <2>7, <2>8, <2>9, OneStep
<1>. QED  BY <1>2, <1>3

\* A process that goes on with its record, but for its pc, as it was.
LEMMA GotoFacts ==
  ASSUME NInv, NEW p \in Procs, NEW pc \in Steps, Goto(p, pc)
  PROVE  \E r \in Process :
           /\ proc' = [proc EXCEPT ![p] = r]
           /\ r.pc = pc /\ r.cmd = proc[p].cmd /\ r.evm = proc[p].evm
           /\ r.opts = proc[p].opts /\ r.chain = proc[p].chain /\ r.step = proc[p].step
<1>. DEFINE r == [proc[p] EXCEPT !.pc = pc]
<1>1. /\ r \in Process /\ r.pc = pc /\ r.cmd = proc[p].cmd /\ r.evm = proc[p].evm
      /\ r.opts = proc[p].opts /\ r.chain = proc[p].chain /\ r.step = proc[p].step
  BY ProcFacts DEF Process
<1>2. proc' = [proc EXCEPT ![p] = r]
  BY ProcFacts DEF Goto
<1>. HIDE DEF r
<1>. QED  BY <1>1, <1>2

LEMMA StatAppTomlNInv ==
  ASSUME NInv, NEW p \in Procs, StatAppToml(p)
  PROVE  NInv'
<1>h. PICK h \in Homes : h = HomeOf(p)
  BY ProcFacts
<1>n. PICK network \in ChainIDs \cup {Empty} : network = proc[p].cmd.network
  BY ProcFacts
<1>1. proc[p].pc = "stat" /\ UNCHANGED <<client, appToml, genesis, inits>>
  BY DEF StatAppToml, At
<1>2. PICK pc \in {"write", "load"} :
        /\ Goto(p, pc) /\ (pc = "load" => appToml[h] # NoToml)
        /\ wrote' = IF pc = "write" THEN [wrote EXCEPT ![h] = wrote[h] \cup {network}]
                                    ELSE wrote
  BY <1>h, <1>n DEF StatAppToml
<1>3. PICK r \in Process :
        /\ proc' = [proc EXCEPT ![p] = r]
        /\ r.pc = pc /\ r.cmd = proc[p].cmd /\ r.evm = proc[p].evm
        /\ r.opts = proc[p].opts /\ r.chain = proc[p].chain /\ r.step = proc[p].step
  BY <1>2, GotoFacts DEF Steps
<1>4. /\ Accepted(network) /\ wrote \in [Homes -> SUBSET (ChainIDs \cup {Empty})]
  BY <1>h, <1>n, <1>1, ProcFacts DEF FilesTyped, ProcInv, Resolved
<1>5. /\ wrote' \in [Homes -> SUBSET (ChainIDs \cup {Empty})]
      /\ \A k \in Homes : /\ wrote[k] \subseteq wrote'[k]
                          /\ wrote'[k] \subseteq wrote[k] \cup {network}
      /\ pc = "write" => network \in wrote'[h]
  BY <1>2, <1>4
<1>6. FilesTyped'
  BY <1>1, <1>5, ProcFacts DEF FilesTyped, GivenChains, Empty, NoFile, Random
<1>7. Forward
  BY <1>1, <1>5 DEF Forward
<1>8. \A k \in Homes : HomeInv(k)'
  BY <1>1, <1>4, <1>5, <1>7, HomeKept
<1>9. ASSUME proc'[p] = r PROVE ProcInv(p)' /\ StepInv(p)'
  <2>1. HomeOf(p)' = h /\ proc'[p].cmd.network = network
    BY <1>h, <1>n, <1>3, <1>9 DEF HomeOf
  <2>2. ProcInv(p) /\ StepInv(p)
    BY ProcFacts
  <2>3. ProcInv(p)'
    BY <1>h, <1>n, <1>1, <1>2, <1>3, <1>5, <1>9, <2>1, <2>2 DEF ProcInv, Resolved, Loaded, NoToml
  <2>4. StepInv(p)'
    BY <1>1, <1>3, <1>9, <2>2 DEF StepInv
  <2>. QED  BY <2>3, <2>4
<1>. QED  BY <1>3, <1>6, <1>7, <1>8, <1>9, OneStep

LEMMA WriteAppTomlNInv ==
  ASSUME NInv, NEW p \in Procs, WriteAppToml(p)
  PROVE  NInv'
<1>h. PICK h \in Homes : h = HomeOf(p)
  BY ProcFacts
<1>n. PICK network \in ChainIDs \cup {Empty} : network = proc[p].cmd.network
  BY ProcFacts
<1>1. /\ proc[p].pc = "write" /\ UNCHANGED <<client, genesis, inits, wrote>>
      /\ appToml' = [appToml EXCEPT ![h] = proc[p].evm] /\ Goto(p, "load")
  BY <1>h DEF WriteAppToml, At
<1>2. PICK r \in Process :
        /\ proc' = [proc EXCEPT ![p] = r]
        /\ r.pc = "load" /\ r.cmd = proc[p].cmd /\ r.evm = proc[p].evm
        /\ r.opts = proc[p].opts /\ r.chain = proc[p].chain /\ r.step = proc[p].step
  BY <1>1, GotoFacts DEF Steps
<1>3. /\ proc[p].evm = resolveEVMChainID(network) /\ Accepted(network)
      /\ network \in wrote[h] /\ appToml \in [Homes -> 0..MaxUint64]
  BY <1>h, <1>n, <1>1, ProcFacts DEF FilesTyped, ProcInv, Resolved
<1>4. /\ appToml' \in [Homes -> 0..MaxUint64]
      /\ appToml'[h] = proc[p].evm /\ appToml'[h] # NoToml
      /\ \A k \in Homes \ {h} : appToml'[k] = appToml[k]
  BY <1>1, <1>3, NodeAssumption DEF Accepted, NoToml
<1>5. FilesTyped'
  BY <1>1, <1>4, ProcFacts DEF FilesTyped, GivenChains, Empty, NoFile, Random
<1>6. Forward
  BY <1>1, <1>4 DEF Forward
<1>7. HomeInv(h)'
  <2>1. \A id \in inits[h] \cup wrote[h] : Accepted(id)
    BY <1>h, ProcFacts DEF HomeInv
  <2>2. FromToml(h, appToml[h])'
    BY <1>1, <1>3, <1>4 DEF FromToml, resolveEVMChainID, ParseChainID, Empty
  <2>3. genesis[h] # NoFile => FromInit(h, genesis[h])
    BY <1>h, ProcFacts DEF HomeInv
  <2>4. genesis'[h] # NoFile => FromInit(h, genesis[h])'
    BY <1>1, <2>3 DEF FromInit, GivenChains, Empty, Random
  <2>5. \A id : Accepted(id)' = Accepted(id)
    BY DEF Accepted, resolveEVMChainID, ParseChainID, Empty
  <2>. QED  BY <1>1, <1>4, <2>1, <2>2, <2>4, <2>5 DEF HomeInv, NoToml, NoFile
<1>8. \A k \in Homes : HomeInv(k)'
  BY <1>1, <1>4, <1>6, <1>7, HomeKept
<1>9. ASSUME proc'[p] = r PROVE ProcInv(p)' /\ StepInv(p)'
  <2>1. HomeOf(p)' = h /\ proc'[p].cmd.network = network
    BY <1>h, <1>n, <1>2, <1>9 DEF HomeOf
  <2>2. ProcInv(p) /\ StepInv(p)
    BY ProcFacts
  <2>3. ProcInv(p)'
    BY <1>h, <1>n, <1>1, <1>2, <1>4, <1>9, <2>1, <2>2 DEF ProcInv, Resolved, Loaded, NoToml
  <2>4. StepInv(p)'
    BY <1>1, <1>2, <1>9, <2>2 DEF StepInv
  <2>. QED  BY <2>3, <2>4
<1>. QED  BY <1>2, <1>5, <1>6, <1>8, <1>9, OneStep

LEMMA LoadAppTomlNInv ==
  ASSUME NInv, NEW p \in Procs, LoadAppToml(p)
  PROVE  NInv'
<1>h. PICK h \in Homes : h = HomeOf(p)
  BY ProcFacts
<1>1. proc[p].pc = "load" /\ UNCHANGED <<client, appToml, genesis, inits, wrote>>
  BY DEF LoadAppToml, At
<1>2. FilesTyped' /\ Forward /\ \A k \in Homes : HomeInv(k)'
  BY <1>1, ProcFacts, FilesKept DEF FilesTyped
<1>3. CASE proc[p].cmd.kind = "other"
  BY <1>2, <1>3, EndNInv DEF LoadAppToml
<1>4. CASE proc[p].cmd.kind # "other"
  <2>. DEFINE pc == IF proc[p].cmd.kind = "init" THEN "init" ELSE "new"
              r == [proc[p] EXCEPT !.opts = appToml[h], !.pc = pc]
  <2>1. proc' = [proc EXCEPT ![p] = r]
    BY <1>h, <1>4, ProcFacts DEF LoadAppToml
  <2>2. pc \in {"init", "new"} /\ (pc = "init" => proc[p].cmd.kind = "init")
    OBVIOUS
  <2>. HIDE DEF pc
  <2>3. /\ r \in Process /\ r.pc = pc /\ r.cmd = proc[p].cmd /\ r.evm = proc[p].evm
        /\ r.opts = appToml[h] /\ r.chain = proc[p].chain /\ r.step = proc[p].step
    BY <2>2, ProcFacts DEF Process, Steps, FilesTyped
  <2>. HIDE DEF r
  <2>4. appToml[h] # NoToml /\ FromToml(h, appToml[h])
    BY <1>h, <1>1, ProcFacts DEF ProcInv, HomeInv
  <2>5. ASSUME proc'[p] = r PROVE ProcInv(p)' /\ StepInv(p)'
    <3>1. HomeOf(p)' = h /\ ProcInv(p) /\ StepInv(p)
      BY <1>h, <2>3, <2>5, ProcFacts DEF HomeOf
    <3>2. FromToml(h, appToml[h])'
      BY <1>1, <2>4 DEF FromToml
    <3>3. ProcInv(p)'
      BY <1>h, <1>1, <2>2, <2>3, <2>4, <2>5, <3>1, <3>2 DEF ProcInv, Resolved, Loaded, NoToml
    <3>4. StepInv(p)'
      BY <1>1, <2>2, <2>3, <2>5, <3>1 DEF StepInv
    <3>. QED  BY <3>3, <3>4
  <2>. QED  BY <1>2, <2>1, <2>3, <2>5, OneStep
<1>. QED  BY <1>3, <1>4

\* The id that init saves is its --network-id, unless it was given none.
LEMMA RunInitNInv ==
  ASSUME NInv, NEW p \in Procs, RunInit(p)
  PROVE  NInv'
<1>h. PICK h \in Homes : h = HomeOf(p) /\ h = proc[p].cmd.home
  BY ProcFacts DEF HomeOf
<1>n. PICK network \in ChainIDs \cup {Empty} : network = proc[p].cmd.network
  BY ProcFacts
<1>1. proc[p].pc = "init" /\ End(p) /\ UNCHANGED <<client, appToml, inits, wrote>>
  BY DEF RunInit, At
<1>2. /\ proc[p].cmd.kind = "init" /\ network \in inits[h] /\ appToml[h] # NoToml
      /\ proc[p].chain \in GivenChains \cup {Empty} /\ proc[p].cmd.chain \in GivenChains
  BY <1>h, <1>n, <1>1, ProcFacts, CommandFacts DEF ProcInv, Resolved, Loaded
<1>3. PICK id : /\ network # Empty => id = network
                /\ network = Empty => id \in GivenChains \cup {Random}
                /\ id # Empty /\ id # NoFile
                /\ genesis' = genesis \/ genesis' = [genesis EXCEPT ![h] = id]
  <2>1. CASE genesis' = genesis
    <3>1. CASE network # Empty
      BY <1>n, <2>1, <3>1, Sentinels
    <3>2. CASE network = Empty
      BY <2>1, <3>2, Sentinels
    <3>. QED  BY <3>1, <3>2
  <2>2. CASE genesis' # genesis
    <3>. DEFINE flag == setNetworkIDFlag(proc[p].cmd)
                id == IF flag.chain # Empty THEN flag.chain
                      ELSE IF proc[p].chain # Empty THEN proc[p].chain ELSE Random
    <3>1. genesis' = [genesis EXCEPT ![h] = id]
      BY <1>h, <2>2 DEF RunInit
    <3>2. flag.chain = IF network = Empty THEN proc[p].cmd.chain ELSE network
      BY <1>n DEF setNetworkIDFlag
    <3>3. network # Empty => id = network
      BY <3>2
    <3>4. network = Empty => id \in GivenChains \cup {Random}
      BY <1>2, <3>2
    <3>5. id # Empty /\ id # NoFile
      BY <1>2, <3>2, Sentinels, CommandFacts
    <3>. HIDE DEF id
    <3>. QED  BY <3>1, <3>3, <3>4, <3>5
  <2>. QED  BY <2>1, <2>2
<1>4. id \in ChainIDs \cup {Random}
  BY <1>n, <1>3, CommandFacts
<1>5. FilesTyped'
  <2>1. genesis' \in [Homes -> ChainIDs \cup {Random, NoFile}]
    BY <1>3, <1>4, ProcFacts DEF FilesTyped
  <2>. QED  BY <1>1, <2>1, ProcFacts DEF FilesTyped, GivenChains, Empty, NoFile, Random
<1>6. Forward
  BY <1>1 DEF Forward
<1>7. \A k \in Homes : HomeInv(k)'
  <2>. TAKE k \in Homes
  <2>1. CASE genesis'[k] = genesis[k]
    BY <1>1, <1>6, <2>1, HomeKept
  <2>2. CASE genesis'[k] # genesis[k]
    <3>1. k = h /\ genesis'[h] = id
      BY <1>3, <2>2, ProcFacts DEF FilesTyped
    <3>2. FromInit(h, id)
      BY <1>2, <1>3 DEF FromInit
    <3>3. HomeInv(h)
      BY <1>h, ProcFacts
    <3>. QED  BY <1>1, <1>2, <3>1, <3>2, <3>3 DEF HomeInv, FromInit, FromToml
  <2>. QED  BY <2>1, <2>2
<1>. QED  BY <1>1, <1>5, <1>6, <1>7, EndNInv

\* The chain id of BaseApp: from the flag, from genesis.json, or none for an export.
LEMMA BaseAppChainIDFacts ==
  ASSUME NInv, NEW p \in Procs, NEW cmd, cmd = proc[p].cmd,
         ~ (NeedsGenesis(cmd) /\ genesis[cmd.home] = NoFile)
  PROVE  /\ BaseAppChainID(cmd) \in ChainIDs \cup {Empty, Random}
         /\ cmd.kind # "export" => IF cmd.chain = Empty
                                   THEN FromInit(cmd.home, BaseAppChainID(cmd))
                                   ELSE BaseAppChainID(cmd) = cmd.chain
<1>1. /\ cmd.home \in Homes /\ cmd.chain \in ChainIDs \cup {Empty}
      /\ genesis[cmd.home] \in ChainIDs \cup {Random, NoFile} /\ HomeInv(cmd.home)
  BY ProcFacts, CommandFacts DEF FilesTyped, HomeOf
<1>2. CASE cmd.kind = "export"
  BY <1>2 DEF BaseAppChainID
<1>3. CASE cmd.kind # "export" /\ cmd.chain # Empty
  BY <1>1, <1>3 DEF BaseAppChainID
<1>4. CASE cmd.kind # "export" /\ cmd.chain = Empty
  <2>1. genesis[cmd.home] # NoFile /\ BaseAppChainID(cmd) = genesis[cmd.home]
    BY <1>4 DEF NeedsGenesis, BaseAppChainID
  <2>2. FromInit(cmd.home, genesis[cmd.home])
    BY <1>1, <2>1 DEF HomeInv
  <2>. QED  BY <1>1, <1>4, <2>1, <2>2
<1>. QED  BY <1>2, <1>3, <1>4

LEMMA BeginNewNInv ==
  ASSUME NInv, NEW p \in Procs, BeginNew(p)
  PROVE  NInv'
<1>h. PICK h \in Homes : h = HomeOf(p) /\ h = proc[p].cmd.home
  BY ProcFacts DEF HomeOf
<1>1. proc[p].pc = "new" /\ UNCHANGED <<client, appToml, genesis, inits, wrote>>
  BY DEF BeginNew, At
<1>2. FilesTyped' /\ Forward /\ \A k \in Homes : HomeInv(k)'
  BY <1>1, ProcFacts, FilesKept DEF FilesTyped
<1>. DEFINE cmd == proc[p].cmd
            none == NeedsGenesis(cmd) /\ genesis[cmd.home] = NoFile
<1>3. CASE none
  BY <1>2, <1>3, EndNInv DEF BeginNew
<1>4. CASE ~ none
  <2>0. PICK chain : chain = BaseAppChainID(cmd)
    OBVIOUS
  <2>. DEFINE r == [proc[p] EXCEPT !.pc = "construct", !.evm = proc[p].opts, !.chain = chain]
  <2>1. proc' = [proc EXCEPT ![p] = r]
    BY <1>4, <2>0, ProcFacts DEF BeginNew
  <2>a. /\ chain \in ChainIDs \cup {Empty, Random}
        /\ cmd.kind # "export" => IF cmd.chain = Empty THEN FromInit(h, chain)
                                                       ELSE chain = cmd.chain
    BY <1>h, <1>4, <2>0, BaseAppChainIDFacts
  <2>2. /\ r \in Process /\ r.pc = "construct" /\ r.cmd = proc[p].cmd
        /\ r.evm = proc[p].opts /\ r.opts = proc[p].opts
        /\ r.chain = chain /\ r.step = proc[p].step
    BY <2>a, ProcFacts DEF Process, Steps
  <2>. HIDE DEF r
  <2>3. /\ FromToml(h, proc[p].opts) /\ appToml[h] # NoToml
        /\ proc[p].step = 0
    BY <1>h, <1>1, ProcFacts DEF ProcInv, Loaded, StepInv
  <2>4. ASSUME proc'[p] = r PROVE ProcInv(p)' /\ StepInv(p)'
    <3>1. HomeOf(p)' = h
      BY <1>h, <2>2, <2>4 DEF HomeOf
    <3>2. FromToml(h, proc[p].opts)'
      BY <1>1, <2>2, <2>3, <2>4 DEF FromToml
    <3>5. FromInit(h, chain) => FromInit(h, chain)'
      BY <1>2, OriginsKept
    <3>3. ProcInv(p)'
      BY <1>1, <2>2, <2>a, <2>3, <2>4, <3>1, <3>2, <3>5 DEF ProcInv, Resolved, Loaded, NoToml, Empty
    <3>4. StepInv(p)'
      BY <2>2, <2>3, <2>4, OrderElements DEF StepInv, LastStep
    <3>. QED  BY <3>3, <3>4
  <2>. QED  BY <1>2, <2>1, <2>2, <2>4, OneStep
<1>. QED  BY <1>3, <1>4

LEMMA ConstructNInv ==
  ASSUME NInv, NEW p \in Procs, Construct(p)
  PROVE  NInv'
<1>h. PICK h \in Homes : h = HomeOf(p)
  BY ProcFacts
<1>1. proc[p].pc = "construct" /\ UNCHANGED <<client, appToml, genesis, inits, wrote>>
  BY DEF Construct, At
<1>2. FilesTyped' /\ Forward /\ \A k \in Homes : HomeInv(k)'
  BY <1>1, ProcFacts, FilesKept DEF FilesTyped
<1>3. CASE End(p)
  BY <1>2, <1>3, EndNInv
<1>4. CASE ~ End(p)
  <2>. DEFINE k == proc[p].step + 1
              last == LastStep(proc[p].cmd)
              pc == IF k < last THEN "construct" ELSE "running"
              r == [proc[p] EXCEPT !.step = k, !.pc = pc]
  <2>1. proc' = [proc EXCEPT ![p] = r] /\ (k < last \/ MayRun(proc[p].cmd))
    BY <1>4, ProcFacts DEF Construct
  <2>2. /\ proc[p].step \in Nat /\ proc[p].step < last
        /\ last \in Nat /\ last <= Len(StartOrder) /\ Len(StartOrder) \in Nat
        /\ MayRun(proc[p].cmd) => proc[p].cmd.kind = "start" /\ last = Len(StartOrder)
    BY <1>1, ProcFacts, OrderElements DEF StepInv, LastStep, Process, MayRun
  <2>3. /\ k \in 0..Len(StartOrder) /\ k \in Nat /\ (pc = "construct" => k < last)
        /\ pc = "running" => k = Len(StartOrder) /\ proc[p].cmd.kind = "start"
    BY <2>1, <2>2
  <2>4. pc \in {"construct", "running"}
    OBVIOUS
  <2>. HIDE DEF pc, k
  <2>5. /\ r \in Process /\ r.pc = pc /\ r.cmd = proc[p].cmd
        /\ r.evm = proc[p].evm /\ r.opts = proc[p].opts
        /\ r.chain = proc[p].chain /\ r.step = k
    BY <2>3, <2>4, ProcFacts DEF Process, Steps
  <2>. HIDE DEF r
  <2>6. /\ FromToml(h, proc[p].opts) /\ appToml[h] # NoToml /\ FromToml(h, proc[p].evm)
        /\ proc[p].cmd.kind = "start" => IF proc[p].cmd.chain = Empty
                                         THEN FromInit(h, proc[p].chain)
                                         ELSE proc[p].chain = proc[p].cmd.chain
    BY <1>h, <1>1, ProcFacts DEF ProcInv, Loaded
  <2>8. PICK chain : chain = proc[p].chain
    OBVIOUS
  <2>7. ASSUME proc'[p] = r PROVE ProcInv(p)' /\ StepInv(p)'
    <3>1. HomeOf(p)' = h
      BY <1>h, <2>5, <2>7 DEF HomeOf
    <3>2. FromToml(h, proc[p].opts)' /\ FromToml(h, proc[p].evm)'
      BY <1>1, <2>5, <2>6, <2>7 DEF FromToml
    <3>5. FromInit(h, chain) => FromInit(h, chain)'
      BY <1>2, OriginsKept
    <3>6. proc'[p].chain = chain
      BY <2>5, <2>7, <2>8
    <3>3. ProcInv(p)'
      BY <1>1, <2>3, <2>5, <2>4, <2>6, <2>7, <2>8, <3>1, <3>2, <3>5, <3>6
         DEF ProcInv, Resolved, Loaded, NoToml, Empty
    <3>4. StepInv(p)'
      BY <2>3, <2>5, <2>4, <2>7 DEF StepInv, LastStep
    <3>. QED  BY <3>3, <3>4
  <2>. QED  BY <1>2, <2>1, <2>5, <2>7, OneStep
<1>. QED  BY <1>3, <1>4

LEMMA KillNInv ==
  ASSUME NInv, NEW p \in Procs, Kill(p)
  PROVE  NInv'
<1>1. End(p) /\ UNCHANGED <<client, appToml, genesis, inits, wrote>>
  BY DEF Kill
<1>2. FilesTyped' /\ Forward /\ \A h \in Homes : HomeInv(h)'
  BY <1>1, ProcFacts, FilesKept DEF FilesTyped
<1>. QED  BY <1>1, <1>2, EndNInv

LEMMA NextNInv == NInv /\ [Next]_vars => NInv'
<1>. SUFFICES ASSUME NInv, [Next]_vars PROVE NInv'
  OBVIOUS
<1>1. CASE Next
  <2>1. PICK p \in Procs :
          \/ NewRootCmd(p) \/ ReadClientConfig(p) \/ Resolve(p)
          \/ StatAppToml(p) \/ WriteAppToml(p) \/ LoadAppToml(p)
          \/ RunInit(p) \/ BeginNew(p) \/ Construct(p) \/ Kill(p)
    BY <1>1 DEF Next
  <2>. QED
    BY <2>1, NewRootCmdNInv, ReadClientConfigNInv, ResolveNInv, StatAppTomlNInv,
       WriteAppTomlNInv, LoadAppTomlNInv, RunInitNInv, BeginNewNInv, ConstructNInv, KillNInv
<1>2. CASE UNCHANGED vars
  <2>1. UNCHANGED <<client, appToml, genesis, proc, inits, wrote>>
    BY <1>2 DEF vars
  <2>2. FilesTyped' /\ Forward /\ \A h \in Homes : HomeInv(h)'
    BY <2>1, FilesKept DEF NInv, Types, FilesTyped
  <2>3. \A p \in Procs : ProcInv(p)' /\ StepInv(p)'
    BY <2>1, <2>2, OthersKept
  <2>4. Types'
    BY <2>1, <2>2 DEF NInv, Types
  <2>. QED  BY <2>2, <2>3, <2>4 DEF NInv
<1>. QED  BY <1>1, <1>2

LEMMA SpecNInv == Spec => []NInv
BY InitNInv, NextNInv, PTL DEF Spec
-----------------------------------------------------------------------------
(***************************************************************************)
(* Theorems                                                                *)
(***************************************************************************)
\* The files and the commands of monod have their types; in particular no
\* command ever goes beyond the last step of app.New and start.
THEOREM NodeTypes == Spec => []TypeOK
<1>1. NInv => TypeOK
  <2>. HAVE NInv
  <2>1. FilesTyped /\ proc \in [Procs -> Process] /\ \A p \in Procs : StepInv(p)
    BY DEF NInv, Types
  <2>2. client \in [Homes -> ChainIDs \cup {Empty, NoFile}]
    BY <2>1, CommandFacts DEF FilesTyped
  <2>3. \A h \in Homes : inits[h] \cup wrote[h] \subseteq ChainIDs \cup {Empty}
    BY <2>1 DEF FilesTyped
  <2>4. \A p \in Procs : /\ proc[p].pc \in Steps /\ proc[p].cmd \in Command
                         /\ proc[p].step \in 0..Len(StartOrder)
    BY <2>1, CommandAssumption DEF Process, StepInv
  <2>. QED  BY <2>1, <2>2, <2>3, <2>4 DEF TypeOK, FilesTyped
<1>. QED  BY <1>1, SpecNInv, PTL

\* What a home that was made for one network id has in its files.
LEMMA OneIdOnly ==
  ASSUME NInv, NEW h \in Homes, NEW id \in ChainIDs, MadeFor(h, id)
  PROVE  /\ \A n : FromToml(h, n) => n = ParseChainID(id)
         /\ \A x : FromInit(h, x) => x = id
<1>1. id # Empty /\ inits[h] = {id} /\ wrote[h] = {id}
  BY Sentinels DEF MadeFor
<1>2. Accepted(id)
  BY <1>1 DEF NInv, HomeInv
<1>3. resolveEVMChainID(id) = ParseChainID(id)
  BY <1>1, <1>2, ResolveFacts
<1>. QED  BY <1>1, <1>3 DEF FromToml, FromInit

\* However the init commands on a home overlap, are repeated or killed: if all
\* of them, and whoever created app.toml, had the same --network-id, a genesis
\* that exists has this id and app.toml its number.
THEOREM OneNetworkIDInBothFiles == Spec => []NetworkIDReachesBothFiles
<1>1. NInv => NetworkIDReachesBothFiles
  <2>. SUFFICES ASSUME NInv, NEW h \in Homes, NEW id \in ChainIDs,
                       MadeFor(h, id), genesis[h] # NoFile
                PROVE  genesis[h] = id /\ appToml[h] = ParseChainID(id)
    BY DEF NetworkIDReachesBothFiles
  <2>1. FromInit(h, genesis[h]) /\ FromToml(h, appToml[h])
    BY DEF NInv, HomeInv
  <2>. QED  BY <2>1, OneIdOnly
<1>. QED  BY <1>1, SpecNInv, PTL

\* A node that runs on such a home has read both, although the files may have been
\* written again since; only the chain id gives way to another --chain-id.
THEOREM RunningNodesAgree == Spec => []RunningNodeHasBothIds
<1>1. NInv => RunningNodeHasBothIds
  <2>. SUFFICES ASSUME NInv, NEW p \in Procs, NEW id \in ChainIDs,
                       At(p, "running"), MadeFor(HomeOf(p), id)
                PROVE  /\ proc[p].evm = ParseChainID(id)
                       /\ proc[p].cmd.chain \in {Empty, id} => proc[p].chain = id
    BY DEF RunningNodeHasBothIds
  <2>1. FromToml(HomeOf(p), proc[p].evm)
    BY ProcFacts DEF At, ProcInv
  <2>2. IF proc[p].cmd.chain = Empty THEN FromInit(HomeOf(p), proc[p].chain)
                                     ELSE proc[p].chain = proc[p].cmd.chain
    BY ProcFacts DEF At, ProcInv
  <2>. QED  BY <2>1, <2>2, OneIdOnly, ProcFacts
<1>. QED  BY <1>1, SpecNInv, PTL

\* No id that resolveEVMChainID refuses reaches app.toml, nor genesis.json by
\* way of --network-id.
THEOREM RefusedIdsAreNotSaved == Spec => []RefusedIdsLeaveNoTrace
<1>1. NInv => RefusedIdsLeaveNoTrace
  <2>. SUFFICES ASSUME NInv, NEW h \in Homes
                PROVE  /\ appToml[h] # NoToml =>
                            \/ appToml[h] = DefaultEVMChainID
                            \/ \E id \in wrote[h] : appToml[h] = ParseChainID(id)
                       /\ genesis[h] \in {c.network : c \in Commands} \ GivenChains =>
                            ParseChainID(genesis[h]) \in 1..MaxUint64
    BY DEF RefusedIdsLeaveNoTrace
  <2>1. HomeInv(h)
    BY DEF NInv
  <2>2. ASSUME appToml[h] # NoToml
        PROVE  \/ appToml[h] = DefaultEVMChainID
               \/ \E id \in wrote[h] : appToml[h] = ParseChainID(id)
    <3>1. PICK id \in wrote[h] : appToml[h] = resolveEVMChainID(id)
      BY <2>1, <2>2 DEF HomeInv, FromToml
    <3>. QED  BY <2>1, <3>1, ResolveFacts DEF HomeInv
  <2>3. ASSUME NEW c \in Commands, genesis[h] = c.network, genesis[h] \notin GivenChains
        PROVE  ParseChainID(genesis[h]) \in 1..MaxUint64
    <3>1. genesis[h] \in ChainIDs \cup {Empty} /\ genesis[h] # NoFile
      BY <2>3, CommandFacts, Sentinels
    <3>2. genesis[h] # Empty /\ genesis[h] # Random
      BY <3>1, Sentinels DEF NInv, Types, FilesTyped
    <3>3. PICK id \in inits[h] :
            IF id = Empty THEN genesis[h] \in GivenChains \cup {Random} ELSE genesis[h] = id
      BY <2>1, <3>1 DEF HomeInv, FromInit
    <3>4. id # Empty /\ genesis[h] = id
      BY <2>3, <3>2, <3>3
    <3>. QED  BY <2>1, <3>4, ResolveFacts DEF HomeInv
  <2>. QED  BY <2>2, <2>3
<1>. QED  BY <1>1, SpecNInv, PTL

\* While app.New and the server put the node together, nothing is copied before it
\* is complete but the client context of the mempool, which keeps the empty one that
\* the app has until SetClientCtx, and the txConfig of BaseApp, which is replaced.
THEOREM NoOtherCopyIsStale == Spec => []OnlyTwoCopiesAreStale
<1>1. NInv => OnlyTwoCopiesAreStale
  <2>. SUFFICES ASSUME NInv, NEW p \in Procs
                PROVE  StaleCopies(proc[p].step) \subseteq KnownStale
    BY DEF OnlyTwoCopiesAreStale, KnownStale
  <2>1. proc[p].step \in 0..37
    BY OrderElements DEF NInv, StepInv
  <2>. QED  BY <2>1, StaleCopyIsKnown
<1>. QED  BY <1>1, SpecNInv, PTL

\* A running node has gone through every step, and no address that a step was given
\* before its keeper was made still leads to something unfinished.
THEOREM RunningNodesAreWired == Spec => []RunningAppIsWired
<1>1. NInv => RunningAppIsWired
  <2>. SUFFICES ASSUME NInv, NEW p \in Procs, At(p, "running")
                PROVE  OpenRefs(proc[p].step) = {}
    BY DEF RunningAppIsWired
  <2>1. proc[p].step = 37
    BY OrderElements DEF NInv, StepInv, At
  <2>. QED  BY <2>1, NoOpenRefs
<1>. QED  BY <1>1, SpecNInv, PTL
=============================================================================
