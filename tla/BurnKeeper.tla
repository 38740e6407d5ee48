----------------------------- MODULE BurnKeeper -----------------------------
(***************************************************************************)
(* x/burn: the keeper, its message server, its BeginBlock hook and its     *)
(* genesis (src/x/burn).  The keeper has no memory of its own; its state   *)
(* are four collections of the store st:                                   *)
(*                                                                         *)
(*   FeeBurnPercent    Params, a LegacyDec: a numerator over PercentOne    *)
(*   GlobalBurnCount   a uint64 collections.Sequence                       *)
(*   GlobalBurnTotal   math.Int; an absent item reads as zero              *)
(*   AccountBurnTotal  map address -> math.Int, NotRecorded where the map  *)
(*                     has no entry                                        *)
(***************************************************************************)
EXTENDS Bank, Sequences

CONSTANTS
  PercentOne,   \* LegacyOneDec, 10^18 in the code
  CountModulus  \* 2^64: GlobalBurnCount is a uint64

ASSUME BurnAssumption ==
  /\ PercentOne \in Nat \ {0}
  /\ CountModulus \in Nat \ {0}

NotRecorded == -1

(***************************************************************************)
(* Getters: an address or total that was never recorded reads as zero.     *)
(***************************************************************************)
GetGlobalBurnTotal(st) == st.GlobalBurnTotal

\* Mutation: every account reads as never recorded.
GetAccountBurnTotalForgets(st, a) == 0

GetAccountBurnTotal(st, a) ==
  IF st.AccountBurnTotal[a] = NotRecorded THEN 0 ELSE st.AccountBurnTotal[a]

(***************************************************************************)
(* updateTrackers: the sequence, then the global and the account total.    *)
(***************************************************************************)
\* Mutation: the sequence does not wrap at its width.
updateTrackersNoWrap(st, sender, coin) ==
  [st EXCEPT !.GlobalBurnCount = @ + 1,
             !.GlobalBurnTotal = GetGlobalBurnTotal(st) + coin.amount,
             !.AccountBurnTotal[sender] = GetAccountBurnTotal(st, sender) + coin.amount]

\* Mutation: the global total is set to the last burn.
updateTrackersOverwrites(st, sender, coin) ==
  [st EXCEPT !.GlobalBurnCount = (@ + 1) % CountModulus,
             !.GlobalBurnTotal = coin.amount,
             !.AccountBurnTotal[sender] = GetAccountBurnTotal(st, sender) + coin.amount]

updateTrackers(st, sender, coin) ==
  [st EXCEPT !.GlobalBurnCount = (@ + 1) % CountModulus,
             !.GlobalBurnTotal = GetGlobalBurnTotal(st) + coin.amount,
             !.AccountBurnTotal[sender] = GetAccountBurnTotal(st, sender) + coin.amount]

(***************************************************************************)
(* burnNative runs after the transfer to the burn account: the denom check *)
(* comes too late to leave the balances alone, so an error here relies on  *)
(* the caller's branch being dropped.                                      *)
(***************************************************************************)
destroy(st, sender, coin) ==
  LET burnt == BurnCoins(st, BurnModule, coin)
  IN IF burnt.ok THEN Ok(updateTrackers(burnt.st, sender, coin)) ELSE burnt

\* Mutation: a zero burn is counted.
burnNativeCountsZero(st, sender, coin) ==
  IF coin.denom # BondDenom THEN Failed(st) ELSE destroy(st, sender, coin)

\* Mutation: a foreign coin is skipped instead of refused.
burnNativeSkipsForeign(st, sender, coin) ==
  IF coin.amount <= 0 \/ coin.denom # BondDenom THEN Ok(st)
                                                ELSE destroy(st, sender, coin)

burnNative(st, sender, coin) ==
  IF coin.amount <= 0 THEN Ok(st)
  ELSE IF coin.denom # BondDenom THEN Failed(st)
  ELSE destroy(st, sender, coin)

BurnFromAccount(st, sender, coin) ==
  LET sent == SendCoins(st, sender, BurnModule, coin)
  IN IF sent.ok THEN burnNative(sent.st, sender, coin) ELSE sent

BurnFromModule(st, senderModule, coin) ==
  LET sent == SendCoins(st, senderModule, BurnModule, coin)
  IN IF sent.ok THEN burnNative(sent.st, senderModule, coin) ELSE sent

(***************************************************************************)
(* ProcessFeeBurn, the BeginBlock hook.  MulInt is exact on a LegacyDec    *)
(* and TruncateInt rounds towards zero.                                    *)
(***************************************************************************)
burnableAmount(st) ==
  (st.FeeBurnPercent * st.bal[FeeCollector][BondDenom]) \div PercentOne

ProcessFeeBurn(st) ==
  IF burnableAmount(st) <= 0 THEN Ok(st)
  ELSE BurnFromModule(st, FeeCollector, Native(burnableAmount(st)))

(***************************************************************************)
(* The message server.  The account behind from_address signs a MsgBurn.   *)
(***************************************************************************)
MsgBurn == [type : {"burn"}, signer : Users \cup {Gov}, amount : Coin]
MsgUpdateBurnParams ==
  [type : {"burnParams"}, signer : Users \cup {Gov}, FeeBurnPercent : Int]

Burn(st, m) == BurnFromAccount(st, m.signer, m.amount)

\* Mutation: the upper bound of the percentage is not checked.
ValidFeeBurnPercentUnbounded(p) == p >= 0

ValidFeeBurnPercent(p) == p >= 0 /\ p <= PercentOne

UpdateBurnParams(st, m) ==
  IF m.signer = Gov /\ ValidFeeBurnPercent(m.FeeBurnPercent)
  THEN Ok([st EXCEPT !.FeeBurnPercent = m.FeeBurnPercent])
  ELSE Failed(st)

(***************************************************************************)
(* Queries                                                                 *)
(***************************************************************************)
BurnStats(st) ==
  [total_burns |-> st.GlobalBurnCount, total_burned |-> GetGlobalBurnTotal(st)]
AccountBurns(st, a) == GetAccountBurnTotal(st, a)

(***************************************************************************)
(* Genesis.  NilTotal is an absent total: InitGenesis then leaves the item *)
(* unset.  Validate looks at each field on its own: it relates neither     *)
(* the account totals to the global one nor the records to each other.     *)
(***************************************************************************)
NilTotal == -1

BurnGenesis ==
  [FeeBurnPercent : Int, Count : 0..(CountModulus - 1), Total : Int,
   AccountTotals : Seq([address : Accounts, total : Int])]

ValidBurnGenesis(g) ==
  /\ ValidFeeBurnPercent(g.FeeBurnPercent)
  /\ g.Total >= 0 \/ g.Total = NilTotal
  /\ \A i \in DOMAIN g.AccountTotals : g.AccountTotals[i].total >= 0

\* A later record of the same address overwrites an earlier one.
LastRecord(records, a) ==
  CHOOSE i \in DOMAIN records :
    /\ records[i].address = a
    /\ \A j \in DOMAIN records : records[j].address = a => j <= i

InitBurnGenesis(st, g) ==
  [st EXCEPT !.FeeBurnPercent = g.FeeBurnPercent,
             !.GlobalBurnCount = g.Count,
             !.GlobalBurnTotal = IF g.Total = NilTotal THEN @ ELSE g.Total,
             !.AccountBurnTotal =
                [a \in Accounts |->
                   IF \E i \in DOMAIN g.AccountTotals : g.AccountTotals[i].address = a
                   THEN g.AccountTotals[LastRecord(g.AccountTotals, a)].total
                   ELSE @[a]]]

\* Walk visits every recorded address once.
Walk(map) ==
  LET recorded == {a \in Accounts : map[a] # NotRecorded}
  IN CHOOSE keys \in [1..Cardinality(recorded) -> recorded] :
       /\ \A i, j \in DOMAIN keys : keys[i] = keys[j] => i = j
       /\ \A a \in recorded : \E i \in DOMAIN keys : keys[i] = a

accountBurnTotals(st) ==
  LET keys == Walk(st.AccountBurnTotal)
  IN [i \in DOMAIN keys |->
        [address |-> keys[i], total |-> st.AccountBurnTotal[keys[i]]]]

\* Mutation: the parameters are exported with their default.
ExportBurnGenesisDefaultParams(st) ==
  [FeeBurnPercent |-> 0, Count |-> st.GlobalBurnCount,
   Total |-> GetGlobalBurnTotal(st), AccountTotals |-> accountBurnTotals(st)]

ExportBurnGenesis(st) ==
  [FeeBurnPercent |-> st.FeeBurnPercent, Count |-> st.GlobalBurnCount,
   Total |-> GetGlobalBurnTotal(st), AccountTotals |-> accountBurnTotals(st)]
=============================================================================
