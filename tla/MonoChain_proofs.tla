-------------------------- MODULE MonoChain_proofs --------------------------
(***************************************************************************)
(* Proofs about MonoChain, for every set of users, denominations and       *)
(* messages, every valid genesis and every bound.                          *)
(*                                                                         *)
(* The bank, burn and staking operations are first described by what they  *)
(* change (Transfer, BankBurn, Burned, Tracked, Created).  Then each       *)
(* message and each hook is shown to keep a store Good (well typed, valid  *)
(* parameters, bonded validators) and to make it grow: Grows(st, new) says *)
(* what any number of operations may do to a store.  It is reflexive and   *)
(* transitive, so it holds between genesis and the committed state and     *)
(* between the layers of the store; this is the inductive invariant IInv,  *)
(* from which the theorems at the end follow.                              *)
(***************************************************************************)
EXTENDS MonoChain, FiniteSums_proofs

\* What a transfer changes.
Transfer(st, new, from, to, c) ==
  /\ new = [st EXCEPT !.bal = new.bal]
  /\ new.bal \in [Accounts -> [Denoms -> Nat]]
  /\ \A a \in Accounts, d \in Denoms :
       new.bal[a][d] = st.bal[a][d]
                       - (IF a = from /\ d = c.denom THEN c.amount ELSE 0)
                       + (IF a = to /\ d = c.denom THEN c.amount ELSE 0)

LEMMA SendCoinsOk ==
  ASSUME NEW st \in Store, NEW from \in Accounts, NEW to \in Accounts, NEW c \in Coin,
         SendCoins(st, from, to, c).ok
  PROVE  Transfer(st, SendCoins(st, from, to, c).st, from, to, c)
<1> DEFINE mid == Debit(st, from, c)
           new == Credit(mid, to, c)
<1>1. CanPay(st, from, c) /\ SendCoins(st, from, to, c).st = new
  BY DEF SendCoins, Ok, Failed
<1>2. st.bal \in [Accounts -> [Denoms -> Nat]] /\ c.denom \in Denoms /\ c.amount \in Nat
  BY <1>1 DEF Store, Coin, CanPay
<1>3. mid = [st EXCEPT !.bal = [st.bal EXCEPT ![from] = [st.bal[from] EXCEPT ![c.denom] = @ - c.amount]]]
  BY DEF Debit
<1>4. mid.bal \in [Accounts -> [Denoms -> Nat]]
  BY <1>1, <1>2, <1>3 DEF CanPay, Store
<1>5. mid \in Store
  BY <1>3, <1>4 DEF Store
<1>6. new = [mid EXCEPT !.bal = [mid.bal EXCEPT ![to] = [mid.bal[to] EXCEPT ![c.denom] = @ + c.amount]]]
  BY DEF Credit
<1>7. new.bal \in [Accounts -> [Denoms -> Nat]]
  BY <1>2, <1>4, <1>5, <1>6 DEF Store
<1>8. new = [st EXCEPT !.bal = new.bal]
  BY <1>3, <1>5, <1>6, <1>7 DEF Store
<1>9. \A a \in Accounts, d \in Denoms :
       new.bal[a][d] = st.bal[a][d]
                       - (IF a = from /\ d = c.denom THEN c.amount ELSE 0)
                       + (IF a = to /\ d = c.denom THEN c.amount ELSE 0)
  <2>1. mid.bal = [st.bal EXCEPT ![from] = [st.bal[from] EXCEPT ![c.denom] = @ - c.amount]]
    BY <1>3 DEF Store
  <2>2. new.bal = [mid.bal EXCEPT ![to] = [mid.bal[to] EXCEPT ![c.denom] = @ + c.amount]]
    BY <1>5, <1>6 DEF Store
  <2>. QED  BY <2>1, <2>2, <1>2, <1>4
<1>. QED
  BY <1>1, <1>7, <1>8, <1>9 DEF Transfer

LEMMA TransferStore ==
  ASSUME NEW st \in Store, NEW new, NEW from, NEW to, NEW c, Transfer(st, new, from, to, c)
  PROVE  new \in Store
BY DEF Transfer, Store

\* What a burn of bank coins changes.
BankBurn(st, new, a, c) ==
  /\ new = [st EXCEPT !.bal = new.bal, !.supply = new.supply, !.burns = new.burns]
  /\ new.bal \in [Accounts -> [Denoms -> Nat]]
  /\ new.supply \in [Denoms -> Int] /\ new.burns \in Nat
  /\ new.burns = st.burns + (IF a = BurnModule /\ c.amount > 0 THEN 1 ELSE 0)
  /\ \A x \in Accounts, d \in Denoms :
       new.bal[x][d] = st.bal[x][d] - (IF x = a /\ d = c.denom THEN c.amount ELSE 0)
  /\ \A d \in Denoms :
       new.supply[d] = st.supply[d] - (IF d = c.denom THEN c.amount ELSE 0)

LEMMA BurnCoinsOk ==
  ASSUME NEW st \in Store, NEW a \in Accounts, NEW c \in Coin, BurnCoins(st, a, c).ok
  PROVE  BankBurn(st, BurnCoins(st, a, c).st, a, c)
<1> DEFINE b   == [st.bal EXCEPT ![a] = [st.bal[a] EXCEPT ![c.denom] = @ - c.amount]]
           s   == [st.supply EXCEPT ![c.denom] = @ - c.amount]
           k   == IF a = BurnModule /\ c.amount > 0 THEN st.burns + 1 ELSE st.burns
           new == BurnCoins(st, a, c).st
<1>1. CanPay(st, a, c)
  BY DEF BurnCoins, Ok, Failed
<1>2. /\ st.bal \in [Accounts -> [Denoms -> Nat]] /\ st.supply \in [Denoms -> Int]
      /\ c.denom \in Denoms /\ c.amount \in Nat
  BY <1>1 DEF Store, Coin, CanPay
<1>3. new = [[st EXCEPT !.bal = b] EXCEPT
               !.supply[c.denom] = @ - c.amount,
               !.burns = IF a = BurnModule /\ c.amount > 0 THEN @ + 1 ELSE @]
  BY <1>1 DEF BurnCoins, Ok, Debit
<1>4. /\ b \in [Accounts -> [Denoms -> Nat]]
      /\ \A x \in Accounts, d \in Denoms :
           b[x][d] = st.bal[x][d] - (IF x = a /\ d = c.denom THEN c.amount ELSE 0)
  BY <1>1, <1>2 DEF CanPay
<1>5. /\ s \in [Denoms -> Int]
      /\ \A d \in Denoms : s[d] = st.supply[d] - (IF d = c.denom THEN c.amount ELSE 0)
  BY <1>2
<1>6. new = [st EXCEPT !.bal = b, !.supply = s, !.burns = k]
  <2>. HIDE DEF b
  <2>. QED  BY <1>3 DEF Store
<1>7. /\ k \in Nat
      /\ k = st.burns + (IF a = BurnModule /\ c.amount > 0 THEN 1 ELSE 0)
  BY DEF Store
<1>. HIDE DEF b, s, k, new
<1>8. new.bal = b /\ new.supply = s /\ new.burns = k
  BY <1>6 DEF Store
<1>. QED
  BY <1>4, <1>5, <1>6, <1>7, <1>8 DEF BankBurn, new

LEMMA BankBurnStore ==
  ASSUME NEW st \in Store, NEW new, NEW a, NEW c, BankBurn(st, new, a, c)
  PROVE  new \in Store
BY DEF BankBurn, Store

-----------------------------------------------------------------------------
\* What a burn of n native coins of account a changes.
Burned(st, new, a, n) ==
  /\ new \in Store
  /\ new = [st EXCEPT !.bal = new.bal, !.supply = new.supply, !.burns = new.burns,
                      !.GlobalBurnCount = new.GlobalBurnCount,
                      !.GlobalBurnTotal = new.GlobalBurnTotal,
                      !.AccountBurnTotal = new.AccountBurnTotal]
  /\ \A x \in Accounts, d \in Denoms :
       new.bal[x][d] = st.bal[x][d] - (IF x = a /\ d = BondDenom THEN n ELSE 0)
  /\ \A d \in Denoms : new.supply[d] = st.supply[d] - (IF d = BondDenom THEN n ELSE 0)
  /\ new.GlobalBurnTotal = st.GlobalBurnTotal + n
  /\ new.GlobalBurnCount = IF n > 0 THEN (st.GlobalBurnCount + 1) % CountModulus
                                    ELSE st.GlobalBurnCount
  /\ new.burns = st.burns + (IF n > 0 THEN 1 ELSE 0)
  /\ \A x \in Accounts :
       GetAccountBurnTotal(new, x) = GetAccountBurnTotal(st, x) + (IF x = a THEN n ELSE 0)

Tracked(st, new, a, n) ==
  /\ new \in Store
  /\ new = [st EXCEPT !.GlobalBurnCount = new.GlobalBurnCount,
                      !.GlobalBurnTotal = new.GlobalBurnTotal,
                      !.AccountBurnTotal = new.AccountBurnTotal]
  /\ new.GlobalBurnTotal = st.GlobalBurnTotal + n
  /\ new.GlobalBurnCount = (st.GlobalBurnCount + 1) % CountModulus
  /\ \A x \in Accounts :
       GetAccountBurnTotal(new, x) = GetAccountBurnTotal(st, x) + (IF x = a THEN n ELSE 0)

LEMMA updateTrackersOk ==
  ASSUME NEW st \in Store, NEW a \in Accounts, NEW c \in Coin, c.amount > 0
  PROVE  Tracked(st, updateTrackers(st, a, c), a, c.amount)
<1> DEFINE new == updateTrackers(st, a, c)
           k == (st.GlobalBurnCount + 1) % CountModulus
           m == [st.AccountBurnTotal EXCEPT ![a] = GetAccountBurnTotal(st, a) + c.amount]
<1>1. /\ st.AccountBurnTotal \in [Accounts -> Nat \cup {-1}]
      /\ st.GlobalBurnCount \in Nat /\ st.GlobalBurnTotal \in Nat /\ c.amount \in Nat
  BY BurnAssumption DEF Store, Coin, NotRecorded
<1>2. k \in 0..(CountModulus - 1)
  BY <1>1, BurnAssumption
<1>3. GetAccountBurnTotal(st, a) \in Nat
  BY <1>1 DEF GetAccountBurnTotal, NotRecorded
<1>4. m \in [Accounts -> Nat \cup {-1}]
  BY <1>1, <1>3
<1>5. new = [st EXCEPT !.GlobalBurnCount = k,
                       !.GlobalBurnTotal = st.GlobalBurnTotal + c.amount,
                       !.AccountBurnTotal = m]
  BY DEF updateTrackers, GetGlobalBurnTotal
<1>. HIDE DEF k, m, new
<1>6. /\ new.GlobalBurnCount = k /\ new.GlobalBurnTotal = st.GlobalBurnTotal + c.amount
      /\ new.AccountBurnTotal = m
  BY <1>5 DEF Store
<1>7. new \in Store
  <2>1. st.GlobalBurnTotal + c.amount \in Nat
    BY <1>1
  <2>. QED  BY <2>1, <1>2, <1>4, <1>5 DEF Store, NotRecorded
<1>8. \A x \in Accounts :
        GetAccountBurnTotal(new, x)
          = GetAccountBurnTotal(st, x) + (IF x = a THEN c.amount ELSE 0)
  BY <1>1, <1>3, <1>6 DEF GetAccountBurnTotal, NotRecorded, m
<1>. QED
  BY <1>5, <1>6, <1>7, <1>8 DEF Tracked, new, k

\* The state a failing burn leaves behind is dropped, but it is well formed.
LEMMA BurnFromAccountOk ==
  ASSUME NEW st \in Store, NEW a \in Accounts, a # BurnModule, NEW c \in Coin
  PROVE  LET r == BurnFromAccount(st, a, c)
         IN /\ r.st \in Store
            /\ r.ok => /\ c.amount >= 0
                       /\ c.amount > 0 => c.denom = BondDenom
                       /\ Burned(st, r.st, a, c.amount)
<1> DEFINE r1 == SendCoins(st, a, BurnModule, c)
           r2 == burnNative(r1.st, a, c)
           b  == BurnCoins(r1.st, BurnModule, c)
           t  == updateTrackers(b.st, a, c)
<1>. BurnModule \in Accounts /\ BondDenom \in Denoms
  BY BankAssumption DEF Accounts, ModuleAccounts
<1>1. CASE ~ r1.ok
  BY <1>1 DEF BurnFromAccount, SendCoins, Failed, Ok
<1>2. CASE r1.ok
  <2>1. BurnFromAccount(st, a, c) = r2
    BY <1>2 DEF BurnFromAccount
  <2>2. Transfer(st, r1.st, a, BurnModule, c) /\ r1.st \in Store
    BY <1>2, SendCoinsOk, TransferStore
  <2>3. c.amount \in Nat /\ c.denom \in Denoms
    BY <1>2 DEF SendCoins, CanPay, Failed, Coin
  <2>4. CASE c.amount <= 0
    <3>1. r2.ok /\ r2.st = r1.st /\ c.amount = 0
      BY <2>3, <2>4 DEF burnNative, Ok
    <3>. HIDE DEF r1, r2
    <3>2. Burned(st, r1.st, a, 0)
      <4>1. /\ r1.st = [st EXCEPT !.bal = r1.st.bal, !.supply = r1.st.supply,
                      !.burns = r1.st.burns,
                      !.GlobalBurnCount = r1.st.GlobalBurnCount,
                      !.GlobalBurnTotal = r1.st.GlobalBurnTotal,
                      !.AccountBurnTotal = r1.st.AccountBurnTotal]
            /\ r1.st.supply = st.supply /\ r1.st.GlobalBurnTotal = st.GlobalBurnTotal
            /\ r1.st.GlobalBurnCount = st.GlobalBurnCount
            /\ r1.st.AccountBurnTotal = st.AccountBurnTotal
            /\ r1.st.burns = st.burns /\ st.burns \in Nat
        BY <2>2 DEF Transfer, Store
      <4>2. \A x \in Accounts, d \in Denoms : r1.st.bal[x][d] = st.bal[x][d]
        BY <2>2, <3>1 DEF Transfer, Store
      <4>3. st.supply \in [Denoms -> Int] /\ st.GlobalBurnTotal \in Nat
            /\ st.bal \in [Accounts -> [Denoms -> Nat]]
        BY DEF Store
      <4>4. \A x \in Accounts : GetAccountBurnTotal(r1.st, x) \in Nat
                /\ GetAccountBurnTotal(r1.st, x) = GetAccountBurnTotal(st, x)
        BY <4>1 DEF Store, GetAccountBurnTotal, NotRecorded
      <4>. QED  BY <2>2, <4>1, <4>2, <4>3, <4>4 DEF Burned
    <3>. QED  BY <2>1, <2>2, <3>1, <3>2
  <2>5. CASE c.amount > 0 /\ c.denom # BondDenom
    BY <2>1, <2>2, <2>3, <2>5 DEF burnNative, Failed
  <2>6. CASE c.amount > 0 /\ c.denom = BondDenom /\ ~ b.ok
    BY <2>1, <2>2, <2>3, <2>6 DEF burnNative, destroy, BurnCoins, Failed, Ok
  <2>7. CASE c.amount > 0 /\ c.denom = BondDenom /\ b.ok
    <3>1. r2 = Ok(t)
      BY <2>3, <2>7 DEF burnNative, destroy
    <3>2. BankBurn(r1.st, b.st, BurnModule, c) /\ b.st \in Store
      BY <2>2, <2>7, BurnCoinsOk, BankBurnStore
    <3>. HIDE DEF r1, r2, b
    <3>3. Tracked(b.st, t, a, c.amount)
      BY <2>7, <3>2, updateTrackersOk
    <3>. HIDE DEF t
    <3>4. /\ r1.st = [st EXCEPT !.bal = r1.st.bal]
          /\ b.st = [r1.st EXCEPT !.bal = b.st.bal, !.supply = b.st.supply,
                                  !.burns = b.st.burns]
      BY <2>2, <3>2 DEF Transfer, BankBurn
    <3>5. /\ t = [st EXCEPT !.bal = t.bal, !.supply = t.supply, !.burns = t.burns,
                      !.GlobalBurnCount = t.GlobalBurnCount,
                      !.GlobalBurnTotal = t.GlobalBurnTotal,
                      !.AccountBurnTotal = t.AccountBurnTotal]
          /\ t.bal = b.st.bal /\ t.supply = b.st.supply /\ t.burns = st.burns + 1
          /\ r1.st.supply = st.supply
          /\ b.st.GlobalBurnTotal = st.GlobalBurnTotal
          /\ b.st.GlobalBurnCount = st.GlobalBurnCount
          /\ b.st.AccountBurnTotal = st.AccountBurnTotal
      <4>. DEFINE u == r1.st
                  w == b.st
      <4>1. u \in Store /\ w \in Store /\ t \in Store
        BY <2>2, <3>2, <3>3 DEF Tracked
      <4>. HIDE DEF u, w
      <4>2. u = [st EXCEPT !.bal = u.bal]
        BY <3>4 DEF u
      <4>3. w = [u EXCEPT !.bal = w.bal, !.supply = w.supply, !.burns = w.burns]
        BY <3>4 DEF u, w
      <4>4. w = [st EXCEPT !.bal = w.bal, !.supply = w.supply, !.burns = w.burns]
        BY <4>1, <4>2, <4>3 DEF Store
      <4>5. t = [w EXCEPT !.GlobalBurnCount = t.GlobalBurnCount,
                          !.GlobalBurnTotal = t.GlobalBurnTotal,
                          !.AccountBurnTotal = t.AccountBurnTotal]
        BY <3>3 DEF w, Tracked
      <4>6. t.bal = w.bal /\ t.supply = w.supply /\ t.burns = w.burns
        BY <4>1, <4>5 DEF Store
      <4>7. t = [st EXCEPT !.bal = t.bal, !.supply = t.supply, !.burns = t.burns,
                      !.GlobalBurnCount = t.GlobalBurnCount,
                      !.GlobalBurnTotal = t.GlobalBurnTotal,
                      !.AccountBurnTotal = t.AccountBurnTotal]
        BY <4>1, <4>4, <4>5, <4>6 DEF Store
      <4>8. /\ u.supply = st.supply /\ w.GlobalBurnTotal = st.GlobalBurnTotal
            /\ w.GlobalBurnCount = st.GlobalBurnCount
            /\ w.AccountBurnTotal = st.AccountBurnTotal
        BY <4>1, <4>2, <4>4 DEF Store
      <4>9. u.burns = st.burns /\ w.burns = u.burns + 1
        <5>1. w.burns = u.burns + (IF BurnModule = BurnModule /\ c.amount > 0 THEN 1 ELSE 0)
          BY <3>2 DEF BankBurn, u, w
        <5>2. u.burns = st.burns /\ st.burns \in Nat
          BY <4>2 DEF Store
        <5>. QED  BY <2>7, <5>1, <5>2
      <4>. QED  BY <4>6, <4>7, <4>8, <4>9 DEF u, w
    <3>6. \A x \in Accounts, d \in Denoms :
            t.bal[x][d] = st.bal[x][d] - (IF x = a /\ d = BondDenom THEN c.amount ELSE 0)
      <4>. SUFFICES ASSUME NEW x \in Accounts, NEW d \in Denoms
                    PROVE  t.bal[x][d] = st.bal[x][d] - (IF x = a /\ d = BondDenom THEN c.amount ELSE 0)
        OBVIOUS
      <4>1. st.bal[x][d] \in Nat /\ r1.st.bal[x][d] \in Nat
        BY <2>2 DEF Store
      <4>2. r1.st.bal[x][d] = st.bal[x][d]
                       - (IF x = a /\ d = c.denom THEN c.amount ELSE 0)
                       + (IF x = BurnModule /\ d = c.denom THEN c.amount ELSE 0)
        BY <2>2 DEF Transfer
      <4>3. t.bal[x][d] = r1.st.bal[x][d]
                       - (IF x = BurnModule /\ d = c.denom THEN c.amount ELSE 0)
        BY <3>2, <3>5 DEF BankBurn
      <4>. QED  BY <2>3, <2>7, <4>1, <4>2, <4>3
    <3>7. \A d \in Denoms : t.supply[d] = st.supply[d] - (IF d = BondDenom THEN c.amount ELSE 0)
      BY <2>7, <3>2, <3>5 DEF BankBurn
    <3>8. \A x \in Accounts : GetAccountBurnTotal(b.st, x) = GetAccountBurnTotal(st, x)
      BY <3>5 DEF GetAccountBurnTotal
    <3>9. Burned(st, t, a, c.amount)
      BY <2>7, <3>3, <3>5, <3>6, <3>7, <3>8 DEF Burned, Tracked
    <3>. QED  BY <2>1, <2>7, <3>1, <3>3, <3>9, <2>3 DEF Ok, Tracked
  <2>. QED  BY <2>3, <2>4, <2>5, <2>6, <2>7
<1>. QED  BY <1>1, <1>2

\* BurnFromModule is BurnFromAccount for a module account.
LEMMA BurnFromModuleSame ==
  ASSUME NEW st, NEW a, NEW c
  PROVE  BurnFromModule(st, a, c) = BurnFromAccount(st, a, c)
BY DEF BurnFromModule, BurnFromAccount

-----------------------------------------------------------------------------
(***************************************************************************)
(* The two notions of the inductive invariant.  Good is what every store   *)
(* satisfies that somebody may read.  Grows relates such a store to a      *)
(* later one: supply, trackers, registration fees and the burn account     *)
(* move together.  Grows is a preorder, so it carries over from message to *)
(* transaction, from transaction to block and from block to chain.         *)
(***************************************************************************)
Bonded(st) ==
  \A v \in st.validators :
    st.minSelf[v] >= st.minDue[v] /\ st.selfBond[v] >= st.minSelf[v]

Good(st) ==
  /\ st \in Store
  /\ ValidFeeBurnPercent(st.FeeBurnPercent)
  /\ ValidValidatorParams(st.ValidatorParams)
  /\ Bonded(st)

Grows(st, new) ==
  /\ new.GlobalBurnTotal >= st.GlobalBurnTotal
  /\ new.minted >= st.minted /\ new.slashed >= st.slashed
  /\ \A d \in Denoms :
       new.supply[d] = st.supply[d]
         + (IF d = BondDenom
            THEN (new.minted - st.minted) - (new.slashed - st.slashed)
                 - (new.GlobalBurnTotal - st.GlobalBurnTotal)
            ELSE 0)
  /\ \A a \in Accounts :
       /\ GetAccountBurnTotal(new, a) >= GetAccountBurnTotal(st, a)
       /\ GetAccountBurnTotal(new, a) - GetAccountBurnTotal(st, a)
            <= new.GlobalBurnTotal - st.GlobalBurnTotal
  /\ \A v \in Operators :
       /\ new.owed[v] >= st.owed[v]
       /\ new.owed[v] - st.owed[v]
            <= GetAccountBurnTotal(new, v) - GetAccountBurnTotal(st, v)
  /\ new.GlobalBurnCount # st.GlobalBurnCount
       => new.GlobalBurnTotal > st.GlobalBurnTotal
  /\ \A d \in Denoms :
       new.bal[BurnModule][d] - new.gifts[d] = st.bal[BurnModule][d] - st.gifts[d]

LEMMA AccountNames ==
  /\ Operators \subseteq Accounts /\ BurnModule \notin Operators
  /\ FeeCollector \notin Operators /\ StakingPool \notin Operators
  /\ ModuleAccounts \subseteq Accounts /\ BondDenom \in Denoms
  /\ Users \subseteq Accounts /\ Users \subseteq Operators /\ Gov \in Operators
BY BankAssumption
   DEF Operators, Accounts, ModuleAccounts, BurnModule, FeeCollector, StakingPool,
       Gov, Distribution

LEMMA StoreFields ==
  ASSUME NEW st \in Store
  PROVE  /\ st.bal \in [Accounts -> [Denoms -> Nat]] /\ st.supply \in [Denoms -> Int]
         /\ st.FeeBurnPercent \in Int /\ st.GlobalBurnTotal \in Nat
         /\ st.GlobalBurnCount \in Int
         /\ st.AccountBurnTotal \in [Accounts -> Nat \cup {NotRecorded}]
         /\ st.minted \in Int /\ st.slashed \in Int /\ st.gifts \in [Denoms -> Int]
         /\ st.owed \in [Operators -> Int] /\ st.ValidatorParams \in ValidatorParams
         /\ \A a \in Accounts : GetAccountBurnTotal(st, a) \in Nat
BY BurnAssumption DEF Store, GetAccountBurnTotal, NotRecorded

LEMMA GrowsReflexive ==
  ASSUME NEW st \in Store
  PROVE  Grows(st, st)
BY StoreFields, AccountNames DEF Grows

LEMMA GrowsTransitive ==
  ASSUME NEW s1 \in Store, NEW s2 \in Store, NEW s3 \in Store,
         Grows(s1, s2), Grows(s2, s3)
  PROVE  Grows(s1, s3)
<1>1. /\ s3.GlobalBurnTotal >= s1.GlobalBurnTotal
      /\ s3.minted >= s1.minted /\ s3.slashed >= s1.slashed
      /\ s3.GlobalBurnCount # s1.GlobalBurnCount
           => s3.GlobalBurnTotal > s1.GlobalBurnTotal
  BY StoreFields DEF Grows
<1>2. \A d \in Denoms :
       s3.supply[d] = s1.supply[d]
         + (IF d = BondDenom
            THEN (s3.minted - s1.minted) - (s3.slashed - s1.slashed)
                 - (s3.GlobalBurnTotal - s1.GlobalBurnTotal)
            ELSE 0)
  BY StoreFields DEF Grows
<1>3. \A a \in Accounts :
       /\ GetAccountBurnTotal(s3, a) >= GetAccountBurnTotal(s1, a)
       /\ GetAccountBurnTotal(s3, a) - GetAccountBurnTotal(s1, a)
            <= s3.GlobalBurnTotal - s1.GlobalBurnTotal
  BY StoreFields DEF Grows
<1>4. \A v \in Operators :
       /\ s3.owed[v] >= s1.owed[v]
       /\ s3.owed[v] - s1.owed[v]
            <= GetAccountBurnTotal(s3, v) - GetAccountBurnTotal(s1, v)
  BY StoreFields, AccountNames DEF Grows
<1>5. \A d \in Denoms :
       s3.bal[BurnModule][d] - s3.gifts[d] = s1.bal[BurnModule][d] - s1.gifts[d]
  BY DEF Grows
<1>. QED  BY <1>1, <1>2, <1>3, <1>4, <1>5 DEF Grows

-----------------------------------------------------------------------------
(***************************************************************************)
(* Each operation keeps Good and moves along Grows.                        *)
(***************************************************************************)
LEMMA TransferEffect ==
  ASSUME NEW st, Good(st), NEW new, NEW from, NEW to, NEW c,
         Transfer(st, new, from, to, c), from # BurnModule, to # BurnModule
  PROVE  Good(new) /\ Grows(st, new)
<1>1. st \in Store /\ new \in Store
  BY TransferStore DEF Good
<1>2. /\ new.supply = st.supply /\ new.FeeBurnPercent = st.FeeBurnPercent
      /\ new.GlobalBurnTotal = st.GlobalBurnTotal
      /\ new.GlobalBurnCount = st.GlobalBurnCount
      /\ new.AccountBurnTotal = st.AccountBurnTotal
      /\ new.ValidatorParams = st.ValidatorParams /\ new.validators = st.validators
      /\ new.selfBond = st.selfBond /\ new.minSelf = st.minSelf
      /\ new.owed = st.owed /\ new.minDue = st.minDue /\ new.minted = st.minted
      /\ new.slashed = st.slashed /\ new.gifts = st.gifts
  BY <1>1 DEF Transfer, Store
<1>3. \A d \in Denoms : new.bal[BurnModule][d] = st.bal[BurnModule][d]
  BY <1>1, AccountNames, StoreFields DEF Transfer, ModuleAccounts
<1>4. \A a \in Accounts : GetAccountBurnTotal(new, a) = GetAccountBurnTotal(st, a)
  BY <1>2 DEF GetAccountBurnTotal
<1>5. Good(new)
  BY <1>1, <1>2 DEF Good, Bonded
<1>6. Grows(st, new)
  BY <1>1, <1>2, <1>3, <1>4, StoreFields, AccountNames DEF Grows
<1>. QED  BY <1>5, <1>6

LEMMA BurnedEffect ==
  ASSUME NEW st, Good(st), NEW new, NEW a \in Accounts, a # BurnModule, NEW n \in Nat,
         Burned(st, new, a, n)
  PROVE  Good(new) /\ Grows(st, new)
<1>1. st \in Store /\ new \in Store
  BY DEF Good, Burned
<1>2. /\ new.FeeBurnPercent = st.FeeBurnPercent
      /\ new.ValidatorParams = st.ValidatorParams /\ new.validators = st.validators
      /\ new.selfBond = st.selfBond /\ new.minSelf = st.minSelf
      /\ new.owed = st.owed /\ new.minDue = st.minDue /\ new.minted = st.minted
      /\ new.slashed = st.slashed /\ new.gifts = st.gifts
  <2>1. new = [st EXCEPT !.bal = new.bal, !.supply = new.supply, !.burns = new.burns,
                         !.GlobalBurnCount = new.GlobalBurnCount,
                         !.GlobalBurnTotal = new.GlobalBurnTotal,
                         !.AccountBurnTotal = new.AccountBurnTotal]
    BY DEF Burned
  <2>. QED  BY <1>1, <2>1 DEF Store
<1>3. \A d \in Denoms : new.bal[BurnModule][d] = st.bal[BurnModule][d]
  BY <1>1, AccountNames, StoreFields DEF Burned, ModuleAccounts
<1>4. Good(new)
  BY <1>1, <1>2 DEF Good, Bonded
<1>5. Grows(st, new)
  <2>1. /\ new.GlobalBurnTotal = st.GlobalBurnTotal + n
        /\ new.GlobalBurnCount # st.GlobalBurnCount => n > 0
        /\ \A d \in Denoms :
             new.supply[d] = st.supply[d] - (IF d = BondDenom THEN n ELSE 0)
        /\ \A x \in Accounts :
             GetAccountBurnTotal(new, x)
               = GetAccountBurnTotal(st, x) + (IF x = a THEN n ELSE 0)
    BY DEF Burned
  <2>2. /\ new.GlobalBurnTotal >= st.GlobalBurnTotal
        /\ new.GlobalBurnCount # st.GlobalBurnCount
             => new.GlobalBurnTotal > st.GlobalBurnTotal
        /\ new.minted >= st.minted /\ new.slashed >= st.slashed
    BY <1>1, <1>2, <2>1, StoreFields
  <2>3. \A d \in Denoms :
         new.supply[d] = st.supply[d]
           + (IF d = BondDenom
              THEN (new.minted - st.minted) - (new.slashed - st.slashed)
                   - (new.GlobalBurnTotal - st.GlobalBurnTotal)
              ELSE 0)
    <3>. TAKE d \in Denoms
    <3>1. /\ st.supply[d] \in Int /\ st.GlobalBurnTotal \in Nat
          /\ st.minted \in Int /\ st.slashed \in Int
      BY <1>1, StoreFields
    <3>. QED  BY <1>2, <2>1, <3>1
  <2>4. \A x \in Accounts :
         /\ GetAccountBurnTotal(new, x) >= GetAccountBurnTotal(st, x)
         /\ GetAccountBurnTotal(new, x) - GetAccountBurnTotal(st, x)
              <= new.GlobalBurnTotal - st.GlobalBurnTotal
    <3>. TAKE x \in Accounts
    <3>1. GetAccountBurnTotal(st, x) \in Nat /\ st.GlobalBurnTotal \in Nat
      BY <1>1, StoreFields
    <3>2. GetAccountBurnTotal(new, x)
            = GetAccountBurnTotal(st, x) + (IF x = a THEN n ELSE 0)
      BY <2>1
    <3>. QED  BY <2>1, <3>1, <3>2
  <2>. QED  BY <1>1, <1>2, <1>3, <2>2, <2>3, <2>4, StoreFields, AccountNames DEF Grows
<1>. QED  BY <1>4, <1>5

-----------------------------------------------------------------------------
\* What the creation of a validator changes.
Created(st, new, m, h) ==
  /\ new \in Store
  /\ new.supply = st.supply /\ new.FeeBurnPercent = st.FeeBurnPercent
  /\ new.GlobalBurnTotal = st.GlobalBurnTotal
  /\ new.GlobalBurnCount = st.GlobalBurnCount /\ new.burns = st.burns
  /\ new.AccountBurnTotal = st.AccountBurnTotal
  /\ new.ValidatorParams = st.ValidatorParams
  /\ new.minted = st.minted /\ new.slashed = st.slashed /\ new.gifts = st.gifts
  /\ new.feesPaid = st.feesPaid /\ new.earlyMint = st.earlyMint
  /\ \A d \in Denoms : /\ new.bal[BurnModule][d] = st.bal[BurnModule][d]
                       /\ new.bal[FeeCollector][d] = st.bal[FeeCollector][d]
  /\ \A v \in Operators :
       new.owed[v] = st.owed[v]
         + (IF v = m.operator /\ h # 0
            THEN st.ValidatorParams.RegistrationBurn.amount ELSE 0)
  /\ Bonded(st) /\ (h # 0 => m.minSelf >= st.ValidatorParams.MinSelfDelegation.amount)
       => Bonded(new)

LEMMA CreateValidatorOk ==
  ASSUME NEW st \in Store, NEW h, NEW m, m.operator \in Operators, m.value \in Coin,
         m.minSelf \in Int
  PROVE  LET r == CreateValidator(st, m, h)
         IN r.st \in Store /\ (r.ok => Created(st, r.st, m, h))
<1> DEFINE p == SendCoins(st, m.operator, StakingPool, m.value)
           r == CreateValidator(st, m, h)
<1>1. CASE ~ r.ok
  BY <1>1 DEF CreateValidator, Ok, Failed
<1>2. CASE r.ok
  <2>1. /\ p.ok /\ m.minSelf > 0 /\ m.value.amount >= m.minSelf
        /\ r.st = [p.st EXCEPT
                !.validators = @ \cup {m.operator},
                !.selfBond[m.operator] = m.value.amount,
                !.minSelf[m.operator] = m.minSelf,
                !.owed[m.operator] =
                   IF h = 0 THEN @
                   ELSE @ + st.ValidatorParams.RegistrationBurn.amount,
                !.minDue[m.operator] =
                   IF h = 0 THEN 0
                   ELSE st.ValidatorParams.MinSelfDelegation.amount]
    BY <1>2 DEF CreateValidator, Ok, Failed
  <2>2. Transfer(st, p.st, m.operator, StakingPool, m.value) /\ p.st \in Store
    BY <2>1, SendCoinsOk, TransferStore, AccountNames DEF ModuleAccounts
  <2>. DEFINE u == p.st
              new == r.st
              burn == st.ValidatorParams.RegistrationBurn.amount
              due == st.ValidatorParams.MinSelfDelegation.amount
              val == u.validators \cup {m.operator}
              sb == [u.selfBond EXCEPT ![m.operator] = m.value.amount]
              ms == [u.minSelf EXCEPT ![m.operator] = m.minSelf]
              ow == [u.owed EXCEPT ![m.operator] = IF h = 0 THEN @ ELSE @ + burn]
              md == [u.minDue EXCEPT ![m.operator] = IF h = 0 THEN 0 ELSE due]
  <2>3. new = [u EXCEPT !.validators = val, !.selfBond = sb, !.minSelf = ms,
                        !.owed = ow, !.minDue = md]
    BY <2>1
  <2>4. burn \in Int /\ due \in Int /\ m.value.amount \in Int
    BY StoreFields DEF ValidatorParams, Coin
  <2>5. /\ u \in Store /\ u = [st EXCEPT !.bal = u.bal]
        /\ \A d \in Denoms : /\ u.bal[BurnModule][d] = st.bal[BurnModule][d]
                             /\ u.bal[FeeCollector][d] = st.bal[FeeCollector][d]
    <3>1. /\ BurnModule # m.operator /\ BurnModule # StakingPool
          /\ FeeCollector # m.operator /\ FeeCollector # StakingPool
          /\ BurnModule \in Accounts /\ FeeCollector \in Accounts
      BY AccountNames DEF BurnModule, FeeCollector, StakingPool, ModuleAccounts
    <3>2. st.bal \in [Accounts -> [Denoms -> Nat]]
      BY StoreFields
    <3>. QED  BY <2>2, <3>1, <3>2 DEF Transfer
  <2>. HIDE DEF p, r, u, burn, due, new
  <2>6. /\ u.validators \in SUBSET Operators /\ u.selfBond \in [Operators -> Int]
        /\ u.minSelf \in [Operators -> Int] /\ u.owed \in [Operators -> Int]
        /\ u.minDue \in [Operators -> Int]
    BY <2>5 DEF Store
  <2>7. /\ val \in SUBSET Operators /\ sb \in [Operators -> Int]
        /\ ms \in [Operators -> Int] /\ ow \in [Operators -> Int]
        /\ md \in [Operators -> Int]
    BY <2>4, <2>6
  <2>8. \A v \in Operators : ow[v] = u.owed[v] + (IF v = m.operator /\ h # 0 THEN burn ELSE 0)
    BY <2>4, <2>6
  <2>9. \A v \in val :
          \/ v = m.operator /\ ms[v] = m.minSelf /\ sb[v] = m.value.amount
                            /\ md[v] = IF h = 0 THEN 0 ELSE due
          \/ v \in u.validators /\ ms[v] = u.minSelf[v] /\ sb[v] = u.selfBond[v]
                               /\ md[v] = u.minDue[v]
    BY <2>6
  <2>. HIDE DEF val, sb, ms, ow, md
  <2>10. new \in Store
    BY <2>3, <2>5, <2>7 DEF Store
  <2>11. /\ new.bal = u.bal /\ new.validators = val /\ new.selfBond = sb
         /\ new.minSelf = ms /\ new.owed = ow /\ new.minDue = md
         /\ new.supply = u.supply /\ new.FeeBurnPercent = u.FeeBurnPercent
         /\ new.GlobalBurnTotal = u.GlobalBurnTotal
         /\ new.GlobalBurnCount = u.GlobalBurnCount /\ new.burns = u.burns
         /\ new.AccountBurnTotal = u.AccountBurnTotal
         /\ new.ValidatorParams = u.ValidatorParams
         /\ new.minted = u.minted /\ new.slashed = u.slashed /\ new.gifts = u.gifts
         /\ new.feesPaid = u.feesPaid /\ new.earlyMint = u.earlyMint
    BY <2>3, <2>5 DEF Store
  <2>12. /\ u.validators = st.validators /\ u.selfBond = st.selfBond
         /\ u.minSelf = st.minSelf /\ u.owed = st.owed /\ u.minDue = st.minDue
         /\ u.supply = st.supply /\ u.FeeBurnPercent = st.FeeBurnPercent
         /\ u.GlobalBurnTotal = st.GlobalBurnTotal
         /\ u.GlobalBurnCount = st.GlobalBurnCount /\ u.burns = st.burns
         /\ u.AccountBurnTotal = st.AccountBurnTotal
         /\ u.ValidatorParams = st.ValidatorParams
         /\ u.minted = st.minted /\ u.slashed = st.slashed /\ u.gifts = st.gifts
         /\ u.feesPaid = st.feesPaid /\ u.earlyMint = st.earlyMint
    BY <2>5 DEF Store
  <2>13. Bonded(st) /\ (h # 0 => m.minSelf >= due) => Bonded(new)
    BY <2>1, <2>9, <2>11, <2>12 DEF Bonded
  <2>14. Created(st, new, m, h)
    BY <2>5, <2>8, <2>10, <2>11, <2>12, <2>13 DEF Created, burn, due
  <2>. QED  BY <2>10, <2>14 DEF r, new
<1>. QED  BY <1>1, <1>2

\* A creation whose fee, if one is due, has been burned on the way from old.
LEMMA CreatedEffect ==
  ASSUME NEW old, Good(old), NEW st, Good(st), NEW new, NEW m, m.operator \in Operators,
         NEW h, Grows(old, st), Created(st, new, m, h),
         h # 0 => /\ m.minSelf >= st.ValidatorParams.MinSelfDelegation.amount
                  /\ st.owed = old.owed
                  /\ GetAccountBurnTotal(st, m.operator)
                       - GetAccountBurnTotal(old, m.operator)
                     >= st.ValidatorParams.RegistrationBurn.amount
  PROVE  Good(new) /\ Grows(old, new)
<1>1. old \in Store /\ st \in Store /\ new \in Store
  BY DEF Good, Created
<1>2. Good(new)
  BY <1>1 DEF Good, Created
<1> DEFINE fee == st.ValidatorParams.RegistrationBurn.amount
<1>3. fee \in Int /\ fee >= 0
  BY <1>1, StoreFields DEF ValidatorParams, Coin, Good, ValidValidatorParams, ValidParamCoin
<1>4. \A a \in Accounts : GetAccountBurnTotal(new, a) = GetAccountBurnTotal(st, a)
  BY DEF Created, GetAccountBurnTotal
<1>5. \A v \in Operators :
       /\ new.owed[v] >= old.owed[v]
       /\ new.owed[v] - old.owed[v]
            <= GetAccountBurnTotal(new, v) - GetAccountBurnTotal(old, v)
  <2>. TAKE v \in Operators
  <2>1. /\ v \in Accounts /\ old.owed[v] \in Int /\ st.owed[v] \in Int
        /\ GetAccountBurnTotal(st, v) \in Nat /\ GetAccountBurnTotal(old, v) \in Nat
        /\ GetAccountBurnTotal(new, v) = GetAccountBurnTotal(st, v)
    BY <1>1, <1>4, AccountNames, StoreFields
  <2>2. new.owed[v] = st.owed[v] + (IF v = m.operator /\ h # 0 THEN fee ELSE 0)
    BY DEF Created
  <2>3. st.owed[v] >= old.owed[v] /\ st.owed[v] - old.owed[v]
            <= GetAccountBurnTotal(st, v) - GetAccountBurnTotal(old, v)
    BY DEF Grows
  <2>. HIDE DEF fee
  <2>4. CASE v = m.operator /\ h # 0
    <3>1. st.owed[v] = old.owed[v]
          /\ GetAccountBurnTotal(st, v) - GetAccountBurnTotal(old, v) >= fee
      BY <2>4 DEF fee
    <3>. QED  BY <1>3, <2>1, <2>2, <2>4, <3>1
  <2>5. CASE ~ (v = m.operator /\ h # 0)
    BY <2>1, <2>2, <2>3, <2>5
  <2>. QED  BY <2>4, <2>5
<1>6. Grows(old, new)
  <2>1. /\ new.supply = st.supply
        /\ new.GlobalBurnTotal = st.GlobalBurnTotal
        /\ new.GlobalBurnCount = st.GlobalBurnCount
        /\ new.minted = st.minted /\ new.slashed = st.slashed /\ new.gifts = st.gifts
        /\ \A d \in Denoms : new.bal[BurnModule][d] = st.bal[BurnModule][d]
    BY DEF Created
  <2>. QED  BY <1>4, <1>5, <2>1 DEF Grows
<1>. QED  BY <1>2, <1>6

LEMMA CreateAtGenesisEffect ==
  ASSUME NEW st, Good(st), NEW m \in MsgCreateValidator,
         CreateValidator(st, m, 0).ok
  PROVE  Good(CreateValidator(st, m, 0).st) /\ Grows(st, CreateValidator(st, m, 0).st)
<1> DEFINE new == CreateValidator(st, m, 0).st
<1>1. m.operator \in Operators /\ m.value \in Coin /\ m.minSelf \in Int
  BY DEF MsgCreateValidator
<1>2. st \in Store
  BY DEF Good
<1>3. Created(st, new, m, 0)
  BY <1>1, <1>2, CreateValidatorOk
<1>4. Grows(st, st)
  BY <1>2, GrowsReflexive
<1>. HIDE DEF new
<1>5. Good(new) /\ Grows(st, new)
  BY <1>1, <1>3, <1>4, CreatedEffect
<1>. QED  BY <1>5 DEF new

LEMMA RegisterValidatorEffect ==
  ASSUME NEW st, Good(st), NEW m \in MsgRegisterValidator, NEW h
  PROVE  LET r == RegisterValidator(st, m, h)
         IN r.st \in Store /\ (r.ok => Good(r.st) /\ Grows(st, r.st))
<1> DEFINE b == BurnFromAccount(st, m.signer, m.burn)
           c == CreateValidator(b.st, m, h)
           r == RegisterValidator(st, m, h)
<1>1. /\ m.signer \in Operators /\ m.operator \in Operators /\ m.burn \in Coin
      /\ m.value \in Coin /\ m.minSelf \in Int
  BY DEF MsgRegisterValidator
<1>2. /\ st \in Store /\ m.signer \in Accounts /\ m.signer # BurnModule
  BY <1>1, AccountNames DEF Good
<1>3. /\ b.st \in Store
      /\ b.ok => /\ m.burn.amount >= 0
                 /\ Burned(st, b.st, m.signer, m.burn.amount)
  BY <1>1, <1>2, BurnFromAccountOk
<1>4. CASE ~ (resolveSender(m) /\ validateRegistrationFunds(m, st.ValidatorParams))
  BY <1>2, <1>4 DEF RegisterValidator, Failed
<1>5. CASE /\ resolveSender(m) /\ validateRegistrationFunds(m, st.ValidatorParams)
           /\ ~ b.ok
  BY <1>3, <1>5 DEF RegisterValidator
<1>6. CASE /\ resolveSender(m) /\ validateRegistrationFunds(m, st.ValidatorParams)
           /\ b.ok
  <2>1. r = c
    BY <1>6 DEF RegisterValidator
  <2>2. m.burn.amount \in Nat /\ Burned(st, b.st, m.signer, m.burn.amount)
    BY <1>1, <1>3, <1>6 DEF Coin
  <2>. DEFINE u == b.st
  <2>3. u \in Store /\ c.st \in Store /\ (c.ok => Created(u, c.st, m, h))
    BY <1>1, <1>3, CreateValidatorOk
  <2>. HIDE DEF b, u, c, r
  <2>4. Burned(st, u, m.signer, m.burn.amount)
    BY <2>2 DEF u
  <2>5. Good(u) /\ Grows(st, u)
    BY <1>2, <2>2, <2>4, BurnedEffect
  <2>6. u.owed = st.owed /\ u.ValidatorParams = st.ValidatorParams
    BY <1>2, <2>4 DEF Burned, Store
  <2>7. m.signer = m.operator /\ m.burn.amount >= st.ValidatorParams.RegistrationBurn.amount
        /\ m.minSelf >= st.ValidatorParams.MinSelfDelegation.amount
    BY <1>6 DEF resolveSender, validateRegistrationFunds
  <2>8. GetAccountBurnTotal(u, m.operator) = GetAccountBurnTotal(st, m.operator) + m.burn.amount
    BY <1>2, <2>4, <2>7 DEF Burned
  <2>9. GetAccountBurnTotal(st, m.operator) \in Nat
    BY <1>2, <2>7, StoreFields
  <2>10. GetAccountBurnTotal(u, m.operator) - GetAccountBurnTotal(st, m.operator)
           >= u.ValidatorParams.RegistrationBurn.amount
    BY <2>2, <2>6, <2>7, <2>8, <2>9
  <2>11. c.ok => Good(c.st) /\ Grows(st, c.st)
    BY <1>1, <2>3, <2>5, <2>6, <2>7, <2>10, CreatedEffect
  <2>. QED  BY <2>1, <2>3, <2>11 DEF r
<1>. QED  BY <1>4, <1>5, <1>6

LEMMA UpdateBurnParamsEffect ==
  ASSUME NEW st, Good(st), NEW m \in MsgUpdateBurnParams
  PROVE  LET r == UpdateBurnParams(st, m)
         IN r.st \in Store /\ (r.ok => Good(r.st) /\ Grows(st, r.st))
<1> DEFINE new == [st EXCEPT !.FeeBurnPercent = m.FeeBurnPercent]
<1>1. st \in Store /\ m.FeeBurnPercent \in Int
  BY DEF Good, MsgUpdateBurnParams
<1>2. CASE ~ (m.signer = Gov /\ ValidFeeBurnPercent(m.FeeBurnPercent))
  BY <1>1, <1>2 DEF UpdateBurnParams, Failed
<1>3. CASE m.signer = Gov /\ ValidFeeBurnPercent(m.FeeBurnPercent)
  <2>1. UpdateBurnParams(st, m).st = new
    BY <1>3 DEF UpdateBurnParams, Ok
  <2>2. new \in Store
    BY <1>1 DEF Store
  <2>3. /\ new.FeeBurnPercent = m.FeeBurnPercent /\ new.bal = st.bal
        /\ new.supply = st.supply
        /\ new.GlobalBurnTotal = st.GlobalBurnTotal
        /\ new.GlobalBurnCount = st.GlobalBurnCount
        /\ new.AccountBurnTotal = st.AccountBurnTotal
        /\ new.ValidatorParams = st.ValidatorParams /\ new.validators = st.validators
        /\ new.selfBond = st.selfBond /\ new.minSelf = st.minSelf
        /\ new.owed = st.owed /\ new.minDue = st.minDue /\ new.minted = st.minted
        /\ new.slashed = st.slashed /\ new.gifts = st.gifts
    BY <1>1 DEF Store
  <2>. HIDE DEF new
  <2>4. Good(new)
    BY <1>3, <2>2, <2>3 DEF Good, Bonded
  <2>5. Grows(st, new)
    BY <1>1, <2>3, GrowsReflexive DEF Grows, GetAccountBurnTotal
  <2>. QED  BY <2>1, <2>2, <2>4, <2>5
<1>. QED  BY <1>2, <1>3

LEMMA UpdateValidatorParamsEffect ==
  ASSUME NEW st, Good(st), NEW m \in MsgUpdateValidatorParams
  PROVE  LET r == UpdateValidatorParams(st, m)
         IN r.st \in Store /\ (r.ok => Good(r.st) /\ Grows(st, r.st))
<1> DEFINE new == [st EXCEPT !.ValidatorParams = m.params]
<1>1. st \in Store /\ m.params \in ValidatorParams
  BY DEF Good, MsgUpdateValidatorParams
<1>2. CASE ~ (m.signer = Gov /\ ValidValidatorParams(m.params))
  BY <1>1, <1>2 DEF UpdateValidatorParams, Failed
<1>3. CASE m.signer = Gov /\ ValidValidatorParams(m.params)
  <2>1. UpdateValidatorParams(st, m).st = new
    BY <1>3 DEF UpdateValidatorParams, Ok
  <2>2. new \in Store
    BY <1>1 DEF Store
  <2>3. /\ new.FeeBurnPercent = st.FeeBurnPercent /\ new.bal = st.bal
        /\ new.supply = st.supply
        /\ new.GlobalBurnTotal = st.GlobalBurnTotal
        /\ new.GlobalBurnCount = st.GlobalBurnCount
        /\ new.AccountBurnTotal = st.AccountBurnTotal
        /\ new.ValidatorParams = m.params /\ new.validators = st.validators
        /\ new.selfBond = st.selfBond /\ new.minSelf = st.minSelf
        /\ new.owed = st.owed /\ new.minDue = st.minDue /\ new.minted = st.minted
        /\ new.slashed = st.slashed /\ new.gifts = st.gifts
    BY <1>1 DEF Store
  <2>. HIDE DEF new
  <2>4. Good(new)
    BY <1>3, <2>2, <2>3 DEF Good, Bonded
  <2>5. Grows(st, new)
    BY <1>1, <2>3, GrowsReflexive DEF Grows, GetAccountBurnTotal
  <2>. QED  BY <2>1, <2>2, <2>4, <2>5
<1>. QED  BY <1>2, <1>3

LEMMA BurnEffect ==
  ASSUME NEW st, Good(st), NEW a \in Accounts, a # BurnModule, NEW c \in Coin
  PROVE  LET r == BurnFromAccount(st, a, c)
         IN r.st \in Store /\ (r.ok => Good(r.st) /\ Grows(st, r.st))
<1> DEFINE r == BurnFromAccount(st, a, c)
<1>1. st \in Store
  BY DEF Good
<1>2. /\ r.st \in Store
      /\ r.ok => c.amount >= 0 /\ Burned(st, r.st, a, c.amount)
  BY <1>1, BurnFromAccountOk
<1>. HIDE DEF r
<1>3. r.ok => c.amount \in Nat
  BY <1>2 DEF Coin
<1>4. r.ok => Good(r.st) /\ Grows(st, r.st)
  BY <1>2, <1>3, BurnedEffect
<1>. QED  BY <1>2, <1>4 DEF r

\* A gift to the burn account is recorded as one.
LEMMA SendEffect ==
  ASSUME NEW st, Good(st), NEW m \in MsgSend
  PROVE  LET r == Send(st, m)
         IN r.st \in Store /\ (r.ok => Good(r.st) /\ Grows(st, r.st))
<1> DEFINE s == SendCoins(st, m.signer, m.to, m.amount)
           r == Send(st, m)
<1>1. /\ m.signer \in Accounts /\ m.signer # BurnModule /\ m.to \in Accounts
      /\ m.amount \in Coin /\ st \in Store
  BY AccountNames DEF MsgSend, Good
<1>2. CASE ~ r.ok
  BY <1>1, <1>2 DEF Send, Ok, Failed
<1>3. CASE r.ok
  <2>1. /\ s.ok /\ m.amount.amount > 0
        /\ r.st = IF m.to = BurnModule
                  THEN [s.st EXCEPT !.gifts[m.amount.denom] = @ + m.amount.amount]
                  ELSE s.st
    BY <1>3 DEF Send, Ok, Failed
  <2>2. Transfer(st, s.st, m.signer, m.to, m.amount) /\ s.st \in Store
    BY <1>1, <2>1, SendCoinsOk, TransferStore
  <2>. HIDE DEF s
  <2>3. CASE m.to # BurnModule
    BY <1>1, <2>1, <2>2, <2>3, TransferEffect
  <2>4. CASE m.to = BurnModule
    <3>. DEFINE u == s.st
                g == [u.gifts EXCEPT ![m.amount.denom] = @ + m.amount.amount]
                new == r.st
    <3>1. u \in Store /\ new = [u EXCEPT !.gifts = g]
      BY <2>1, <2>2, <2>4
    <3>2. /\ u.gifts \in [Denoms -> Int] /\ m.amount.denom \in Denoms
          /\ m.amount.amount \in Int /\ st.bal \in [Accounts -> [Denoms -> Nat]]
      BY <1>1, <2>2, StoreFields DEF Coin
    <3>3. g \in [Denoms -> Int] /\ \A d \in Denoms :
             g[d] = u.gifts[d] + (IF d = m.amount.denom THEN m.amount.amount ELSE 0)
      BY <3>2
    <3>4. \A d \in Denoms :
             u.bal[BurnModule][d] = st.bal[BurnModule][d]
                + (IF d = m.amount.denom THEN m.amount.amount ELSE 0)
      BY <1>1, <2>2, <2>4, <3>2, AccountNames DEF Transfer, ModuleAccounts
    <3>5. u = [st EXCEPT !.bal = u.bal]
      BY <2>2 DEF Transfer
    <3>. HIDE DEF r, u, g, new
    <3>6. new \in Store
      BY <3>1, <3>3 DEF Store
    <3>7. /\ new.FeeBurnPercent = st.FeeBurnPercent /\ new.bal = u.bal
          /\ new.supply = st.supply
          /\ new.GlobalBurnTotal = st.GlobalBurnTotal
          /\ new.GlobalBurnCount = st.GlobalBurnCount
          /\ new.AccountBurnTotal = st.AccountBurnTotal
          /\ new.ValidatorParams = st.ValidatorParams /\ new.validators = st.validators
          /\ new.selfBond = st.selfBond /\ new.minSelf = st.minSelf
          /\ new.owed = st.owed /\ new.minDue = st.minDue /\ new.minted = st.minted
          /\ new.slashed = st.slashed /\ new.gifts = g /\ u.gifts = st.gifts
      <4>1. /\ u.FeeBurnPercent = st.FeeBurnPercent
            /\ u.supply = st.supply
            /\ u.GlobalBurnTotal = st.GlobalBurnTotal
            /\ u.GlobalBurnCount = st.GlobalBurnCount
            /\ u.AccountBurnTotal = st.AccountBurnTotal
            /\ u.ValidatorParams = st.ValidatorParams /\ u.validators = st.validators
            /\ u.selfBond = st.selfBond /\ u.minSelf = st.minSelf
            /\ u.owed = st.owed /\ u.minDue = st.minDue /\ u.minted = st.minted
            /\ u.slashed = st.slashed /\ u.gifts = st.gifts
        BY <1>1, <3>5 DEF Store
      <4>. QED  BY <3>1, <4>1 DEF Store
    <3>8. Good(new)
      BY <3>6, <3>7 DEF Good, Bonded
    <3>9. \A d \in Denoms :
            new.bal[BurnModule][d] - new.gifts[d] = st.bal[BurnModule][d] - st.gifts[d]
      <4>. TAKE d \in Denoms
      <4>1. st.gifts[d] \in Int /\ st.bal[BurnModule][d] \in Nat
        BY <1>1, StoreFields, AccountNames DEF ModuleAccounts
      <4>. QED  BY <3>2, <3>3, <3>4, <3>7, <4>1
    <3>10. Grows(st, new)
      BY <1>1, <3>7, <3>9, GrowsReflexive DEF Grows, GetAccountBurnTotal
    <3>. QED  BY <3>6, <3>8, <3>10 DEF new, r
  <2>. QED  BY <2>3, <2>4
<1>. QED  BY <1>2, <1>3

LEMMA MessageKinds ==
  ASSUME NEW m \in Message
  PROVE  \/ m.type = "burn" /\ m \in MsgBurn
         \/ m.type = "burnParams" /\ m \in MsgUpdateBurnParams
         \/ m.type = "create" /\ m \in MsgCreateValidator
         \/ m.type = "register" /\ m \in MsgRegisterValidator
         \/ m.type = "valParams" /\ m \in MsgUpdateValidatorParams
         \/ m.type = "send" /\ m \in MsgSend
BY DEF Message, MsgBurn, MsgUpdateBurnParams, MsgCreateValidator, MsgRegisterValidator,
       MsgUpdateValidatorParams, MsgSend

LEMMA HandleEffect ==
  ASSUME NEW st, Good(st), NEW m \in Message, NEW h
  PROVE  LET r == Handle(st, m, h)
         IN r.st \in Store /\ (r.ok => Good(r.st) /\ Grows(st, r.st))
<1>1. st \in Store /\ Failed(st).st = st /\ ~ Failed(st).ok
  BY DEF Good, Failed
<1>2. CASE ~ IsAllowed(m, h)
  BY <1>1, <1>2 DEF Handle, IsAllowed
<1>3. CASE m.type = "burn" /\ m \in MsgBurn
  <2>1. Handle(st, m, h) = BurnFromAccount(st, m.signer, m.amount)
    BY <1>3 DEF Handle, IsAllowed, Burn
  <2>2. m.signer \in Accounts /\ m.signer # BurnModule /\ m.amount \in Coin
    BY <1>3, AccountNames DEF MsgBurn, Operators
  <2>. QED  BY <2>1, <2>2, BurnEffect
<1>4. CASE m.type = "burnParams" /\ m \in MsgUpdateBurnParams
  <2>1. Handle(st, m, h) = UpdateBurnParams(st, m)
    BY <1>4 DEF Handle, IsAllowed
  <2>. QED  BY <1>4, <2>1, UpdateBurnParamsEffect
<1>5. CASE m.type = "register" /\ m \in MsgRegisterValidator
  <2>1. Handle(st, m, h) = RegisterValidator(st, m, h)
    BY <1>5 DEF Handle, IsAllowed
  <2>. QED  BY <1>5, <2>1, RegisterValidatorEffect
<1>6. CASE m.type = "valParams" /\ m \in MsgUpdateValidatorParams
  <2>1. Handle(st, m, h) = UpdateValidatorParams(st, m)
    BY <1>6 DEF Handle, IsAllowed
  <2>. QED  BY <1>6, <2>1, UpdateValidatorParamsEffect
<1>7. CASE m.type = "send" /\ m \in MsgSend
  <2>1. Handle(st, m, h) = Send(st, m)
    BY <1>7 DEF Handle, IsAllowed
  <2>. QED  BY <1>7, <2>1, SendEffect
<1>8. CASE m.type = "create" /\ m \in MsgCreateValidator /\ IsAllowed(m, h)
  <2>1. m.via \in {"router", "precompile"}
    BY <1>8 DEF MsgCreateValidator
  <2>2. Handle(st, m, h) = IF h = 0 THEN CreateValidator(st, m, 0) ELSE Failed(st)
    BY <1>8, <2>1 DEF Handle, IsAllowed, RestrictedCreateValidator
  <2>3. CASE h # 0
    BY <1>1, <2>2, <2>3
  <2>4. CASE h = 0
    <3>1. CreateValidator(st, m, 0).st \in Store
      BY <1>1, <1>8, CreateValidatorOk DEF MsgCreateValidator
    <3>2. CreateValidator(st, m, 0).ok =>
            Good(CreateValidator(st, m, 0).st) /\ Grows(st, CreateValidator(st, m, 0).st)
      BY <1>8, CreateAtGenesisEffect
    <3>. QED  BY <2>2, <2>4, <3>1, <3>2
  <2>. QED  BY <2>3, <2>4
<1>. QED  BY <1>2, <1>3, <1>4, <1>5, <1>6, <1>7, <1>8, MessageKinds

-----------------------------------------------------------------------------
(***************************************************************************)
(* The fee burn never asks for more than the collector holds.              *)
(***************************************************************************)
LEMMA FractionBound ==
  ASSUME NEW p \in Nat, NEW one \in Nat \ {0}, p <= one, NEW b \in Nat
  PROVE  (p * b) \div one \in 0..b
<1> DEFINE q == (p * b) \div one
           r == (p * b) % one
<1>1. p * b \in Nat /\ p * b <= one * b
  <2>1. \E k \in Nat : one = p + k
    <3>1. one - p \in Nat /\ one = p + (one - p)
      OBVIOUS
    <3>. QED  BY <3>1
  <2>2. PICK k \in Nat : one = p + k
    BY <2>1
  <2>3. one * b = p * b + k * b
    BY <2>2
  <2>4. k * b \in Nat /\ p * b \in Nat
    OBVIOUS
  <2>. QED  BY <2>3, <2>4
<1>2. q \in Int /\ r \in 0..(one - 1) /\ p * b = one * q + r
  BY <1>1
<1>. HIDE DEF q, r
<1>3. q >= 0
  <2>. SUFFICES ASSUME q <= -1 PROVE FALSE
    BY <1>2
  <2>1. \E k \in Nat : q = -1 - k
    <3>1. -1 - q \in Nat /\ q = -1 - (-1 - q)
      BY <1>2
    <3>. QED  BY <3>1
  <2>2. PICK k \in Nat : q = -1 - k
    BY <2>1
  <2>3. one * q = - one - one * k /\ one * k \in Nat
    BY <2>2
  <2>4. p * b <= r - one
    BY <1>2, <2>3
  <2>. QED  BY <1>1, <1>2, <2>4
<1>4. q <= b
  <2>. SUFFICES ASSUME q >= b + 1 PROVE FALSE
    BY <1>2
  <2>1. \E k \in Nat : q = b + 1 + k
    <3>1. q - b - 1 \in Nat /\ q = b + 1 + (q - b - 1)
      BY <1>2
    <3>. QED  BY <3>1
  <2>2. PICK k \in Nat : q = b + 1 + k
    BY <2>1
  <2>3. one * q = one * b + one + one * k /\ one * k \in Nat /\ one * b \in Nat
    BY <2>2
  <2>. QED  BY <1>1, <1>2, <2>3
<1>. QED  BY <1>2, <1>3, <1>4 DEF q

\* Whoever holds the native coins can burn them: what the first half of a burn
\* puts into the burn account is there for the second.
LEMMA BurnSucceeds ==
  ASSUME NEW st \in Store, NEW a \in Accounts, NEW c \in Coin,
         c.amount >= 0, c.denom = BondDenom, c.amount <= st.bal[a][BondDenom]
  PROVE  BurnFromAccount(st, a, c).ok
<1> DEFINE r == BurnFromAccount(st, a, c)
           u == SendCoins(st, a, BurnModule, c).st
<1>1. BurnModule \in Accounts /\ BondDenom \in Denoms /\ c.amount \in Nat
  BY AccountNames DEF ModuleAccounts, Coin
<1>2. SendCoins(st, a, BurnModule, c).ok
  BY DEF SendCoins, CanPay, Ok
<1>3. Transfer(st, u, a, BurnModule, c) /\ u \in Store
  BY <1>1, <1>2, SendCoinsOk, TransferStore
<1>4. r = burnNative(u, a, c)
  BY <1>2 DEF BurnFromAccount
<1>. HIDE DEF u
<1>5. u.bal[BurnModule][BondDenom] >= c.amount
  <2>1. st.bal[BurnModule][BondDenom] \in Nat
    BY <1>1, StoreFields
  <2>2. u.bal[BurnModule][BondDenom]
          = st.bal[BurnModule][BondDenom]
            - (IF BurnModule = a THEN c.amount ELSE 0) + c.amount
    BY <1>1, <1>3 DEF Transfer
  <2>. QED  BY <1>1, <2>1, <2>2
<1>6. BurnCoins(u, BurnModule, c).ok
  BY <1>5 DEF BurnCoins, CanPay, Ok
<1>7. r.ok
  BY <1>4, <1>6 DEF burnNative, destroy, Ok
<1>. QED  BY <1>7

LEMMA ProcessFeeBurnEffect ==
  ASSUME NEW st, Good(st)
  PROVE  LET r == ProcessFeeBurn(st)
         IN /\ r.ok /\ Good(r.st) /\ Grows(st, r.st)
            /\ r.st = st \/ \E n \in Nat : Burned(st, r.st, FeeCollector, n)
<1> DEFINE b == st.bal[FeeCollector][BondDenom]
           n == burnableAmount(st)
           c == Native(n)
           r == BurnFromAccount(st, FeeCollector, c)
<1>1. st \in Store
  BY DEF Good
<1>2. /\ FeeCollector \in Accounts /\ FeeCollector # BurnModule /\ BondDenom \in Denoms
  BY AccountNames DEF ModuleAccounts, FeeCollector, BurnModule
<1>3. n \in 0..b /\ b \in Nat
  <2>1. b \in Nat
    BY <1>1, <1>2, StoreFields
  <2>2. st.FeeBurnPercent \in Nat /\ st.FeeBurnPercent <= PercentOne
    BY <1>1, StoreFields DEF Good, ValidFeeBurnPercent
  <2>. QED  BY <2>1, <2>2, BurnAssumption, FractionBound DEF burnableAmount
<1>4. CASE n <= 0
  BY <1>1, <1>3, <1>4, GrowsReflexive DEF ProcessFeeBurn, Ok
<1>5. CASE n > 0
  <2>1. ProcessFeeBurn(st) = r
    BY <1>3, <1>5, BurnFromModuleSame DEF ProcessFeeBurn
  <2>2. c \in Coin /\ c.amount = n /\ c.denom = BondDenom /\ n \in Nat
    BY <1>2, <1>3 DEF Native, Coin
  <2>3. r.ok
    BY <1>1, <1>2, <1>3, <2>2, BurnSucceeds
  <2>4. Good(r.st) /\ Grows(st, r.st) /\ Burned(st, r.st, FeeCollector, n)
    BY <1>1, <1>2, <2>2, <2>3, BurnEffect, BurnFromAccountOk
  <2>. QED  BY <2>1, <2>2, <2>3, <2>4
<1>. QED  BY <1>3, <1>4, <1>5

-----------------------------------------------------------------------------
(***************************************************************************)
(* The other modules' steps of a block.                                    *)
(***************************************************************************)
LEMMA MintEffect ==
  ASSUME NEW st, Good(st), NEW n \in Nat, NEW h
  PROVE  LET new == [MintCoins(st, FeeCollector, Native(n)) EXCEPT
                       !.minted = @ + n, !.earlyMint = IF h = 0 THEN @ + n ELSE @]
         IN Good(new) /\ Grows(st, new)
<1> DEFINE new == [MintCoins(st, FeeCollector, Native(n)) EXCEPT
                       !.minted = @ + n, !.earlyMint = IF h = 0 THEN @ + n ELSE @]
           b == [st.bal EXCEPT ![FeeCollector] =
                   [st.bal[FeeCollector] EXCEPT ![BondDenom] = @ + n]]
           s == [st.supply EXCEPT ![BondDenom] = @ + n]
           e == IF h = 0 THEN st.earlyMint + n ELSE st.earlyMint
           mi == st.minted + n
<1>1. st \in Store /\ st.earlyMint \in Int
  BY DEF Good, Store
<1>2. /\ FeeCollector \in Accounts /\ BurnModule \in Accounts
      /\ FeeCollector # BurnModule /\ BondDenom \in Denoms
  BY AccountNames DEF ModuleAccounts, FeeCollector, BurnModule
<1>3. /\ b \in [Accounts -> [Denoms -> Nat]]
      /\ \A d \in Denoms : b[BurnModule][d] = st.bal[BurnModule][d]
      /\ s \in [Denoms -> Int] /\ e \in Int /\ mi \in Int
      /\ \A d \in Denoms : s[d] = st.supply[d] + (IF d = BondDenom THEN n ELSE 0)
  BY <1>1, <1>2, StoreFields
<1>4. MintCoins(st, FeeCollector, Native(n)) = [st EXCEPT !.bal = b, !.supply = s]
  <2>1. MintCoins(st, FeeCollector, Native(n))
          = [[st EXCEPT !.bal = b] EXCEPT !.supply[BondDenom] = @ + n]
    BY DEF MintCoins, Credit, Native
  <2>. HIDE DEF b
  <2>. QED  BY <1>1, <2>1 DEF Store
<1>. HIDE DEF b, s
<1>5. new = [st EXCEPT !.bal = b, !.supply = s, !.minted = mi, !.earlyMint = e]
  BY <1>1, <1>4 DEF Store
<1>. HIDE DEF new, e, mi
<1>6. new \in Store
  BY <1>1, <1>3, <1>5 DEF Store
<1>7. /\ new.bal = b /\ new.supply = s /\ new.minted = mi
      /\ new.FeeBurnPercent = st.FeeBurnPercent
      /\ new.GlobalBurnTotal = st.GlobalBurnTotal
      /\ new.GlobalBurnCount = st.GlobalBurnCount
      /\ new.AccountBurnTotal = st.AccountBurnTotal
      /\ new.ValidatorParams = st.ValidatorParams /\ new.validators = st.validators
      /\ new.selfBond = st.selfBond /\ new.minSelf = st.minSelf
      /\ new.owed = st.owed /\ new.minDue = st.minDue
      /\ new.slashed = st.slashed /\ new.gifts = st.gifts
  BY <1>1, <1>5 DEF Store
<1>8. Good(new)
  BY <1>6, <1>7 DEF Good, Bonded
<1>9. \A d \in Denoms :
        new.supply[d] = st.supply[d]
         + (IF d = BondDenom
            THEN (new.minted - st.minted) - (new.slashed - st.slashed)
                 - (new.GlobalBurnTotal - st.GlobalBurnTotal)
            ELSE 0)
  <2>. TAKE d \in Denoms
  <2>1. /\ st.supply[d] \in Int /\ st.GlobalBurnTotal \in Int
        /\ st.minted \in Int /\ st.slashed \in Int
    BY <1>1, StoreFields
  <2>. QED  BY <1>3, <1>7, <2>1 DEF mi
<1>10. Grows(st, new)
  <2>1. new.minted >= st.minted
    BY <1>1, <1>7, StoreFields DEF mi
  <2>. QED  BY <1>1, <1>3, <1>7, <1>9, <2>1, GrowsReflexive DEF Grows, GetAccountBurnTotal
<1>. QED  BY <1>8, <1>10 DEF new, e, mi

LEMMA DistributeEffect ==
  ASSUME NEW st, Good(st)
  PROVE  LET new == [st EXCEPT
               !.bal = [a \in Accounts |-> [d \in Denoms |->
                  CASE a = FeeCollector -> 0
                    [] a = Distribution -> @[a][d] + @[FeeCollector][d]
                    [] OTHER            -> @[a][d]]]]
         IN Good(new) /\ Grows(st, new)
<1> DEFINE b == [a \in Accounts |-> [d \in Denoms |->
                  CASE a = FeeCollector -> 0
                    [] a = Distribution -> st.bal[a][d] + st.bal[FeeCollector][d]
                    [] OTHER            -> st.bal[a][d]]]
           new == [st EXCEPT !.bal = b]
<1>1. st \in Store
  BY DEF Good
<1>2. /\ FeeCollector \in Accounts /\ BurnModule \in Accounts
      /\ FeeCollector # BurnModule /\ Distribution # BurnModule
  BY AccountNames DEF ModuleAccounts, FeeCollector, BurnModule, Distribution
<1>3. /\ b \in [Accounts -> [Denoms -> Nat]]
      /\ \A d \in Denoms : b[BurnModule][d] = st.bal[BurnModule][d]
  BY <1>1, <1>2, StoreFields
<1>. HIDE DEF b
<1>4. new \in Store
  BY <1>1, <1>3 DEF Store
<1>5. /\ new.bal = b /\ new.supply = st.supply /\ new.minted = st.minted
      /\ new.FeeBurnPercent = st.FeeBurnPercent
      /\ new.GlobalBurnTotal = st.GlobalBurnTotal
      /\ new.GlobalBurnCount = st.GlobalBurnCount
      /\ new.AccountBurnTotal = st.AccountBurnTotal
      /\ new.ValidatorParams = st.ValidatorParams /\ new.validators = st.validators
      /\ new.selfBond = st.selfBond /\ new.minSelf = st.minSelf
      /\ new.owed = st.owed /\ new.minDue = st.minDue
      /\ new.slashed = st.slashed /\ new.gifts = st.gifts
  BY <1>1 DEF Store
<1>. HIDE DEF new
<1>6. Good(new)
  BY <1>4, <1>5 DEF Good, Bonded
<1>7. Grows(st, new)
  BY <1>1, <1>3, <1>5, GrowsReflexive DEF Grows, GetAccountBurnTotal
<1>. QED  BY <1>6, <1>7 DEF new, b

LEMMA FeeEffect ==
  ASSUME NEW st, Good(st), NEW u \in Users, NEW n \in Nat,
         SendCoins(st, u, FeeCollector, Native(n)).ok
  PROVE  LET paid == SendCoins(st, u, FeeCollector, Native(n))
             new == [paid.st EXCEPT !.feesPaid = @ + n]
         IN Good(new) /\ Grows(st, new)
<1> DEFINE v == SendCoins(st, u, FeeCollector, Native(n)).st
           f == v.feesPaid + n
           new == [v EXCEPT !.feesPaid = f]
<1>1. /\ u \in Accounts /\ FeeCollector \in Accounts /\ u # BurnModule
      /\ FeeCollector # BurnModule /\ Native(n) \in Coin /\ st \in Store
  BY AccountNames DEF ModuleAccounts, FeeCollector, BurnModule, Native, Coin, Good
<1>2. Transfer(st, v, u, FeeCollector, Native(n))
  BY <1>1, SendCoinsOk
<1>. HIDE DEF v
<1>3. Good(v) /\ Grows(st, v)
  BY <1>1, <1>2, TransferEffect
<1>4. v \in Store /\ f \in Int
  BY <1>3 DEF Good, Store
<1>. HIDE DEF f
<1>5. new \in Store
  BY <1>4 DEF Store
<1>6. /\ new.bal = v.bal /\ new.supply = v.supply /\ new.minted = v.minted
      /\ new.FeeBurnPercent = v.FeeBurnPercent
      /\ new.GlobalBurnTotal = v.GlobalBurnTotal
      /\ new.GlobalBurnCount = v.GlobalBurnCount
      /\ new.AccountBurnTotal = v.AccountBurnTotal
      /\ new.ValidatorParams = v.ValidatorParams /\ new.validators = v.validators
      /\ new.selfBond = v.selfBond /\ new.minSelf = v.minSelf
      /\ new.owed = v.owed /\ new.minDue = v.minDue
      /\ new.slashed = v.slashed /\ new.gifts = v.gifts
  BY <1>4 DEF Store
<1>. HIDE DEF new
<1>7. Good(new)
  BY <1>3, <1>5, <1>6 DEF Good, Bonded
<1>8. Grows(st, new)
  BY <1>3, <1>6 DEF Grows, GetAccountBurnTotal
<1>. QED  BY <1>7, <1>8 DEF new, f, v

LEMMA RemoveValidatorEffect ==
  ASSUME NEW st, Good(st), NEW v \in Operators, NEW lost \in Nat, NEW back \in Int,
         NEW burnt, burnt = BurnCoins(st, StakingPool, Native(lost)), burnt.ok,
         NEW ret, ret = SendCoins(burnt.st, StakingPool, v, Native(back)), ret.ok
  PROVE  LET new == [ret.st EXCEPT !.slashed = @ + lost, !.validators = @ \ {v}]
         IN Good(new) /\ Grows(st, new)
<1> DEFINE u == burnt.st
           w == ret.st
           sl == w.slashed + lost
           va == w.validators \ {v}
           new == [w EXCEPT !.slashed = sl, !.validators = va]
<1>1. /\ v \in Accounts /\ StakingPool \in Accounts /\ v # BurnModule
      /\ StakingPool # BurnModule /\ BondDenom \in Denoms /\ BurnModule \in Accounts
  BY AccountNames DEF ModuleAccounts, StakingPool, BurnModule
<1>2. /\ st \in Store /\ Native(lost) \in Coin /\ Native(back) \in Coin
      /\ Native(lost).amount = lost /\ Native(lost).denom = BondDenom
  BY <1>1 DEF Native, Coin, Good
<1>3. BankBurn(st, u, StakingPool, Native(lost)) /\ u \in Store
  BY <1>1, <1>2, BurnCoinsOk, BankBurnStore
<1>4. Transfer(u, w, StakingPool, v, Native(back)) /\ w \in Store
  BY <1>1, <1>2, <1>3, SendCoinsOk, TransferStore
<1>5. /\ u.FeeBurnPercent = st.FeeBurnPercent
      /\ u.GlobalBurnTotal = st.GlobalBurnTotal
      /\ u.GlobalBurnCount = st.GlobalBurnCount
      /\ u.AccountBurnTotal = st.AccountBurnTotal
      /\ u.ValidatorParams = st.ValidatorParams /\ u.validators = st.validators
      /\ u.selfBond = st.selfBond /\ u.minSelf = st.minSelf
      /\ u.owed = st.owed /\ u.minDue = st.minDue
      /\ u.minted = st.minted /\ u.slashed = st.slashed /\ u.gifts = st.gifts
  <2>1. u = [st EXCEPT !.bal = u.bal, !.supply = u.supply, !.burns = u.burns]
    BY <1>3 DEF BankBurn
  <2>. HIDE DEF u
  <2>. QED  BY <1>2, <2>1 DEF Store
<1>6. Good(u)
  BY <1>3, <1>5 DEF Good, Bonded
<1>7. Good(w) /\ Grows(u, w)
  BY <1>1, <1>4, <1>6, TransferEffect
<1>8. /\ \A d \in Denoms : u.supply[d] = st.supply[d] - (IF d = BondDenom THEN lost ELSE 0)
      /\ \A d \in Denoms : u.bal[BurnModule][d] = st.bal[BurnModule][d]
  BY <1>1, <1>2, <1>3, StoreFields DEF BankBurn
<1>9. w.slashed = u.slashed /\ w.validators = u.validators /\ w.minted = u.minted
      /\ w.GlobalBurnTotal = u.GlobalBurnTotal
  <2>. HIDE DEF u, w
  <2>1. u \in Store /\ w = [u EXCEPT !.bal = w.bal]
    BY <1>3, <1>4 DEF Transfer
  <2>. QED  BY <2>1 DEF Store
<1>. HIDE DEF u, w
<1>10. sl \in Int /\ va \in SUBSET Operators /\ va \subseteq w.validators
  BY <1>4 DEF Store
<1>. HIDE DEF sl, va
<1>11. new \in Store
  BY <1>4, <1>10 DEF Store
<1>12. /\ new.bal = w.bal /\ new.supply = w.supply /\ new.minted = w.minted
      /\ new.FeeBurnPercent = w.FeeBurnPercent
      /\ new.GlobalBurnTotal = w.GlobalBurnTotal
      /\ new.GlobalBurnCount = w.GlobalBurnCount
      /\ new.AccountBurnTotal = w.AccountBurnTotal
      /\ new.ValidatorParams = w.ValidatorParams /\ new.validators = va
      /\ new.selfBond = w.selfBond /\ new.minSelf = w.minSelf
      /\ new.owed = w.owed /\ new.minDue = w.minDue
      /\ new.slashed = sl /\ new.gifts = w.gifts
  BY <1>4 DEF Store
<1>. HIDE DEF new
<1>13. Good(new)
  BY <1>7, <1>10, <1>11, <1>12 DEF Good, Bonded
<1>14. new.slashed = st.slashed + lost
  BY <1>5, <1>9, <1>12 DEF sl
<1>15. \A d \in Denoms :
        new.supply[d] = st.supply[d]
         + (IF d = BondDenom
            THEN (new.minted - st.minted) - (new.slashed - st.slashed)
                 - (new.GlobalBurnTotal - st.GlobalBurnTotal)
            ELSE 0)
  <2>. TAKE d \in Denoms
  <2>1. /\ st.supply[d] \in Int /\ st.GlobalBurnTotal \in Int
        /\ st.minted \in Int /\ st.slashed \in Int
    BY <1>2, StoreFields
  <2>2. w.supply[d] = u.supply[d]
    BY <1>3, <1>7, <1>9, StoreFields DEF Grows
  <2>. QED  BY <1>5, <1>8, <1>9, <1>12, <1>14, <2>1, <2>2
<1>16. Grows(st, new)
  <2>1. st.slashed \in Int /\ st.minted \in Int /\ st.GlobalBurnTotal \in Int
    BY <1>2, StoreFields
  <2>2. \A a \in Accounts : /\ GetAccountBurnTotal(u, a) = GetAccountBurnTotal(st, a)
                            /\ GetAccountBurnTotal(new, a) = GetAccountBurnTotal(w, a)
    BY <1>5, <1>12 DEF GetAccountBurnTotal
  <2>3. \A d \in Denoms :
          new.bal[BurnModule][d] - new.gifts[d] = st.bal[BurnModule][d] - st.gifts[d]
    BY <1>5, <1>7, <1>8, <1>12 DEF Grows
  <2>4. \A a \in Accounts :
       /\ GetAccountBurnTotal(new, a) >= GetAccountBurnTotal(st, a)
       /\ GetAccountBurnTotal(new, a) - GetAccountBurnTotal(st, a)
            <= new.GlobalBurnTotal - st.GlobalBurnTotal
    BY <1>5, <1>7, <1>12, <2>2 DEF Grows
  <2>5. \A a \in Operators :
       /\ new.owed[a] >= st.owed[a]
       /\ new.owed[a] - st.owed[a]
            <= GetAccountBurnTotal(new, a) - GetAccountBurnTotal(st, a)
    BY <1>5, <1>7, <1>12, <2>2, AccountNames DEF Grows
  <2>6. /\ new.GlobalBurnTotal >= st.GlobalBurnTotal
        /\ new.minted >= st.minted /\ new.slashed >= st.slashed
        /\ new.GlobalBurnCount # st.GlobalBurnCount
             => new.GlobalBurnTotal > st.GlobalBurnTotal
    BY <1>5, <1>7, <1>9, <1>12, <1>14, <2>1 DEF Grows
  <2>. QED  BY <1>15, <2>3, <2>4, <2>5, <2>6 DEF Grows
<1>. QED  BY <1>13, <1>16 DEF new, va, sl, w

-----------------------------------------------------------------------------
(***************************************************************************)
(* Genesis.  Every non-empty set of indices has a greatest element, so the *)
(* last record of an address is well defined; the records that Walk        *)
(* visits are one per address, so import undoes export.                    *)
(***************************************************************************)
LEMMA LastIndex ==
  ASSUME NEW n \in Nat, NEW S, S \subseteq 1..n, S # {}
  PROVE  \E i \in S : \A j \in S : j <= i
<1> DEFINE T == {k \in Nat : n - k \in S}
           R == OpToRel(<, Nat)
<1>1. T \subseteq Nat /\ T # {}
  <2>1. PICK i \in S : TRUE
    OBVIOUS
  <2>2. n - i \in Nat /\ n - (n - i) = i
    OBVIOUS
  <2>. QED  BY <2>1, <2>2
<1>2. IsWellFoundedOn(R, Nat)
  BY NatLessThanWellFounded
<1>3. R = {ss \in Nat \X Nat : ss[1] < ss[2]}
  BY DEF OpToRel
<1>. HIDE DEF R, T
<1>4. PICK k \in T : \A l \in T : ~ (<<l, k>> \in R)
  BY <1>1, <1>2, WFMin
<1>5. \A l \in T : ~ (l < k)
  BY <1>1, <1>3, <1>4
<1>6. n - k \in S /\ \A j \in S : j <= n - k
  <2>1. \A j \in S : n - j \in T
    <3>. TAKE j \in S
    <3>1. n - j \in Nat /\ n - (n - j) = j
      OBVIOUS
    <3>. QED  BY <3>1 DEF T
  <2>2. k \in Nat /\ n - k \in S
    BY DEF T
  <2>3. \A j \in S : ~ (n - j < k) /\ j \in Int
    BY <1>5, <2>1
  <2>. QED  BY <2>2, <2>3
<1>. QED  BY <1>6

LEMMA LastRecordExists ==
  ASSUME NEW records, NEW n \in Nat, DOMAIN records = 1..n, NEW a,
         \E i \in DOMAIN records : records[i].address = a
  PROVE  LET l == LastRecord(records, a)
         IN l \in DOMAIN records /\ records[l].address = a
<1> DEFINE S == {i \in DOMAIN records : records[i].address = a}
<1>1. S \subseteq 1..n /\ S # {}
  OBVIOUS
<1>2. \E i \in S : \A j \in S : j <= i
  BY <1>1, LastIndex
<1>3. \E i \in DOMAIN records :
         /\ records[i].address = a
         /\ \A j \in DOMAIN records : records[j].address = a => j <= i
  BY <1>2
<1>. QED  BY <1>3 DEF LastRecord

LEMMA AccountsFinite == IsFiniteSet(Accounts)
<1>1. IsFiniteSet(ModuleAccounts)
  <2>1. IsFiniteSet({}) /\ ModuleAccounts = {FeeCollector} \cup {BurnModule} \cup
           {Distribution} \cup {StakingPool} \cup {Gov}
    BY FS_EmptySet DEF ModuleAccounts
  <2>2. \A x : IsFiniteSet({x})
    BY FS_Singleton
  <2>. QED  BY <2>1, <2>2, FS_Union
<1>. QED
  BY <1>1, BankAssumption, FS_Union DEF Accounts

LEMMA WalkVisitsEachOnce ==
  ASSUME NEW map, NEW recorded, recorded = {a \in Accounts : map[a] # NotRecorded}
  PROVE  /\ Cardinality(recorded) \in Nat
         /\ Walk(map) \in [1..Cardinality(recorded) -> recorded]
         /\ \A a \in recorded : \E i \in DOMAIN Walk(map) : Walk(map)[i] = a
<1>1. IsFiniteSet(Accounts)
  BY AccountsFinite
<1>3. IsFiniteSet(recorded)
  BY <1>1, FS_Subset
<1> DEFINE n == Cardinality(recorded)
<1>4. n \in Nat /\ ExistsBijection(1..n, recorded)
  BY <1>3, FS_CardinalityType
<1>5. \E keys \in [1..n -> recorded] :
       /\ \A i, j \in DOMAIN keys : keys[i] = keys[j] => i = j
       /\ \A a \in recorded : \E i \in DOMAIN keys : keys[i] = a
  <2>1. PICK f : f \in Bijection(1..n, recorded)
    BY <1>4 DEF ExistsBijection
  <2>2. /\ f \in [1..n -> recorded]
        /\ \A i, j \in DOMAIN f : f[i] = f[j] => i = j
        /\ \A a \in recorded : \E i \in 1..n : f[i] = a
    BY <2>1 DEF Bijection, Injection, Surjection, IsInjective
  <2>. HIDE DEF n
  <2>3. DOMAIN f = 1..n
    BY <2>2
  <2>4. \A a \in recorded : \E i \in DOMAIN f : f[i] = a
    BY <2>2, <2>3
  <2>. f \in [1..n -> recorded]
    BY <2>2
  <2>. WITNESS f \in [1..n -> recorded]
  <2>. QED  BY <2>2, <2>4
<1>6. Walk(map) = CHOOSE keys \in [1..n -> recorded] :
       /\ \A i, j \in DOMAIN keys : keys[i] = keys[j] => i = j
       /\ \A a \in recorded : \E i \in DOMAIN keys : keys[i] = a
  BY DEF Walk
<1>. QED  BY <1>4, <1>5, <1>6

LEMMA ImportUndoesExport ==
  ASSUME NEW st, Good(st)
  PROVE  LET fresh == [st EXCEPT !.FeeBurnPercent = 0, !.GlobalBurnCount = 0,
                                 !.GlobalBurnTotal = 0,
                                 !.AccountBurnTotal = [a \in Accounts |-> NotRecorded]]
         IN InitValidatorGenesis(InitBurnGenesis(fresh, ExportBurnGenesis(st)),
                                 ExportValidatorGenesis(st)) = st
<1> DEFINE none == [a \in Accounts |-> NotRecorded]
           fresh == [st EXCEPT !.FeeBurnPercent = 0, !.GlobalBurnCount = 0,
                               !.GlobalBurnTotal = 0, !.AccountBurnTotal = none]
           recorded == {a \in Accounts : st.AccountBurnTotal[a] # NotRecorded}
           n == Cardinality(recorded)
           keys == Walk(st.AccountBurnTotal)
           recs == accountBurnTotals(st)
           g == ExportBurnGenesis(st)
           m == [a \in Accounts |->
                   IF \E i \in DOMAIN recs : recs[i].address = a
                   THEN recs[LastRecord(recs, a)].total
                   ELSE none[a]]
<1>1. st \in Store /\ st.AccountBurnTotal \in [Accounts -> Nat \cup {NotRecorded}]
  BY DEF Good, Store
<1>2. /\ n \in Nat /\ keys \in [1..n -> recorded]
      /\ \A a \in recorded : \E i \in DOMAIN keys : keys[i] = a
  BY WalkVisitsEachOnce
<1>3. recs = [i \in DOMAIN keys |->
                [address |-> keys[i], total |-> st.AccountBurnTotal[keys[i]]]]
  BY DEF accountBurnTotals
<1>. HIDE DEF keys, recs, n
<1>4. /\ DOMAIN recs = 1..n
      /\ \A i \in 1..n : /\ recs[i].address = keys[i] /\ keys[i] \in recorded
                         /\ recs[i].total = st.AccountBurnTotal[keys[i]]
  BY <1>2, <1>3
<1>5. m = st.AccountBurnTotal
  <2>1. \A a \in Accounts : m[a] = st.AccountBurnTotal[a]
    <3>. TAKE a \in Accounts
    <3>1. CASE a \in recorded
      <4>1. \E i \in DOMAIN recs : recs[i].address = a
        BY <1>2, <1>4, <3>1
      <4>2. /\ LastRecord(recs, a) \in DOMAIN recs
            /\ recs[LastRecord(recs, a)].address = a
        BY <1>2, <1>4, <4>1, LastRecordExists
      <4>3. recs[LastRecord(recs, a)].total = st.AccountBurnTotal[a]
        BY <1>4, <4>2
      <4>. QED  BY <4>1, <4>3
    <3>2. CASE a \notin recorded
      <4>1. ~ \E i \in DOMAIN recs : recs[i].address = a
        BY <1>4, <3>2
      <4>2. m[a] = NotRecorded
        BY <4>1
      <4>. QED  BY <3>2, <4>2
    <3>. QED  BY <3>1, <3>2
  <2>2. m \in [Accounts -> Nat \cup {NotRecorded}]
    <3>1. \A a \in Accounts : m[a] \in Nat \cup {NotRecorded}
      BY <1>1, <2>1
    <3>2. DOMAIN m = Accounts /\ m = [a \in Accounts |-> m[a]]
      OBVIOUS
    <3>. HIDE DEF m
    <3>. QED  BY <3>1, <3>2
  <2>. HIDE DEF m
  <2>. QED  BY <1>1, <2>1, <2>2
<1>6. /\ g.FeeBurnPercent = st.FeeBurnPercent /\ g.Count = st.GlobalBurnCount
      /\ g.Total = st.GlobalBurnTotal /\ g.AccountTotals = recs
      /\ g.Total # NilTotal
  BY <1>1, StoreFields DEF ExportBurnGenesis, GetGlobalBurnTotal, NilTotal, recs
<1>. HIDE DEF g, none
<1>7. fresh.AccountBurnTotal = none
  BY <1>1 DEF Store
<1>8. InitBurnGenesis(fresh, g)
        = [fresh EXCEPT !.FeeBurnPercent = st.FeeBurnPercent,
                        !.GlobalBurnCount = st.GlobalBurnCount,
                        !.GlobalBurnTotal = st.GlobalBurnTotal,
                        !.AccountBurnTotal = m]
  <2>1. InitBurnGenesis(fresh, g)
        = [fresh EXCEPT !.FeeBurnPercent = g.FeeBurnPercent,
             !.GlobalBurnCount = g.Count,
             !.GlobalBurnTotal = IF g.Total = NilTotal THEN @ ELSE g.Total,
             !.AccountBurnTotal =
                [a \in Accounts |->
                   IF \E i \in DOMAIN g.AccountTotals : g.AccountTotals[i].address = a
                   THEN g.AccountTotals[LastRecord(g.AccountTotals, a)].total
                   ELSE fresh.AccountBurnTotal[a]]]
    BY DEF InitBurnGenesis
  <2>. HIDE DEF fresh
  <2>. QED  BY <1>6, <1>7, <2>1
<1>. HIDE DEF m
<1>9. InitBurnGenesis(fresh, g) = st
  BY <1>1, <1>5, <1>8 DEF Store
<1>10. InitValidatorGenesis(st, ExportValidatorGenesis(st)) = st
  BY <1>1 DEF InitValidatorGenesis, ExportValidatorGenesis, Store
<1>. QED  BY <1>9, <1>10 DEF fresh, g, none

LEMMA GenStoreGood == Good(GenStore)
<1> DEFINE none == [a \in Accounts |-> NotRecorded]
           zero == [v \in Operators |-> 0]
           noGifts == [d \in Denoms |-> 0]
           recs == GenBurn.AccountTotals
           m == [a \in Accounts |->
                   IF \E i \in DOMAIN recs : recs[i].address = a
                   THEN recs[LastRecord(recs, a)].total
                   ELSE none[a]]
           t == IF GenBurn.Total = NilTotal THEN 0 ELSE GenBurn.Total
           g1 == [EmptyStore EXCEPT !.FeeBurnPercent = GenBurn.FeeBurnPercent,
                                    !.GlobalBurnCount = GenBurn.Count,
                                    !.GlobalBurnTotal = t, !.AccountBurnTotal = m]
<1>1. /\ GenBurn.FeeBurnPercent \in Int /\ GenBurn.Count \in 0..(CountModulus - 1)
      /\ t \in Nat /\ recs \in Seq([address : Accounts, total : Int])
      /\ \A i \in DOMAIN recs : recs[i].total >= 0
      /\ ValidFeeBurnPercent(GenBurn.FeeBurnPercent)
  BY ChainAssumption DEF BurnGenesis, ValidBurnGenesis, NilTotal
<1>2. m \in [Accounts -> Nat \cup {NotRecorded}]
  <2>1. DOMAIN recs = 1..Len(recs) /\ Len(recs) \in Nat
        /\ \A i \in DOMAIN recs : recs[i].total \in Nat
    <3>. DEFINE X == [address : Accounts, total : Int]
    <3>1. recs \in Seq(X)
      BY <1>1
    <3>. HIDE DEF recs, X
    <3>2. /\ DOMAIN recs = 1..Len(recs) /\ Len(recs) \in Nat
          /\ \A i \in DOMAIN recs : recs[i] \in X
      BY <3>1
    <3>. QED  BY <1>1, <3>2 DEF X
  <2>. HIDE DEF recs
  <2>. SUFFICES ASSUME NEW a \in Accounts
                PROVE  (IF \E i \in DOMAIN recs : recs[i].address = a
                        THEN recs[LastRecord(recs, a)].total
                        ELSE none[a]) \in Nat \cup {NotRecorded}
    BY DEF m
  <2>2. CASE \E i \in DOMAIN recs : recs[i].address = a
    <3>1. LastRecord(recs, a) \in DOMAIN recs
      BY <2>1, <2>2, LastRecordExists
    <3>. QED  BY <2>1, <2>2, <3>1
  <2>3. CASE ~ \E i \in DOMAIN recs : recs[i].address = a
    BY <2>3
  <2>. QED  BY <2>2, <2>3
<1>3. /\ none \in [Accounts -> Nat \cup {NotRecorded}] /\ zero \in [Operators -> Int]
      /\ noGifts \in [Denoms -> Int] /\ GenBal \in [Accounts -> [Denoms -> Nat]]
      /\ GenSupply \in [Denoms -> Int] /\ GenValidator \in ValidatorParams
      /\ ValidValidatorParams(GenValidator) /\ 0 \in 0..(CountModulus - 1)
  BY ChainAssumption, BurnAssumption
<1>4. InitBurnGenesis(EmptyStore, GenBurn) = g1
  <2>1. EmptyStore.AccountBurnTotal = none /\ EmptyStore.GlobalBurnTotal = 0
    BY DEF EmptyStore
  <2>2. InitBurnGenesis(EmptyStore, GenBurn)
        = [EmptyStore EXCEPT !.FeeBurnPercent = GenBurn.FeeBurnPercent,
             !.GlobalBurnCount = GenBurn.Count,
             !.GlobalBurnTotal =
                IF GenBurn.Total = NilTotal THEN EmptyStore.GlobalBurnTotal ELSE GenBurn.Total,
             !.AccountBurnTotal =
                [a \in Accounts |->
                   IF \E i \in DOMAIN recs : recs[i].address = a
                   THEN recs[LastRecord(recs, a)].total
                   ELSE EmptyStore.AccountBurnTotal[a]]]
    BY DEF InitBurnGenesis
  <2>. HIDE DEF none, recs
  <2>. QED  BY <2>1, <2>2
<1>5. EmptyStore =
        [bal |-> GenBal, supply |-> GenSupply,
         FeeBurnPercent |-> 0, GlobalBurnCount |-> 0, GlobalBurnTotal |-> 0,
         AccountBurnTotal |-> none, ValidatorParams |-> GenValidator,
         validators |-> {}, selfBond |-> zero, minSelf |-> zero,
         owed |-> zero, minDue |-> zero,
         minted |-> 0, slashed |-> 0, earlyMint |-> 0, feesPaid |-> 0, burns |-> 0,
         gifts |-> noGifts]
  BY DEF EmptyStore
<1>. HIDE DEF none, zero, noGifts, m, t, recs
<1>6. EmptyStore \in Store /\ EmptyStore.validators = {}
  BY <1>3, <1>5 DEF Store
<1>7. g1 \in Store /\ g1.FeeBurnPercent = GenBurn.FeeBurnPercent /\ g1.validators = {}
  BY <1>1, <1>2, <1>6 DEF Store
<1>. HIDE DEF g1
<1>8. GenStore = [g1 EXCEPT !.ValidatorParams = GenValidator]
  BY <1>4 DEF GenStore, InitValidatorGenesis
<1>9. /\ GenStore \in Store /\ GenStore.FeeBurnPercent = GenBurn.FeeBurnPercent
      /\ GenStore.ValidatorParams = GenValidator /\ GenStore.validators = {}
  BY <1>3, <1>7, <1>8 DEF Store
<1>. QED  BY <1>1, <1>3, <1>9 DEF Good, Bonded

-----------------------------------------------------------------------------
(***************************************************************************)
(* The inductive invariant                                                 *)
(***************************************************************************)
IInv ==
  /\ Good(committed) /\ Good(deliver) /\ branch \in Store
  /\ Grows(GenStore, committed) /\ Grows(committed, deliver)
  /\ ~ failed => Good(branch) /\ Grows(committed, branch)
  /\ phase \notin {"tx", "gov"} => branch = deliver
  /\ height \in Nat /\ phase \in Phases \ {"halted"}
  /\ stage \in 0..Len(BeginBlockers)
  /\ failed \in BOOLEAN /\ txs \in Nat /\ msgs \in Nat /\ aborts \in Nat

LEMMA GrowsOn ==
  ASSUME NEW s1, NEW s2, NEW s3, Good(s1), Good(s2), Good(s3), Grows(s1, s2), Grows(s2, s3)
  PROVE  Grows(s1, s3)
BY GrowsTransitive DEF Good

LEMMA GrowsSame ==
  ASSUME NEW st, Good(st)
  PROVE  Grows(st, st)
BY GrowsReflexive DEF Good

LEMMA InitIInv == Init => IInv
<1>1. Good(GenStore) /\ Grows(GenStore, GenStore) /\ GenStore \in Store
  BY GenStoreGood, GrowsSame DEF Good
<1>2. 0 \in 0..Len(BeginBlockers)
  BY DEF BeginBlockers
<1>. HAVE Init
<1>3. /\ Good(committed) /\ Good(deliver) /\ branch \in Store
      /\ Grows(GenStore, committed) /\ Grows(committed, deliver)
      /\ Good(branch) /\ Grows(committed, branch) /\ branch = deliver
  BY <1>1 DEF Init
<1>4. /\ height \in Nat /\ phase \in Phases \ {"halted"}
      /\ stage \in 0..Len(BeginBlockers)
      /\ txs \in Nat /\ msgs \in Nat /\ aborts \in Nat
  BY <1>2 DEF Init, Phases
<1>5. failed \in BOOLEAN
  BY DEF Init
<1>. QED  BY <1>3, <1>4, <1>5 DEF IInv

\* The conjuncts that every step of a block except ExecMsg and DropBranch
\* leaves to be shown.
LEMMA BlockStep ==
  ASSUME IInv, failed' = failed, branch' = deliver', committed' = committed,
         Good(deliver'), Grows(deliver, deliver'),
         phase' \in Phases \ {"halted"}, stage' \in 0..Len(BeginBlockers),
         height' = height, aborts' = aborts, txs' \in Nat, msgs' \in Nat
  PROVE  IInv'
<1>1. Good(committed) /\ Good(deliver) /\ Grows(committed, deliver)
  BY DEF IInv
<1>2. Grows(committed, deliver')
  BY <1>1, GrowsOn
<1>3. deliver' \in Store
  BY DEF Good
<1>4. Good(committed') /\ Grows(GenStore, committed') /\ Grows(committed', deliver')
      /\ Good(branch') /\ Grows(committed', branch') /\ branch' \in Store
  BY <1>1, <1>2, <1>3 DEF IInv
<1>5. failed' \in BOOLEAN /\ height' \in Nat /\ aborts' \in Nat
  BY DEF IInv
<1>. QED  BY <1>4, <1>5 DEF IInv

LEMMA HookStep ==
  ASSUME IInv, phase = "begin", NextHook
  PROVE  phase' \in Phases \ {"halted"} /\ stage' \in 0..Len(BeginBlockers)
<1>1. Len(BeginBlockers) = 3
  BY DEF BeginBlockers
<1>. QED  BY <1>1 DEF IInv, NextHook, Phases

LEMMA NextIInv == IInv /\ [Next]_vars => IInv'
<1>. SUFFICES ASSUME IInv, [Next]_vars PROVE IInv'
  OBVIOUS
<1>0. /\ Good(committed) /\ Good(deliver) /\ Grows(committed, deliver)
      /\ Grows(GenStore, committed) /\ Grows(committed, committed)
      /\ Good(GenStore) /\ committed \in Store /\ deliver \in Store
      /\ txs \in Nat /\ msgs \in Nat /\ height \in Nat /\ aborts \in Nat
      /\ failed \in BOOLEAN
      /\ phase \in Phases \ {"halted"} /\ stage \in 0..Len(BeginBlockers)
  BY GrowsSame, GenStoreGood DEF IInv, Good
<1>1. ASSUME NEW m \in Msgs, GenTx(m) PROVE IInv'
  <2>. DEFINE r == Handle(deliver, m, 0)
  <2>1. r.ok /\ deliver' = r.st /\ m \in Message
    BY <1>1, ChainAssumption DEF GenTx
  <2>2. Good(r.st) /\ Grows(deliver, r.st)
    BY <1>0, <2>1, HandleEffect
  <2>. HIDE DEF r
  <2>. QED  BY <1>0, <1>1, <2>1, <2>2, BlockStep DEF GenTx
<1>2. CASE InitChain
  <2>1. branch = deliver /\ Grows(GenStore, deliver) /\ Grows(deliver, deliver)
    BY <1>0, <1>2, GrowsOn, GrowsSame DEF IInv, InitChain
  <2>. QED  BY <1>0, <1>2, <2>1 DEF InitChain, IInv, Phases
<1>3. CASE ExportImport
  <2>1. committed' = committed
    BY <1>0, <1>3, ImportUndoesExport DEF ExportImport
  <2>2. deliver' = committed /\ branch' = committed
    BY <1>3, <2>1 DEF ExportImport
  <2>. QED  BY <1>0, <1>3, <2>1, <2>2 DEF ExportImport, IInv
<1>4. CASE BeginBlock
  <2>1. 1 \in 0..Len(BeginBlockers)
    BY DEF BeginBlockers
  <2>. QED  BY <1>0, <1>4, <2>1 DEF BeginBlock, IInv, Phases
<1>5. CASE FeeBurn
  <2>. DEFINE r == ProcessFeeBurn(deliver)
  <2>1. r.ok /\ Good(r.st) /\ Grows(deliver, r.st)
    BY <1>0, ProcessFeeBurnEffect
  <2>. HIDE DEF r
  <2>2. phase = "begin" /\ NextHook /\ deliver' = r.st
    BY <1>5, <2>1 DEF FeeBurn, AtHook, r
  <2>. QED  BY <1>0, <1>5, <2>1, <2>2, HookStep, BlockStep DEF FeeBurn
<1>6. ASSUME NEW n \in Inflation, Mint(n) PROVE IInv'
  <2>1. n \in Nat
    BY ChainAssumption
  <2>2. Good(deliver') /\ Grows(deliver, deliver')
    BY <1>0, <1>6, <2>1, MintEffect DEF Mint
  <2>. QED  BY <1>0, <1>6, <2>2, HookStep, BlockStep DEF Mint, AtHook
<1>7. CASE Distribute
  <2>1. Good(deliver') /\ Grows(deliver, deliver')
    BY <1>0, <1>7, DistributeEffect, GrowsSame DEF Distribute
  <2>. QED  BY <1>0, <1>7, <2>1, HookStep, BlockStep DEF Distribute, AtHook
<1>8. ASSUME NEW u \in Users, NEW fee \in Fees, StartTx(u, fee) PROVE IInv'
  <2>1. fee \in Nat
    BY ChainAssumption
  <2>2. Good(deliver') /\ Grows(deliver, deliver')
    BY <1>0, <1>8, <2>1, FeeEffect DEF StartTx
  <2>3. phase' \in Phases \ {"halted"} /\ txs' \in Nat /\ msgs' \in Nat
    BY <1>0, <1>8 DEF StartTx, Phases
  <2>. QED  BY <1>0, <1>8, <2>2, <2>3, BlockStep DEF StartTx
<1>9. CASE StartProposal
  <2>1. phase' \in Phases \ {"halted"} /\ txs' \in Nat /\ msgs' \in Nat
    BY <1>0, <1>9 DEF StartProposal, Phases
  <2>2. Grows(deliver, deliver)
    BY <1>0, GrowsSame
  <2>. QED  BY <1>0, <1>9, <2>1, <2>2, BlockStep DEF StartProposal
<1>10. ASSUME NEW m \in Msgs, ExecMsg(m) PROVE IInv'
  <2>. DEFINE r == Handle(branch, m, height + 1)
  <2>1. /\ ~ failed /\ Good(branch) /\ Grows(committed, branch) /\ m \in Message
        /\ phase \in {"tx", "gov"}
    BY <1>10, ChainAssumption DEF ExecMsg, IInv
  <2>2. r.st \in Store /\ (r.ok => Good(r.st) /\ Grows(branch, r.st))
    BY <2>1, HandleEffect
  <2>3. branch' = r.st /\ (~ failed' => r.ok) /\ failed' \in BOOLEAN
    BY <1>10 DEF ExecMsg
  <2>. HIDE DEF r
  <2>4. ~ failed' => Good(branch') /\ Grows(committed, branch')
    BY <1>0, <2>1, <2>2, <2>3, GrowsOn
  <2>5. msgs' \in Nat
    BY <1>0, <1>10 DEF ExecMsg
  <2>. QED  BY <1>0, <1>10, <2>1, <2>2, <2>3, <2>4, <2>5 DEF ExecMsg, IInv
<1>11. CASE WriteBranch
  <2>1. Good(branch) /\ Grows(committed, branch) /\ branch \in Store
    BY <1>11 DEF WriteBranch, IInv
  <2>2. phase' \in Phases \ {"halted"} /\ msgs' \in Nat
    BY <1>11 DEF WriteBranch, AfterBranch, Phases
  <2>. QED  BY <1>0, <1>11, <2>1, <2>2 DEF WriteBranch, IInv
<1>12. CASE DropBranch
  <2>1. phase' \in Phases \ {"halted"} /\ msgs' \in Nat
    BY <1>12 DEF DropBranch, AfterBranch, Phases
  <2>2. failed' \in BOOLEAN
    BY <1>12 DEF DropBranch
  <2>. QED  BY <1>0, <1>12, <2>1, <2>2 DEF DropBranch, IInv
<1>13. CASE EndBlock
  BY <1>0, <1>13 DEF EndBlock, IInv, Phases
<1>14. ASSUME NEW v \in Operators, NEW lost \in Slashes, RemoveValidator(v, lost)
       PROVE  IInv'
  <2>. DEFINE back == deliver.selfBond[v] - lost
              burnt == BurnCoins(deliver, StakingPool, Native(lost))
              ret == SendCoins(burnt.st, StakingPool, v, Native(back))
  <2>1. lost \in Nat /\ back \in Int
    <3>1. lost \in Nat
      BY ChainAssumption
    <3>2. deliver.selfBond \in [Operators -> Int]
      BY <1>0 DEF Store
    <3>. QED  BY <3>1, <3>2
  <2>2. /\ burnt.ok /\ ret.ok
        /\ deliver' = [ret.st EXCEPT !.slashed = @ + lost, !.validators = @ \ {v}]
    BY <1>14 DEF RemoveValidator
  <2>3. Good(deliver') /\ Grows(deliver, deliver')
    <3>. HIDE DEF back
    <3>. QED  BY <1>0, <2>1, <2>2, RemoveValidatorEffect
  <2>. QED  BY <1>0, <1>14, <2>3, BlockStep DEF RemoveValidator
<1>15. CASE Commit
  <2>1. branch = deliver /\ Grows(GenStore, deliver) /\ Grows(deliver, deliver)
    BY <1>0, <1>15, GrowsOn, GrowsSame DEF IInv, Commit
  <2>2. height' \in Nat /\ txs' \in Nat /\ phase' \in Phases \ {"halted"}
    BY <1>0, <1>15 DEF Commit, Phases
  <2>. QED  BY <1>0, <1>15, <2>1, <2>2 DEF Commit, IInv
<1>16. CASE Abort
  <2>1. /\ aborts' \in Nat /\ txs' \in Nat /\ msgs' \in Nat
        /\ stage' \in 0..Len(BeginBlockers) /\ phase' \in Phases \ {"halted"}
    <3>1. Len(BeginBlockers) = 3
      BY DEF BeginBlockers
    <3>. QED  BY <1>0, <1>16, <3>1 DEF Abort, Phases
  <2>2. failed' \in BOOLEAN
    BY <1>16 DEF Abort
  <2>. QED  BY <1>0, <1>16, <2>1, <2>2 DEF Abort, IInv
<1>17. CASE UNCHANGED vars
  BY <1>17 DEF vars, IInv
<1>. QED
  BY <1>1, <1>2, <1>3, <1>4, <1>5, <1>6, <1>7, <1>8, <1>9, <1>10, <1>11, <1>12, <1>13,
     <1>14, <1>15, <1>16, <1>17 DEF Next, Progress

-----------------------------------------------------------------------------
(***************************************************************************)
(* What follows from the invariant, for every genesis, message set and     *)
(* bound that ChainAssumption admits.                                      *)
(***************************************************************************)
LEMMA SpecIInv == Spec => []IInv
BY InitIInv, NextIInv, PTL DEF Spec

LEMMA LiveStoresGood ==
  ASSUME IInv, NEW st \in LiveStores
  PROVE  Good(st) /\ Grows(GenStore, st)
<1>1. Good(GenStore) /\ Good(committed) /\ Good(deliver)
      /\ Grows(GenStore, committed) /\ Grows(committed, deliver)
      /\ (~ failed => Good(branch) /\ Grows(committed, branch))
  BY GenStoreGood DEF IInv
<1>2. \/ st = committed
      \/ st = deliver
      \/ ~ failed /\ st = branch
  BY DEF LiveStores
<1>. QED  BY <1>1, <1>2, GrowsOn

LEMMA GenStoreFields ==
  /\ GenStore.supply = GenSupply /\ GenStore.bal = GenBal
  /\ GenStore.minted = 0 /\ GenStore.slashed = 0
  /\ GenStore.gifts = [d \in Denoms |-> 0] /\ GenStore.owed = [v \in Operators |-> 0]
  /\ GenStore \in Store
<1> DEFINE g1 == InitBurnGenesis(EmptyStore, GenBurn)
<1>1. /\ g1.supply = GenSupply /\ g1.bal = GenBal /\ g1.minted = 0 /\ g1.slashed = 0
      /\ g1.gifts = [d \in Denoms |-> 0] /\ g1.owed = [v \in Operators |-> 0]
  BY DEF InitBurnGenesis, EmptyStore
<1>. HIDE DEF g1
<1>2. GenStore = [g1 EXCEPT !.ValidatorParams = GenValidator]
  BY DEF GenStore, InitValidatorGenesis, g1
<1>. QED  BY <1>1, <1>2, GenStoreGood DEF Good

\* TypeOK: every store the chain keeps is well formed at every step, so no
\* burn, fee, registration or sweep ever drives a balance below zero.
THEOREM TypeCorrect == Spec => []TypeOK
<1>1. IInv => TypeOK
  BY DEF IInv, TypeOK, Good
<1>. QED  BY <1>1, SpecIInv, PTL

\* ProcessFeeBurn cannot fail as long as the percentage is valid, and nothing
\* ever stores an invalid one: BeginBlock never halts the chain.
THEOREM NeverHalts == Spec => []NoHalt
<1>1. IInv => NoHalt
  BY DEF IInv, NoHalt
<1>. QED  BY <1>1, SpecIInv, PTL

\* Supply and trackers agree in every store that anybody may still read.
THEOREM SupplyIsAccounted == Spec => []SupplyAccounted
<1>1. IInv => SupplyAccounted
  <2>. SUFFICES ASSUME IInv, NEW st \in LiveStores, NEW d \in Denoms
                PROVE  st.supply[d] =
                         GenSupply[d] + (IF d = BondDenom
                                         THEN st.minted - st.slashed - BurnedSinceGenesis(st)
                                         ELSE 0)
    BY DEF SupplyAccounted
  <2>1. st \in Store /\ Grows(GenStore, st)
    BY LiveStoresGood DEF Good
  <2>2. st.supply[d] = GenStore.supply[d]
         + (IF d = BondDenom
            THEN (st.minted - GenStore.minted) - (st.slashed - GenStore.slashed)
                 - (st.GlobalBurnTotal - GenStore.GlobalBurnTotal)
            ELSE 0)
    BY <2>1 DEF Grows
  <2>3. /\ st.minted \in Int /\ st.slashed \in Int /\ st.GlobalBurnTotal \in Int
        /\ GenStore.GlobalBurnTotal \in Int /\ GenSupply[d] \in Int
    BY <2>1, GenStoreFields, StoreFields
  <2>4. BurnedSinceGenesis(st) = st.GlobalBurnTotal - GenStore.GlobalBurnTotal
    BY DEF BurnedSinceGenesis, GetGlobalBurnTotal
  <2>. QED  BY <2>2, <2>3, <2>4, GenStoreFields
<1>. QED  BY <1>1, SpecIInv, PTL

\* The burn account never keeps anything but gifts.
THEOREM BurnAccountClean == Spec => []BurnAccountHoldsOnlyGifts
<1>1. IInv => BurnAccountHoldsOnlyGifts
  <2>. SUFFICES ASSUME IInv, NEW st \in LiveStores, NEW d \in Denoms
                PROVE  st.bal[BurnModule][d] = GenBal[BurnModule][d] + st.gifts[d]
    BY DEF BurnAccountHoldsOnlyGifts
  <2>1. st \in Store /\ Grows(GenStore, st)
    BY LiveStoresGood DEF Good
  <2>2. st.bal[BurnModule][d] - st.gifts[d]
          = GenStore.bal[BurnModule][d] - GenStore.gifts[d]
    BY <2>1 DEF Grows
  <2>3. /\ st.bal[BurnModule][d] \in Nat /\ st.gifts[d] \in Int
        /\ GenStore.bal[BurnModule][d] = GenBal[BurnModule][d]
        /\ GenBal[BurnModule][d] \in Nat /\ GenStore.gifts[d] = 0
    BY <2>1, GenStoreFields, StoreFields, AccountNames DEF ModuleAccounts
  <2>. QED  BY <2>2, <2>3
<1>. QED  BY <1>1, SpecIInv, PTL

\* No path to a validator avoids the registration burn.
THEOREM RegistrationsArePaid == Spec => []RegistrationPaid
<1>1. IInv => RegistrationPaid
  <2>. SUFFICES ASSUME IInv, NEW st \in LiveStores, NEW v \in Operators
                PROVE  BurnedBy(st, v) >= st.owed[v]
    BY DEF RegistrationPaid
  <2>1. st \in Store /\ Grows(GenStore, st)
    BY LiveStoresGood DEF Good
  <2>2. st.owed[v] - GenStore.owed[v] <= BurnedBy(st, v)
    BY <2>1 DEF Grows, BurnedBy
  <2>3. GenStore.owed[v] = 0 /\ st.owed[v] \in Int
    BY <2>1, GenStoreFields, StoreFields
  <2>. QED  BY <2>2, <2>3
<1>. QED  BY <1>1, SpecIInv, PTL

\* Every validator is bound to the minimum in force when it registered.
THEOREM SelfBondsHonoured == Spec => []SelfBondHonoured
<1>1. IInv => SelfBondHonoured
  BY LiveStoresGood DEF SelfBondHonoured, Good, Bonded
<1>. QED  BY <1>1, SpecIInv, PTL

\* An export and import between two blocks is invisible to the queries.
THEOREM ImportsPreserveQueries == Spec => ImportPreservesQueries
<1>1. IInv /\ [Next]_vars =>
        [phase = "idle" =>
          /\ BurnStats(committed') = BurnStats(committed)
          /\ \A a \in Accounts : AccountBurns(committed', a) = AccountBurns(committed, a)
          /\ committed'.FeeBurnPercent = committed.FeeBurnPercent
          /\ committed'.ValidatorParams = committed.ValidatorParams]_vars
  <2>. SUFFICES ASSUME IInv, Next, phase = "idle" PROVE committed' = committed
    OBVIOUS
  <2>1. CASE ExportImport
    BY <2>1, ImportUndoesExport DEF ExportImport, IInv
  <2>2. CASE ~ ExportImport
    BY <2>2 DEF Next, Progress, InitChain, BeginBlock, FeeBurn, Mint, Distribute, AtHook,
                WriteBranch, DropBranch, EndBlock, Commit, Abort, StartProposal, GenTx,
                ExecMsg, StartTx, RemoveValidator
  <2>. QED  BY <2>1, <2>2
<1>. QED  BY <1>1, SpecIInv, PTL DEF Spec, ImportPreservesQueries

\* The chain implements BurnLedger.
THEOREM ImplementsBurnLedger == Spec => LedgerSpec
<1>1. Init => Ledger!Init
  BY DEF Init, Ledger!Init
<1>2. IInv /\ [Next]_vars => Grows(committed, committed') \/ committed' = committed
  <2>. SUFFICES ASSUME IInv, Next PROVE Grows(committed, committed') \/ committed' = committed
    BY DEF vars
  <2>1. CASE ExportImport
    BY <2>1, ImportUndoesExport DEF ExportImport, IInv
  <2>2. CASE InitChain \/ Commit
    BY <2>2 DEF InitChain, Commit, IInv
  <2>3. CASE ~ ExportImport /\ ~ InitChain /\ ~ Commit
    BY <2>3 DEF Next, Progress, BeginBlock, FeeBurn, Mint, Distribute,
                WriteBranch, DropBranch, EndBlock, Abort, StartProposal, GenTx,
                ExecMsg, StartTx, RemoveValidator
  <2>. QED  BY <2>1, <2>2, <2>3
<1>3. ASSUME NEW st \in Store, NEW new \in Store, Grows(st, new)
      PROVE  Ledger!Extends(LedgerOf(st), LedgerOf(new))
  <2>. DEFINE o == LedgerOf(st)
              n == LedgerOf(new)
  <2>1. /\ o.supply = st.supply /\ o.burned = st.GlobalBurnTotal
        /\ o.count = st.GlobalBurnCount /\ o.issued = st.minted
        /\ o.slashed = st.slashed /\ o.due = st.owed
        /\ \A a \in Accounts : o.burnedBy[a] = GetAccountBurnTotal(st, a)
    BY DEF LedgerOf, GetGlobalBurnTotal
  <2>2. /\ n.supply = new.supply /\ n.burned = new.GlobalBurnTotal
        /\ n.count = new.GlobalBurnCount /\ n.issued = new.minted
        /\ n.slashed = new.slashed /\ n.due = new.owed
        /\ \A a \in Accounts : n.burnedBy[a] = GetAccountBurnTotal(new, a)
    BY DEF LedgerOf, GetGlobalBurnTotal
  <2>. HIDE DEF o, n
  <2>3. /\ n.burned - o.burned >= 0 /\ n.issued - o.issued >= 0
        /\ n.slashed - o.slashed >= 0
        /\ n.count # o.count => n.burned - o.burned > 0
    BY <1>3, <2>1, <2>2, StoreFields DEF Grows
  <2>4. n.supply[BondDenom] = o.supply[BondDenom] + (n.issued - o.issued)
                                - (n.slashed - o.slashed) - (n.burned - o.burned)
    <3>1. /\ st.supply[BondDenom] \in Int /\ st.GlobalBurnTotal \in Int
          /\ new.GlobalBurnTotal \in Int /\ st.minted \in Int /\ new.minted \in Int
          /\ st.slashed \in Int /\ new.slashed \in Int
      BY StoreFields, AccountNames
    <3>2. new.supply[BondDenom] = st.supply[BondDenom]
            + ((new.minted - st.minted) - (new.slashed - st.slashed)
                 - (new.GlobalBurnTotal - st.GlobalBurnTotal))
      BY <1>3, AccountNames DEF Grows
    <3>. QED  BY <2>1, <2>2, <3>1, <3>2
  <2>5. \A d \in Denoms \ {BondDenom} : n.supply[d] = o.supply[d]
    BY <1>3, <2>1, <2>2, StoreFields DEF Grows
  <2>6. \A a \in Accounts : n.burnedBy[a] - o.burnedBy[a] \in 0..(n.burned - o.burned)
    BY <1>3, <2>1, <2>2, StoreFields DEF Grows
  <2>7. \A v \in Operators : n.due[v] - o.due[v] \in 0..(n.burnedBy[v] - o.burnedBy[v])
    BY <1>3, <2>1, <2>2, StoreFields, AccountNames DEF Grows
  <2>8. Ledger!Extends(o, n)
    BY <2>3, <2>4, <2>5, <2>6, <2>7 DEF Ledger!Extends
  <2>. QED  BY <2>8 DEF o, n
<1>4. IInv /\ IInv' /\ [Next]_vars => [Ledger!Block]_(LedgerOf(committed))
  <2>. SUFFICES ASSUME IInv, IInv', [Next]_vars
                PROVE  [Ledger!Block]_(LedgerOf(committed))
    OBVIOUS
  <2>1. committed \in Store /\ committed' \in Store
    BY DEF IInv, Good
  <2>2. CASE committed' = committed
    BY <2>2 DEF LedgerOf, GetGlobalBurnTotal, GetAccountBurnTotal
  <2>3. CASE Grows(committed, committed')
    <3>1. Ledger!Extends(LedgerOf(committed), LedgerOf(committed'))
      BY <1>3, <2>1, <2>3
    <3>. QED  BY <3>1 DEF Ledger!Block
  <2>. QED  BY <1>2, <2>2, <2>3
<1>. QED  BY <1>1, <1>4, SpecIInv, PTL DEF Spec, LedgerSpec, Ledger!Spec
\* Meeting the parameters exactly is enough to register, whatever happened to
\* the chain before: no state of the bank, the trackers or the burn account
\* keeps an operator with the coins from becoming a validator.
THEOREM FundedOperatorsCanRegister == Spec => []FundedOperatorCanRegister
<1>1. ASSUME Good(committed), NEW v \in Users \ committed.validators,
             committed.ValidatorParams.RegistrationBurn.denom = BondDenom,
             committed.ValidatorParams.MinSelfDelegation.denom = BondDenom,
             CanAfford(committed, v)
      PROVE  Handle(committed, ExactRegistration(committed, v, BondDenom), height + 1).ok
  <2>. DEFINE fee == committed.ValidatorParams.RegistrationBurn
              min == committed.ValidatorParams.MinSelfDelegation.amount
              bond == IF min > 0 THEN min ELSE 1
              value == [denom |-> BondDenom, amount |-> bond]
              m == ExactRegistration(committed, v, BondDenom)
              b == BurnFromAccount(committed, v, fee)
              paid == SendCoins(b.st, v, StakingPool, value)
              have == committed.bal[v][BondDenom]
  <2>1. /\ committed \in Store /\ v \in Accounts /\ v # BurnModule
        /\ v \in Operators /\ BondDenom \in Denoms
    BY <1>1, AccountNames DEF Good
  <2>2. /\ fee \in Coin /\ fee.amount \in Nat /\ min \in Nat /\ have \in Nat
        /\ fee.denom = BondDenom
    BY <1>1, <2>1, StoreFields
       DEF Good, ValidValidatorParams, ValidParamCoin, ValidatorParams, Coin
  <2>3. have >= 1 + fee.amount + min
    BY <1>1 DEF CanAfford
  <2>4. m = [type |-> "register", signer |-> v, operator |-> v, burn |-> fee,
             value |-> value, minSelf |-> bond]
    BY DEF ExactRegistration
  <2>. HIDE DEF m, have
  <2>5. b.ok /\ Burned(committed, b.st, v, fee.amount)
    <3>1. fee.amount <= have
      BY <2>2, <2>3
    <3>2. b.ok
      BY <2>1, <2>2, <3>1, BurnSucceeds DEF have
    <3>. QED  BY <2>1, <2>2, <3>2, BurnFromAccountOk
  <2>6. b.st.bal[v][BondDenom] = have - fee.amount
    BY <2>1, <2>5 DEF Burned, have
  <2>7. b.st.validators = committed.validators
    <3>. DEFINE u == b.st
    <3>1. u = [committed EXCEPT !.bal = u.bal, !.supply = u.supply, !.burns = u.burns,
                      !.GlobalBurnCount = u.GlobalBurnCount,
                      !.GlobalBurnTotal = u.GlobalBurnTotal,
                      !.AccountBurnTotal = u.AccountBurnTotal]
      BY <2>5 DEF Burned
    <3>. HIDE DEF u
    <3>2. u.validators = committed.validators
      BY <2>1, <3>1 DEF Store
    <3>. QED  BY <3>2 DEF u
  <2>8. bond \in Nat /\ bond > 0 /\ bond >= min /\ bond <= have - fee.amount
    BY <2>2, <2>3
  <2>. HIDE DEF b, fee, min, bond
  <2>9. paid.ok
    BY <2>6, <2>8 DEF SendCoins, CanPay, Ok
  <2>10. CreateValidator(b.st, m, height + 1).ok
    <3>1. /\ m.operator \notin b.st.validators /\ m.value.denom = BondDenom
          /\ m.minSelf > 0 /\ m.value.amount >= m.minSelf
          /\ SendCoins(b.st, m.operator, StakingPool, m.value).ok
      BY <1>1, <2>4, <2>7, <2>8, <2>9
    <3>. QED  BY <3>1 DEF CreateValidator, Ok
  <2>11. resolveSender(m) /\ validateRegistrationFunds(m, committed.ValidatorParams)
    BY <1>1, <2>2, <2>4, <2>8
       DEF resolveSender, validateRegistrationFunds, fee, min
  <2>12. Handle(committed, m, height + 1) = CreateValidator(b.st, m, height + 1)
    BY <2>4, <2>5, <2>11 DEF Handle, IsAllowed, RegisterValidator, b
  <2>. QED  BY <2>10, <2>12 DEF m
<1>2. IInv => FundedOperatorCanRegister
  BY <1>1 DEF IInv, FundedOperatorCanRegister
<1>. QED  BY <1>2, SpecIInv, PTL

(* What flows through the fee collector, how burns are counted, and who    *)
(* changes the parameters.                                                 *)
(*                                                                         *)
(* Held(st) is what the collector holds and what it has burned, less what  *)
(* was paid into it as fees or by the inflation of block 1.  No message    *)
(* and no hook changes it, except that later inflation raises it for one   *)
(* step, until x/distribution sweeps the collector.  Counts(st, new) says  *)
(* that the burn counter moved by the number of burns between two stores,  *)
(* wrapping around any number of times, and the account totals by as much  *)
(* as the global one.  Both are carried by the inductive invariant CInv,   *)
(* beside IInv.                                                            *)
(***************************************************************************)

Paid(st) == st.feesPaid + st.earlyMint

Held(st) ==
  st.bal[FeeCollector][BondDenom] + GetAccountBurnTotal(st, FeeCollector) - Paid(st)

CountMoves(st, new) ==
  \E q \in Nat :
    st.GlobalBurnCount + (new.burns - st.burns) = new.GlobalBurnCount + q * CountModulus

\* What the account totals are off the global one: what genesis brought.
Gap(st) == SumOfAccounts(st) - st.GlobalBurnTotal

Counts(st, new) == CountMoves(st, new) /\ Gap(new) = Gap(st)

SameParams(st, new) ==
  /\ new.FeeBurnPercent = st.FeeBurnPercent
  /\ new.ValidatorParams = st.ValidatorParams

LEMMA MoreFields ==
  ASSUME NEW st \in Store
  PROVE  /\ st.feesPaid \in Int /\ st.earlyMint \in Int
         /\ st.bal[FeeCollector][BondDenom] \in Nat
         /\ GetAccountBurnTotal(st, FeeCollector) \in Nat
         /\ st.GlobalBurnCount \in 0..(CountModulus - 1)
         /\ st.GlobalBurnCount \in Int /\ st.burns \in Nat
         /\ FeeCollector \in Accounts /\ BondDenom \in Denoms
         /\ Held(st) \in Int /\ Paid(st) \in Int
<1>1. FeeCollector \in Accounts /\ BondDenom \in Denoms
  BY AccountNames DEF ModuleAccounts
<1>2. /\ st.feesPaid \in Int /\ st.earlyMint \in Int
      /\ st.bal[FeeCollector][BondDenom] \in Nat
      /\ st.GlobalBurnCount \in 0..(CountModulus - 1)
      /\ st.GlobalBurnCount \in Int /\ st.burns \in Nat
  BY <1>1, BurnAssumption DEF Store
<1>3. GetAccountBurnTotal(st, FeeCollector) \in Nat
  BY <1>1, StoreFields
<1>. QED  BY <1>1, <1>2, <1>3 DEF Held, Paid

(***************************************************************************)
(* Counting burns modulo the width of the counter.                         *)
(***************************************************************************)
LEMMA CountMovesSame ==
  ASSUME NEW st \in Store, NEW new, new.GlobalBurnCount = st.GlobalBurnCount,
         new.burns = st.burns
  PROVE  CountMoves(st, new)
<1>1. st.burns \in Nat /\ st.GlobalBurnCount \in Int
  BY MoreFields
<1>2. st.GlobalBurnCount + (new.burns - st.burns)
        = new.GlobalBurnCount + 0 * CountModulus
  BY <1>1, BurnAssumption
<1>. QED  BY <1>2 DEF CountMoves

LEMMA CountMovesTransitive ==
  ASSUME NEW s1 \in Store, NEW s2 \in Store, NEW s3 \in Store,
         CountMoves(s1, s2), CountMoves(s2, s3)
  PROVE  CountMoves(s1, s3)
<1>1. PICK q1 \in Nat :
        s1.GlobalBurnCount + (s2.burns - s1.burns) = s2.GlobalBurnCount + q1 * CountModulus
  BY DEF CountMoves
<1>2. PICK q2 \in Nat :
        s2.GlobalBurnCount + (s3.burns - s2.burns) = s3.GlobalBurnCount + q2 * CountModulus
  BY DEF CountMoves
<1>3. /\ s1.GlobalBurnCount \in Int /\ s2.GlobalBurnCount \in Int
      /\ s3.GlobalBurnCount \in Int
      /\ s1.burns \in Nat /\ s2.burns \in Nat /\ s3.burns \in Nat
  BY MoreFields
<1> DEFINE x1 == q1 * CountModulus
           x2 == q2 * CountModulus
           q == q1 + q2
           x == q * CountModulus
<1>4. x1 \in Int /\ x2 \in Int /\ x = x1 + x2 /\ q \in Nat
  BY BurnAssumption
<1>5. /\ s1.GlobalBurnCount + (s2.burns - s1.burns) = s2.GlobalBurnCount + x1
      /\ s2.GlobalBurnCount + (s3.burns - s2.burns) = s3.GlobalBurnCount + x2
  BY <1>1, <1>2
<1>. HIDE DEF x1, x2, x, q
<1>6. s1.GlobalBurnCount + (s3.burns - s1.burns) = s3.GlobalBurnCount + x
  BY <1>3, <1>4, <1>5
<1>. QED  BY <1>4, <1>6 DEF CountMoves, x

\* A remainder is determined by the number it is the remainder of.
LEMMA RemainderUnique ==
  ASSUME NEW m \in Nat \ {0}, NEW c \in 0..(m - 1), NEW q \in Nat, NEW x \in Nat,
         x = c + q * m
  PROVE  x % m = c
<1> DEFINE p == x \div m
           r == x % m
<1>1. p \in Int /\ r \in 0..(m - 1) /\ x = m * p + r
  OBVIOUS
<1>. HIDE DEF p, r
<1>2. ~ (p > q)
  <2>. SUFFICES ASSUME p > q PROVE FALSE
    OBVIOUS
  <2>1. \E k \in Nat : p = q + 1 + k
    <3>1. p - q - 1 \in Nat /\ p = q + 1 + (p - q - 1)
      BY <1>1
    <3>. QED  BY <3>1
  <2>2. PICK k \in Nat : p = q + 1 + k
    BY <2>1
  <2>3. m * p = q * m + m + m * k /\ m * k \in Nat /\ q * m \in Nat
    BY <2>2
  <2>4. c = m + m * k + r
    BY <1>1, <2>3
  <2>. QED  BY <1>1, <2>3, <2>4
<1>3. ~ (p < q)
  <2>. SUFFICES ASSUME p < q PROVE FALSE
    OBVIOUS
  <2>1. \E k \in Nat : q = p + 1 + k
    <3>1. q - p - 1 \in Nat /\ q = p + 1 + (q - p - 1)
      BY <1>1
    <3>. QED  BY <3>1
  <2>2. PICK k \in Nat : q = p + 1 + k
    BY <2>1
  <2>3. q * m = m * p + m + m * k /\ m * k \in Nat /\ m * p \in Int
    BY <1>1, <2>2
  <2>4. r = c + m + m * k
    BY <1>1, <2>3
  <2>. QED  BY <1>1, <2>3, <2>4
<1>4. p = q
  BY <1>1, <1>2, <1>3
<1>5. m * p = q * m /\ q * m \in Nat
  BY <1>4
<1>6. r = c
  BY <1>1, <1>5
<1>. QED  BY <1>6 DEF r
-----------------------------------------------------------------------------
(***************************************************************************)
(* The sum of the account totals.                                          *)
(***************************************************************************)
Totals(st) == [a \in Accounts |-> GetAccountBurnTotal(st, a)]

LEMMA SumOfAccountsType ==
  ASSUME NEW st \in Store
  PROVE  /\ Totals(st) \in [Accounts -> Int] /\ SumOfAccounts(st) = SumFunction(Totals(st))
         /\ SumOfAccounts(st) \in Int /\ Gap(st) \in Int
<1>1. Totals(st) \in [Accounts -> Int]
  BY StoreFields DEF Totals
<1>2. SumOfAccounts(st) = SumFunction(Totals(st))
  BY DEF SumOfAccounts, Totals
<1>3. SumFunction(Totals(st)) \in Int
  <2>. DEFINE f == Totals(st)
  <2>1. f \in [Accounts -> Int] /\ FeeCollector \in Accounts /\ IsFiniteSet(Accounts)
    BY <1>1, MoreFields, AccountsFinite
  <2>. HIDE DEF f
  <2>2. SumFunction(f) \in Int
    BY <2>1, SumFunctionMoves, 0 \in Int
  <2>. QED  BY <2>2 DEF f
<1>. QED  BY <1>1, <1>2, <1>3, StoreFields DEF Gap

LEMMA SumOfAccountsSame ==
  ASSUME NEW st, NEW new, new.AccountBurnTotal = st.AccountBurnTotal
  PROVE  SumOfAccounts(new) = SumOfAccounts(st)
<1>1. \A a \in Accounts : GetAccountBurnTotal(new, a) = GetAccountBurnTotal(st, a)
  BY DEF GetAccountBurnTotal
<1>2. Totals(new) = Totals(st)
  BY <1>1 DEF Totals
<1>. QED  BY <1>2 DEF SumOfAccounts, Totals

\* A burn is booked on one account, with the amount of the global total.
LEMMA BurnedGap ==
  ASSUME NEW st \in Store, NEW new, NEW a \in Accounts, NEW n \in Nat,
         Burned(st, new, a, n)
  PROVE  Gap(new) = Gap(st)
<1> DEFINE f == Totals(st)
           g == Totals(new)
<1>1. /\ new \in Store /\ st.GlobalBurnTotal \in Nat
      /\ new.GlobalBurnTotal = st.GlobalBurnTotal + n
      /\ \A x \in Accounts : g[x] = f[x] + (IF x = a THEN n ELSE 0)
  BY StoreFields DEF Burned, Totals
<1>2. f \in [Accounts -> Int] /\ g \in [Accounts -> Int]
  BY <1>1, SumOfAccountsType
<1>3. SumOfAccounts(st) = SumFunction(f) /\ SumOfAccounts(new) = SumFunction(g)
  BY DEF SumOfAccounts, Totals
<1>. HIDE DEF f, g
<1>4. g = [f EXCEPT ![a] = f[a] + n]
  BY <1>1, <1>2
<1>5. f[a] \in Int /\ f[a] + n \in Int
  BY <1>2
<1>6. /\ SumFunction(f) \in Int
      /\ SumFunction([f EXCEPT ![a] = f[a] + n]) = SumFunction(f) + ((f[a] + n) - f[a])
  BY <1>2, <1>5, AccountsFinite, SumFunctionMoves
<1>7. SumFunction(g) = SumFunction(f) + n
  BY <1>4, <1>5, <1>6
<1>. QED  BY <1>1, <1>3, <1>6, <1>7 DEF Gap

\* The trackers of two stores are the same.
SameTrackers(st, new) ==
  /\ new.GlobalBurnTotal = st.GlobalBurnTotal
  /\ new.GlobalBurnCount = st.GlobalBurnCount /\ new.burns = st.burns
  /\ new.AccountBurnTotal = st.AccountBurnTotal

LEMMA CountsSame ==
  ASSUME NEW st \in Store, NEW new, SameTrackers(st, new)
  PROVE  Counts(st, new)
<1>1. CountMoves(st, new)
  BY CountMovesSame DEF SameTrackers
<1>2. SumOfAccounts(new) = SumOfAccounts(st)
  BY SumOfAccountsSame DEF SameTrackers
<1>. QED  BY <1>1, <1>2 DEF Counts, Gap, SameTrackers

LEMMA CountsOnTo ==
  ASSUME NEW st, NEW u, NEW new, Counts(st, u), SameTrackers(u, new)
  PROVE  Counts(st, new)
<1>1. CountMoves(st, new)
  BY DEF Counts, CountMoves, SameTrackers
<1>2. SumOfAccounts(new) = SumOfAccounts(u)
  BY SumOfAccountsSame DEF SameTrackers
<1>. QED  BY <1>1, <1>2 DEF Counts, Gap, SameTrackers

LEMMA CountsTransitive ==
  ASSUME NEW s1 \in Store, NEW s2 \in Store, NEW s3 \in Store,
         Counts(s1, s2), Counts(s2, s3)
  PROVE  Counts(s1, s3)
BY CountMovesTransitive DEF Counts
-----------------------------------------------------------------------------
(***************************************************************************)
(* What the operations do to the collector, the counter and the parameters *)
(***************************************************************************)
Moves(st, new) == Counts(st, new) /\ Held(new) = Held(st)

LEMMA MovesOn ==
  ASSUME NEW s1 \in Store, NEW s2 \in Store, NEW s3 \in Store,
         Moves(s1, s2), Moves(s2, s3)
  PROVE  Moves(s1, s3)
BY CountsTransitive DEF Moves

\* An operation that touches neither the trackers nor the collector.
LEMMA MovesElsewhere ==
  ASSUME NEW st \in Store, NEW new,
         new.GlobalBurnTotal = st.GlobalBurnTotal,
         new.GlobalBurnCount = st.GlobalBurnCount, new.burns = st.burns,
         new.AccountBurnTotal = st.AccountBurnTotal,
         new.feesPaid = st.feesPaid, new.earlyMint = st.earlyMint,
         new.bal[FeeCollector][BondDenom] = st.bal[FeeCollector][BondDenom]
  PROVE  Moves(st, new)
BY CountsSame DEF SameTrackers, Moves, Held, Paid, GetAccountBurnTotal

\* A burn is counted once if it destroys anything, and what is burned from
\* the collector leaves it.
LEMMA BurnedMoves ==
  ASSUME NEW st \in Store, NEW new, NEW a \in Accounts, NEW n \in Nat,
         Burned(st, new, a, n)
  PROVE  Moves(st, new) /\ SameParams(st, new) /\ Paid(new) = Paid(st)
<1> DEFINE M == CountModulus
           c == st.GlobalBurnCount
           B(s) == s.bal[FeeCollector][BondDenom]
           T(s) == GetAccountBurnTotal(s, FeeCollector)
<1>1. /\ new.feesPaid = st.feesPaid /\ new.earlyMint = st.earlyMint
      /\ new.FeeBurnPercent = st.FeeBurnPercent
      /\ new.ValidatorParams = st.ValidatorParams
  BY DEF Burned, Store
<1>2. new \in Store
  BY DEF Burned
<1>3. CountMoves(st, new)
  <2>1. /\ M \in Nat \ {0} /\ c \in 0..(M - 1)
        /\ st.burns \in Nat /\ new.burns = st.burns + (IF n > 0 THEN 1 ELSE 0)
        /\ new.GlobalBurnCount = IF n > 0 THEN (c + 1) % M ELSE c
    BY BurnAssumption, MoreFields, StoreFields DEF Burned
  <2>2. CASE n = 0
    BY <2>1, <2>2, CountMovesSame
  <2>3. CASE n > 0 /\ c + 1 < M
    <3>1. c + 1 \in 0..(M - 1) /\ c + 1 \in Nat /\ c + 1 = (c + 1) + 0 * M
      BY <2>1, <2>3
    <3>2. (c + 1) % M = c + 1
      BY <2>1, <3>1, RemainderUnique
    <3>3. /\ new.burns - st.burns = 1
          /\ c + 1 = new.GlobalBurnCount + 0 * M
      BY <2>1, <2>3, <3>1, <3>2
    <3>. QED  BY <3>3 DEF CountMoves
  <2>4. CASE n > 0 /\ c + 1 = M
    <3>1. 0 \in 0..(M - 1) /\ c + 1 \in Nat /\ c + 1 = 0 + 1 * M
      BY <2>1, <2>4
    <3>2. (c + 1) % M = 0
      BY <2>1, <3>1, RemainderUnique
    <3>. HIDE DEF M, c
    <3>3. new.GlobalBurnCount = 0 /\ 1 * M = c + 1 /\ c + 1 \in Nat
      BY <2>1, <2>4, <3>1, <3>2
    <3>4. /\ new.burns - st.burns = 1
          /\ c + 1 = new.GlobalBurnCount + 1 * M
      BY <2>1, <2>4, <3>3
    <3>. QED  BY <3>4 DEF CountMoves, c, M
  <2>. QED  BY <2>1, <2>2, <2>3, <2>4
<1>4. Paid(new) = Paid(st)
  BY <1>1 DEF Paid
<1>5. Held(new) = Held(st)
  <2>1. /\ B(st) \in Nat /\ T(st) \in Nat /\ FeeCollector \in Accounts
        /\ BondDenom \in Denoms /\ Paid(st) \in Int
    BY MoreFields
  <2>2. /\ B(new) = B(st) - (IF FeeCollector = a THEN n ELSE 0)
        /\ T(new) = T(st) + (IF FeeCollector = a THEN n ELSE 0)
    BY <2>1 DEF Burned
  <2>. QED  BY <1>4, <2>1, <2>2 DEF Held
<1>6. Counts(st, new)
  BY <1>3, BurnedGap DEF Counts
<1>. QED  BY <1>1, <1>4, <1>5, <1>6 DEF Moves, SameParams

LEMMA TransferMoves ==
  ASSUME NEW st \in Store, NEW new, NEW from, NEW to, NEW c,
         Transfer(st, new, from, to, c), from # FeeCollector, to # FeeCollector
  PROVE  Moves(st, new) /\ SameParams(st, new)
<1>1. /\ new.FeeBurnPercent = st.FeeBurnPercent
      /\ new.GlobalBurnTotal = st.GlobalBurnTotal
      /\ new.GlobalBurnCount = st.GlobalBurnCount /\ new.burns = st.burns
      /\ new.AccountBurnTotal = st.AccountBurnTotal
      /\ new.ValidatorParams = st.ValidatorParams
      /\ new.feesPaid = st.feesPaid /\ new.earlyMint = st.earlyMint
  BY DEF Transfer, Store
<1>2. new.bal[FeeCollector][BondDenom] = st.bal[FeeCollector][BondDenom]
  BY MoreFields DEF Transfer
<1>. QED  BY <1>1, <1>2, MovesElsewhere DEF SameParams

LEMMA CreatedMoves ==
  ASSUME NEW st \in Store, NEW new, NEW m, NEW h, Created(st, new, m, h)
  PROVE  Moves(st, new) /\ SameParams(st, new)
BY MoreFields, MovesElsewhere DEF Created, SameParams

LEMMA SendMoves ==
  ASSUME NEW st \in Store, NEW m \in MsgSend, Send(st, m).ok
  PROVE  Moves(st, Send(st, m).st) /\ SameParams(st, Send(st, m).st)
<1> DEFINE s == SendCoins(st, m.signer, m.to, m.amount)
           u == s.st
           r == Send(st, m).st
<1>1. /\ m.signer \in Accounts /\ m.signer # FeeCollector /\ m.to \in Accounts
      /\ m.amount \in Coin
  BY AccountNames DEF MsgSend
<1>2. /\ s.ok /\ m.to \notin BlockedAddresses
      /\ r = IF m.to = BurnModule
             THEN [u EXCEPT !.gifts[m.amount.denom] = @ + m.amount.amount]
             ELSE u
  BY DEF Send, Ok, Failed
<1>3. Transfer(st, u, m.signer, m.to, m.amount) /\ u \in Store
  BY <1>1, <1>2, SendCoinsOk, TransferStore
<1>4. m.to # FeeCollector
  BY <1>2 DEF BlockedAddresses
<1>. HIDE DEF u, s, r
<1>5. Moves(st, u) /\ SameParams(st, u)
  BY <1>1, <1>3, <1>4, TransferMoves
<1>6. /\ r.bal = u.bal /\ r.FeeBurnPercent = u.FeeBurnPercent
      /\ r.GlobalBurnTotal = u.GlobalBurnTotal
      /\ r.GlobalBurnCount = u.GlobalBurnCount /\ r.burns = u.burns
      /\ r.AccountBurnTotal = u.AccountBurnTotal /\ r.ValidatorParams = u.ValidatorParams
      /\ r.feesPaid = u.feesPaid /\ r.earlyMint = u.earlyMint
  BY <1>2, <1>3 DEF Store
<1>7. Moves(st, r) /\ SameParams(st, r)
  BY <1>5, <1>6, CountsOnTo
  DEF SameTrackers, Moves, Held, Paid, GetAccountBurnTotal, SameParams
<1>. QED  BY <1>7 DEF r

LEMMA RegisterValidatorMoves ==
  ASSUME NEW st \in Store, NEW m \in MsgRegisterValidator, NEW h,
         RegisterValidator(st, m, h).ok
  PROVE  LET new == RegisterValidator(st, m, h).st
         IN Moves(st, new) /\ SameParams(st, new)
<1> DEFINE b == BurnFromAccount(st, m.signer, m.burn)
           u == b.st
           c == CreateValidator(u, m, h)
<1>1. /\ m.signer \in Accounts /\ m.signer # BurnModule /\ m.operator \in Operators
      /\ m.burn \in Coin /\ m.value \in Coin /\ m.minSelf \in Int
  BY AccountNames DEF MsgRegisterValidator
<1>2. b.ok /\ RegisterValidator(st, m, h) = c
  BY DEF RegisterValidator, Failed
<1>3. u \in Store /\ m.burn.amount \in Nat /\ Burned(st, u, m.signer, m.burn.amount)
  BY <1>1, <1>2, BurnFromAccountOk DEF Coin
<1>4. c.st \in Store /\ Created(u, c.st, m, h)
  BY <1>1, <1>2, <1>3, CreateValidatorOk
<1>. HIDE DEF b, u, c
<1>5. Moves(st, u) /\ SameParams(st, u) /\ Moves(u, c.st) /\ SameParams(u, c.st)
  BY <1>1, <1>3, <1>4, BurnedMoves, CreatedMoves
<1>6. Moves(st, c.st) /\ SameParams(st, c.st)
  BY <1>3, <1>4, <1>5, MovesOn DEF SameParams
<1>. QED  BY <1>2, <1>6

LEMMA UpdateParamsMoves ==
  ASSUME NEW st \in Store, NEW p
  PROVE  /\ Moves(st, [st EXCEPT !.FeeBurnPercent = p])
         /\ Moves(st, [st EXCEPT !.ValidatorParams = p])
<1>1. ASSUME NEW new, \/ new = [st EXCEPT !.FeeBurnPercent = p]
                      \/ new = [st EXCEPT !.ValidatorParams = p]
      PROVE  Moves(st, new)
  <2>1. /\ new.bal = st.bal /\ new.GlobalBurnTotal = st.GlobalBurnTotal
        /\ new.GlobalBurnCount = st.GlobalBurnCount /\ new.burns = st.burns
        /\ new.AccountBurnTotal = st.AccountBurnTotal
        /\ new.feesPaid = st.feesPaid /\ new.earlyMint = st.earlyMint
    BY <1>1 DEF Store
  <2>. QED  BY <2>1, MovesElsewhere
<1>. QED  BY <1>1

\* Only a message of the governance account changes a parameter.
LEMMA HandleMoves ==
  ASSUME NEW st, Good(st), NEW m \in Message, NEW h, Handle(st, m, h).ok
  PROVE  LET new == Handle(st, m, h).st
         IN /\ Moves(st, new)
            /\ Signer(m) # Gov \/ m.type = "create" => SameParams(st, new)
<1> DEFINE r == Handle(st, m, h)
<1>1. st \in Store /\ ~ Failed(st).ok
  BY DEF Good, Failed
<1>2. IsAllowed(m, h)
  BY <1>1 DEF Handle, IsAllowed
<1>3. CASE m.type = "burn" /\ m \in MsgBurn
  <2>1. r = BurnFromAccount(st, m.signer, m.amount)
    BY <1>3 DEF Handle, IsAllowed, Burn
  <2>2. m.signer \in Accounts /\ m.signer # BurnModule /\ m.amount \in Coin
    BY <1>3, AccountNames DEF MsgBurn, Operators
  <2>3. m.amount.amount \in Nat /\ Burned(st, r.st, m.signer, m.amount.amount)
    BY <1>1, <2>1, <2>2, BurnFromAccountOk DEF Coin
  <2>. HIDE DEF r
  <2>4. Moves(st, r.st) /\ SameParams(st, r.st)
    BY <1>1, <2>2, <2>3, BurnedMoves
  <2>. QED  BY <2>4 DEF r
<1>4. CASE m.type = "burnParams" /\ m \in MsgUpdateBurnParams
  <2>1. r = UpdateBurnParams(st, m)
    BY <1>4 DEF Handle, IsAllowed
  <2>2. m.signer = Gov /\ r.st = [st EXCEPT !.FeeBurnPercent = m.FeeBurnPercent]
    BY <1>1, <2>1 DEF UpdateBurnParams, Ok, Failed
  <2>3. Signer(m) = Gov
    BY <1>4, <2>2 DEF Signer
  <2>. QED  BY <1>1, <1>4, <2>2, <2>3, UpdateParamsMoves
<1>5. CASE m.type = "register" /\ m \in MsgRegisterValidator
  <2>1. r = RegisterValidator(st, m, h)
    BY <1>5 DEF Handle, IsAllowed
  <2>. QED  BY <1>1, <1>5, <2>1, RegisterValidatorMoves
<1>6. CASE m.type = "valParams" /\ m \in MsgUpdateValidatorParams
  <2>1. r = UpdateValidatorParams(st, m)
    BY <1>6 DEF Handle, IsAllowed
  <2>2. m.signer = Gov /\ r.st = [st EXCEPT !.ValidatorParams = m.params]
    BY <1>1, <2>1 DEF UpdateValidatorParams, Ok, Failed
  <2>3. Signer(m) = Gov
    BY <1>6, <2>2 DEF Signer
  <2>. QED  BY <1>1, <1>6, <2>2, <2>3, UpdateParamsMoves
<1>7. CASE m.type = "send" /\ m \in MsgSend
  <2>1. r = Send(st, m)
    BY <1>7 DEF Handle, IsAllowed
  <2>. QED  BY <1>1, <1>7, <2>1, SendMoves
<1>8. CASE m.type = "create" /\ m \in MsgCreateValidator
  <2>1. m.via \in {"router", "precompile"}
    BY <1>8 DEF MsgCreateValidator
  <2>2. r = IF h = 0 THEN CreateValidator(st, m, 0) ELSE Failed(st)
    BY <1>2, <1>8, <2>1 DEF Handle, IsAllowed, RestrictedCreateValidator
  <2>3. r = CreateValidator(st, m, 0) /\ r.ok
    BY <1>1, <2>2
  <2>. HIDE DEF r
  <2>4. Created(st, r.st, m, 0)
    BY <1>1, <1>8, <2>3, CreateValidatorOk DEF MsgCreateValidator
  <2>5. Moves(st, r.st) /\ SameParams(st, r.st)
    BY <1>1, <2>4, CreatedMoves
  <2>. QED  BY <2>5 DEF r
<1>. QED  BY <1>3, <1>4, <1>5, <1>6, <1>7, <1>8, MessageKinds
LEMMA FeeBurnMoves ==
  ASSUME NEW st, Good(st)
  PROVE  LET new == ProcessFeeBurn(st).st
         IN Moves(st, new) /\ SameParams(st, new)
<1> DEFINE new == ProcessFeeBurn(st).st
<1>1. st \in Store /\ FeeCollector \in Accounts
  BY MoreFields DEF Good
<1>2. new = st \/ \E n \in Nat : Burned(st, new, FeeCollector, n)
  BY ProcessFeeBurnEffect
<1>. HIDE DEF new
<1>3. Moves(st, new) /\ SameParams(st, new)
  <2>1. CASE new = st
    BY <1>1, <2>1, MovesElsewhere DEF SameParams
  <2>2. CASE \E n \in Nat : Burned(st, new, FeeCollector, n)
    BY <1>1, <2>2, BurnedMoves
  <2>. QED  BY <1>2, <2>1, <2>2
<1>. QED  BY <1>3 DEF new

\* What has been burned from the collector beyond what was paid into it.
Spent(st) == GetAccountBurnTotal(st, FeeCollector) - Paid(st)

\* The inflation of block 1 counts as paid, later inflation does not.
LEMMA MintMoves ==
  ASSUME NEW st \in Store, NEW n \in Nat, NEW h
  PROVE  LET new == [MintCoins(st, FeeCollector, Native(n)) EXCEPT
                       !.minted = @ + n, !.earlyMint = IF h = 0 THEN @ + n ELSE @]
         IN /\ Counts(st, new) /\ SameParams(st, new) /\ Spent(new) <= Spent(st)
            /\ h = 0 => Held(new) = Held(st)
<1> DEFINE mid == MintCoins(st, FeeCollector, Native(n))
           e == IF h = 0 THEN mid.earlyMint + n ELSE mid.earlyMint
           mi == mid.minted + n
           new == [mid EXCEPT !.minted = mi, !.earlyMint = e]
           b == [st.bal EXCEPT ![FeeCollector] =
                   [st.bal[FeeCollector] EXCEPT ![BondDenom] = @ + n]]
           s == [st.supply EXCEPT ![BondDenom] = @ + n]
<1>1. /\ st.bal \in [Accounts -> [Denoms -> Nat]] /\ FeeCollector \in Accounts
      /\ BondDenom \in Denoms /\ st.feesPaid \in Int /\ st.earlyMint \in Int
      /\ GetAccountBurnTotal(st, FeeCollector) \in Nat
      /\ st.bal[FeeCollector][BondDenom] \in Nat
  BY MoreFields, StoreFields
<1>2. b[FeeCollector][BondDenom] = st.bal[FeeCollector][BondDenom] + n
  BY <1>1
<1>3. mid = [st EXCEPT !.bal = b, !.supply = s]
  <2>1. mid = [[st EXCEPT !.bal = b] EXCEPT !.supply[BondDenom] = @ + n]
    BY DEF MintCoins, Credit, Native
  <2>. HIDE DEF b, mid
  <2>. QED  BY <2>1 DEF Store
<1>. HIDE DEF mid, b, s
<1>4. /\ mid.bal = b /\ mid.feesPaid = st.feesPaid /\ mid.earlyMint = st.earlyMint
      /\ mid.GlobalBurnTotal = st.GlobalBurnTotal
      /\ mid.GlobalBurnCount = st.GlobalBurnCount /\ mid.burns = st.burns
      /\ mid.AccountBurnTotal = st.AccountBurnTotal
      /\ mid.FeeBurnPercent = st.FeeBurnPercent
      /\ mid.ValidatorParams = st.ValidatorParams
  BY <1>3 DEF Store
<1>. HIDE DEF e, mi
<1>5. /\ new.bal = b /\ new.feesPaid = st.feesPaid /\ new.earlyMint = e
      /\ new.GlobalBurnTotal = st.GlobalBurnTotal
      /\ new.GlobalBurnCount = st.GlobalBurnCount /\ new.burns = st.burns
      /\ new.AccountBurnTotal = st.AccountBurnTotal
      /\ SameParams(st, new)
  BY <1>3, <1>4 DEF Store, SameParams
<1>. HIDE DEF new
<1>6. /\ e = IF h = 0 THEN st.earlyMint + n ELSE st.earlyMint
      /\ GetAccountBurnTotal(new, FeeCollector) = GetAccountBurnTotal(st, FeeCollector)
  BY <1>4, <1>5 DEF e, GetAccountBurnTotal
<1>7. Spent(new) <= Spent(st)
  BY <1>1, <1>5, <1>6 DEF Spent, Paid
<1>8. h = 0 => Held(new) = Held(st)
  BY <1>1, <1>2, <1>5, <1>6 DEF Held, Paid
<1>9. Counts(st, new)
  BY <1>5, CountsSame DEF SameTrackers
<1>. QED  BY <1>5, <1>7, <1>8, <1>9 DEF new, e, mi, mid

LEMMA DistributeMoves ==
  ASSUME NEW st \in Store
  PROVE  LET new == [st EXCEPT
               !.bal = [a \in Accounts |-> [d \in Denoms |->
                  CASE a = FeeCollector -> 0
                    [] a = Distribution -> @[a][d] + @[FeeCollector][d]
                    [] OTHER            -> @[a][d]]]]
         IN /\ Counts(st, new) /\ SameParams(st, new)
            /\ Spent(new) = Spent(st) /\ Held(new) = Spent(st)
            /\ \A d \in Denoms : new.bal[FeeCollector][d] = 0
<1> DEFINE b == [a \in Accounts |-> [d \in Denoms |->
                  CASE a = FeeCollector -> 0
                    [] a = Distribution -> st.bal[a][d] + st.bal[FeeCollector][d]
                    [] OTHER            -> st.bal[a][d]]]
           new == [st EXCEPT !.bal = b]
<1>1. /\ FeeCollector \in Accounts /\ BondDenom \in Denoms /\ Paid(st) \in Int
      /\ GetAccountBurnTotal(st, FeeCollector) \in Nat /\ FeeCollector # Distribution
  BY MoreFields DEF FeeCollector, Distribution
<1>2. \A d \in Denoms : b[FeeCollector][d] = 0
  BY <1>1
<1>. HIDE DEF b
<1>3. /\ new.bal = b /\ new.feesPaid = st.feesPaid /\ new.earlyMint = st.earlyMint
      /\ new.GlobalBurnTotal = st.GlobalBurnTotal
      /\ new.GlobalBurnCount = st.GlobalBurnCount /\ new.burns = st.burns
      /\ new.AccountBurnTotal = st.AccountBurnTotal
      /\ SameParams(st, new)
  BY DEF Store, SameParams
<1>. HIDE DEF new
<1>4. /\ GetAccountBurnTotal(new, FeeCollector) = GetAccountBurnTotal(st, FeeCollector)
      /\ Paid(new) = Paid(st) /\ new.bal[FeeCollector][BondDenom] = 0
  BY <1>1, <1>2, <1>3 DEF GetAccountBurnTotal, Paid
<1>5. Spent(new) = Spent(st) /\ Held(new) = Spent(st)
  BY <1>1, <1>4 DEF Spent, Held
<1>6. Counts(st, new)
  BY <1>3, CountsSame DEF SameTrackers
<1>7. \A d \in Denoms : new.bal[FeeCollector][d] = 0
  BY <1>2, <1>3
<1>. QED  BY <1>3, <1>5, <1>6, <1>7 DEF new, b

LEMMA FeeMoves ==
  ASSUME NEW st \in Store, NEW u \in Users, NEW n \in Nat,
         SendCoins(st, u, FeeCollector, Native(n)).ok
  PROVE  LET new == [SendCoins(st, u, FeeCollector, Native(n)).st EXCEPT !.feesPaid = @ + n]
         IN Moves(st, new) /\ SameParams(st, new)
<1> DEFINE v == SendCoins(st, u, FeeCollector, Native(n)).st
           f == v.feesPaid + n
           new == [v EXCEPT !.feesPaid = f]
           c == Native(n)
<1>1. /\ u \in Accounts /\ FeeCollector \in Accounts /\ u # FeeCollector
      /\ c \in Coin /\ c.amount = n /\ c.denom = BondDenom
  BY AccountNames, MoreFields DEF Native, Coin
<1>2. Transfer(st, v, u, FeeCollector, c) /\ v \in Store
  BY <1>1, SendCoinsOk, TransferStore
<1>. HIDE DEF v, c
<1>3. /\ v.FeeBurnPercent = st.FeeBurnPercent
      /\ v.GlobalBurnTotal = st.GlobalBurnTotal
      /\ v.GlobalBurnCount = st.GlobalBurnCount /\ v.burns = st.burns
      /\ v.AccountBurnTotal = st.AccountBurnTotal
      /\ v.ValidatorParams = st.ValidatorParams
      /\ v.feesPaid = st.feesPaid /\ v.earlyMint = st.earlyMint
  BY <1>2 DEF Transfer, Store
<1>4. v.bal[FeeCollector][BondDenom] = st.bal[FeeCollector][BondDenom] + n
  BY <1>1, <1>2, MoreFields DEF Transfer
<1>. HIDE DEF f
<1>5. /\ new.bal = v.bal /\ new.feesPaid = f /\ new.earlyMint = v.earlyMint
      /\ new.GlobalBurnTotal = v.GlobalBurnTotal
      /\ new.GlobalBurnCount = v.GlobalBurnCount /\ new.burns = v.burns
      /\ new.AccountBurnTotal = v.AccountBurnTotal
      /\ SameParams(v, new)
  BY <1>2 DEF Store, SameParams
<1>. HIDE DEF new
<1>6. SameParams(st, new) /\ Counts(st, new)
  BY <1>3, <1>5, CountsSame DEF SameParams, SameTrackers
<1>7. f = st.feesPaid + n
      /\ GetAccountBurnTotal(new, FeeCollector) = GetAccountBurnTotal(st, FeeCollector)
  BY <1>3, <1>5 DEF f, GetAccountBurnTotal
<1>8. Held(new) = Held(st)
  BY <1>3, <1>4, <1>5, <1>7, MoreFields DEF Held, Paid
<1>. QED  BY <1>6, <1>8 DEF Moves, new, f, v

LEMMA RemoveValidatorMoves ==
  ASSUME NEW st \in Store, NEW v \in Operators, NEW lost \in Nat, NEW back \in Int,
         NEW burnt, burnt = BurnCoins(st, StakingPool, Native(lost)), burnt.ok,
         NEW ret, ret = SendCoins(burnt.st, StakingPool, v, Native(back)), ret.ok
  PROVE  LET new == [ret.st EXCEPT !.slashed = @ + lost, !.validators = @ \ {v}]
         IN Moves(st, new) /\ SameParams(st, new)
<1> DEFINE u == burnt.st
           w == ret.st
           sl == w.slashed + lost
           va == w.validators \ {v}
           new == [w EXCEPT !.slashed = sl, !.validators = va]
<1>1. /\ v \in Accounts /\ StakingPool \in Accounts /\ v # FeeCollector
      /\ StakingPool # FeeCollector /\ BondDenom \in Denoms
  BY AccountNames DEF ModuleAccounts, StakingPool, FeeCollector
<1>2. Native(lost) \in Coin /\ Native(back) \in Coin
  BY <1>1 DEF Native, Coin
<1>3. BankBurn(st, u, StakingPool, Native(lost)) /\ u \in Store
  BY <1>1, <1>2, BurnCoinsOk, BankBurnStore
<1>4. Transfer(u, w, StakingPool, v, Native(back)) /\ w \in Store
  BY <1>1, <1>2, <1>3, SendCoinsOk, TransferStore
<1>. HIDE DEF u, w
<1>5. Moves(st, u) /\ SameParams(st, u)
  <2>1. /\ u.FeeBurnPercent = st.FeeBurnPercent
        /\ u.GlobalBurnTotal = st.GlobalBurnTotal
        /\ u.GlobalBurnCount = st.GlobalBurnCount /\ u.burns = st.burns
        /\ u.AccountBurnTotal = st.AccountBurnTotal
        /\ u.ValidatorParams = st.ValidatorParams
        /\ u.feesPaid = st.feesPaid /\ u.earlyMint = st.earlyMint
    <3>1. u = [st EXCEPT !.bal = u.bal, !.supply = u.supply, !.burns = u.burns]
      BY <1>3 DEF BankBurn
    <3>2. u.burns = st.burns
      BY <1>3, MoreFields DEF BankBurn, StakingPool, BurnModule
    <3>. QED  BY <3>1, <3>2 DEF Store
  <2>2. u.bal[FeeCollector][BondDenom] = st.bal[FeeCollector][BondDenom]
    BY <1>1, <1>3, MoreFields DEF BankBurn
  <2>. QED  BY <2>1, <2>2, MovesElsewhere DEF SameParams
<1>6. Moves(u, w) /\ SameParams(u, w)
  BY <1>1, <1>3, <1>4, TransferMoves
<1>7. Moves(st, w) /\ SameParams(st, w)
  BY <1>3, <1>4, <1>5, <1>6, MovesOn DEF SameParams
<1>. HIDE DEF sl, va
<1>8. /\ new.bal = w.bal /\ new.FeeBurnPercent = w.FeeBurnPercent
      /\ new.GlobalBurnTotal = w.GlobalBurnTotal
      /\ new.GlobalBurnCount = w.GlobalBurnCount /\ new.burns = w.burns
      /\ new.AccountBurnTotal = w.AccountBurnTotal
      /\ new.ValidatorParams = w.ValidatorParams
      /\ new.feesPaid = w.feesPaid /\ new.earlyMint = w.earlyMint
  BY <1>4 DEF Store
<1>. HIDE DEF new
<1>9. Moves(st, new) /\ SameParams(st, new)
  BY <1>7, <1>8, CountsOnTo
  DEF SameTrackers, Moves, Held, Paid, GetAccountBurnTotal, SameParams
<1>. QED  BY <1>9 DEF new, va, sl, w
-----------------------------------------------------------------------------
(***************************************************************************)
(* The inductive invariant, beside IInv.  Between x/mint and the sweep of  *)
(* x/distribution (Pending) the collector holds inflation too; then only   *)
(* what was burned is bounded.                                             *)
(***************************************************************************)
Within(st) == Counts(GenStore, st) /\ Held(st) <= Held(GenStore)

Pending == phase = "begin" /\ stage = 3 /\ height > 0

CInv ==
  /\ Within(committed)
  /\ Counts(GenStore, deliver) /\ Spent(deliver) <= Held(GenStore)
  /\ ~ Pending => Within(deliver)
  /\ phase \in {"tx", "gov"} /\ ~ failed => Within(branch)
  /\ phase = "tx" /\ ~ failed => SameParams(deliver, branch)
  /\ phase = "tx" => txs > 0
  /\ phase = "begin" => stage \in 1..3
  /\ CollectorDrained

LEMMA WithinSpent ==
  ASSUME NEW st \in Store, Within(st)
  PROVE  Spent(st) <= Held(GenStore)
BY MoreFields, GenStoreFields DEF Within, Spent, Held

LEMMA WithinMoves ==
  ASSUME NEW st \in Store, NEW new \in Store, Within(st), Moves(st, new)
  PROVE  Within(new)
BY CountsTransitive, GenStoreFields DEF Within, Moves

LEMMA StartCInv == Init => CInv
<1>. HAVE Init
<1>1. Counts(GenStore, GenStore) /\ Held(GenStore) \in Int
  BY GenStoreFields, MoreFields, CountsSame DEF SameTrackers
<1>2. Within(GenStore)
  BY <1>1 DEF Within
<1>3. Spent(GenStore) <= Held(GenStore)
  BY <1>2, WithinSpent, GenStoreFields
<1>4. committed = GenStore /\ deliver = GenStore /\ phase = "genesis"
  BY DEF Init
<1>. QED  BY <1>1, <1>2, <1>3, <1>4 DEF CInv, CollectorDrained, Pending

\* What is left to show for a step that moves deliver and leaves committed.
LEMMA DeliverMoves ==
  ASSUME IInv, IInv', CInv, ~ Pending, Moves(deliver, deliver')
  PROVE  /\ Within(deliver') /\ Counts(GenStore, deliver')
         /\ Spent(deliver') <= Held(GenStore)
<1>1. deliver \in Store /\ deliver' \in Store /\ Within(deliver)
  BY DEF IInv, Good, CInv
<1>2. Within(deliver')
  BY <1>1, WithinMoves
<1>. QED  BY <1>1, <1>2, WithinSpent DEF Within

\* The BeginBlock hooks run in the order of SetOrderBeginBlockers.
LEMMA HookOrder ==
  ASSUME CInv, phase = "begin"
  PROVE  /\ AtHook("burn") <=> stage = 1
         /\ AtHook("mint") <=> stage = 2
         /\ AtHook("distribution") <=> stage = 3
         /\ Len(BeginBlockers) = 3
<1>1. stage \in 1..3
  BY DEF CInv
<1>2. /\ BeginBlockers[1] = "burn" /\ BeginBlockers[2] = "mint"
      /\ BeginBlockers[3] = "distribution" /\ Len(BeginBlockers) = 3
  BY DEF BeginBlockers
<1>. QED  BY <1>1, <1>2 DEF AtHook

LEMMA NextCInv == IInv /\ IInv' /\ CInv /\ [Next]_vars => CInv'
<1>. SUFFICES ASSUME IInv, IInv', CInv, [Next]_vars PROVE CInv'
  OBVIOUS
<1>. USE DEF Pending
<1>0. /\ Good(committed) /\ Good(deliver) /\ committed \in Store /\ deliver \in Store
      /\ height \in Nat /\ txs \in Nat
      /\ Within(committed) /\ Spent(committed) <= Held(GenStore)
      /\ Counts(GenStore, committed) /\ deliver' \in Store
  BY WithinSpent DEF IInv, Good, CInv, Within
<1>1. ASSUME NEW m \in Msgs, GenTx(m) PROVE CInv'
  <2>1. Moves(deliver, deliver')
    BY <1>0, <1>1, ChainAssumption, HandleMoves DEF GenTx
  <2>. QED  BY <1>1, <2>1, DeliverMoves DEF GenTx, CInv, CollectorDrained
<1>2. CASE InitChain
  BY <1>2 DEF InitChain, CInv, CollectorDrained
<1>3. CASE ExportImport
  <2>1. committed' = committed /\ deliver' = committed
    BY <1>0, <1>3, ImportUndoesExport DEF ExportImport
  <2>. QED  BY <1>0, <1>3, <2>1 DEF ExportImport, CInv, CollectorDrained
<1>4. CASE BeginBlock
  BY <1>4 DEF BeginBlock, CInv, CollectorDrained
<1>5. CASE FeeBurn
  <2>1. phase = "begin" /\ stage = 1 /\ Len(BeginBlockers) = 3
    BY <1>5, HookOrder DEF FeeBurn, AtHook
  <2>2. Moves(deliver, deliver')
    BY <1>0, <1>5, FeeBurnMoves DEF FeeBurn
  <2>3. phase' = "begin" /\ stage' = 2
    BY <1>0, <1>5, <2>1, ProcessFeeBurnEffect DEF FeeBurn, NextHook
  <2>. QED  BY <1>5, <2>1, <2>2, <2>3, DeliverMoves DEF FeeBurn, CInv, CollectorDrained
<1>6. ASSUME NEW n \in Inflation, Mint(n) PROVE CInv'
  <2>1. phase = "begin" /\ stage = 2 /\ phase' = "begin" /\ stage' = 3
    BY <1>6, HookOrder DEF Mint, AtHook, NextHook
  <2>2. /\ Counts(deliver, deliver') /\ Spent(deliver') <= Spent(deliver)
        /\ height = 0 => Held(deliver') = Held(deliver)
    BY <1>0, <1>6, ChainAssumption, MintMoves DEF Mint
  <2>3. Counts(GenStore, deliver')
    BY <1>0, <2>2, CountsTransitive, GenStoreFields DEF CInv
  <2>4. Spent(deliver') <= Held(GenStore)
    <3>1. Spent(deliver) \in Int /\ Spent(deliver') \in Int /\ Held(GenStore) \in Int
      BY <1>0, MoreFields, GenStoreFields DEF Spent
    <3>. QED  BY <2>2, <3>1 DEF CInv
  <2>5. height = 0 => Within(deliver')
    BY <2>1, <2>2, <2>3 DEF CInv, Within
  <2>. QED  BY <1>0, <1>6, <2>1, <2>3, <2>4, <2>5 DEF Mint, CInv, CollectorDrained
<1>7. CASE Distribute
  <2>1. phase = "begin" /\ stage = 3 /\ phase' = "deliver" /\ stage' = 0
    BY <1>7, HookOrder DEF Distribute, AtHook, NextHook
  <2>2. /\ committed' = committed /\ height' = height
    BY <1>7 DEF Distribute
  <2>3. CASE height = 0
    <3>1. deliver' = deliver
      BY <1>7, <2>3 DEF Distribute
    <3>. QED  BY <2>1, <2>2, <2>3, <3>1 DEF CInv, CollectorDrained
  <2>4. CASE height > 0
    <3>. DEFINE swept == [deliver EXCEPT
                  !.bal = [a \in Accounts |-> [d \in Denoms |->
                     CASE a = FeeCollector -> 0
                       [] a = Distribution -> @[a][d] + @[FeeCollector][d]
                       [] OTHER            -> @[a][d]]]]
    <3>0. deliver' = swept
      BY <1>0, <1>7, <2>4 DEF Distribute
    <3>1. /\ Counts(deliver, deliver')
          /\ Spent(deliver') = Spent(deliver) /\ Held(deliver') = Spent(deliver)
          /\ \A d \in Denoms : deliver'.bal[FeeCollector][d] = 0
      <4>1. /\ Counts(deliver, swept) /\ Spent(swept) = Spent(deliver)
            /\ Held(swept) = Spent(deliver)
            /\ \A d \in Denoms : swept.bal[FeeCollector][d] = 0
        BY <1>0, DistributeMoves
      <4>. HIDE DEF swept
      <4>. QED  BY <3>0, <4>1
    <3>2. Counts(GenStore, deliver')
      BY <1>0, <3>1, CountsTransitive, GenStoreFields DEF CInv
    <3>3. Within(deliver') /\ Spent(deliver') <= Held(GenStore)
      BY <3>1, <3>2 DEF CInv, Within
    <3>. QED  BY <2>1, <2>2, <3>1, <3>2, <3>3 DEF CInv, CollectorDrained
  <2>. QED  BY <1>0, <2>3, <2>4
<1>8. ASSUME NEW u \in Users, NEW fee \in Fees, StartTx(u, fee) PROVE CInv'
  <2>1. Moves(deliver, deliver')
    BY <1>0, <1>8, ChainAssumption, FeeMoves DEF StartTx
  <2>2. SameParams(deliver', branch')
    BY <1>8 DEF StartTx, SameParams
  <2>. QED  BY <1>0, <1>8, <2>1, <2>2, DeliverMoves DEF StartTx, CInv, CollectorDrained
<1>9. CASE StartProposal
  BY <1>9 DEF StartProposal, CInv, CollectorDrained
<1>10. ASSUME NEW m \in Msgs, ExecMsg(m) PROVE CInv'
  <2>. DEFINE r == Handle(branch, m, height + 1)
  <2>1. /\ ~ failed /\ Good(branch) /\ m \in Message
        /\ phase \in {"tx", "gov"} /\ Within(branch)
    BY <1>10, ChainAssumption DEF ExecMsg, IInv, CInv
  <2>2. branch' = r.st /\ (~ failed' => r.ok)
    BY <1>10 DEF ExecMsg
  <2>3. ASSUME ~ failed'
        PROVE  Within(branch') /\ (phase = "tx" => SameParams(deliver, branch'))
    <3>1. /\ Moves(branch, branch')
          /\ Signer(m) # Gov => SameParams(branch, branch')
      BY <2>1, <2>2, <2>3, HandleMoves
    <3>2. branch \in Store /\ branch' \in Store
      BY <2>1 DEF IInv, Good
    <3>3. Within(branch')
      BY <2>1, <3>1, <3>2, WithinMoves
    <3>4. phase = "tx" => Signer(m) # Gov
      BY <1>10, BankAssumption DEF ExecMsg, ModuleAccounts
    <3>. QED  BY <2>1, <3>1, <3>3, <3>4 DEF CInv, SameParams
  <2>. QED  BY <1>10, <2>1, <2>3 DEF ExecMsg, CInv, CollectorDrained
<1>11. CASE WriteBranch
  <2>1. Within(branch) /\ branch \in Store
    BY <1>11 DEF WriteBranch, CInv, IInv
  <2>2. Spent(branch) <= Held(GenStore) /\ Counts(GenStore, branch)
    BY <2>1, WithinSpent DEF Within
  <2>3. phase = "tx" => txs > 0
    BY DEF CInv
  <2>. QED  BY <1>0, <1>11, <2>1, <2>2, <2>3 DEF WriteBranch, AfterBranch, CInv, CollectorDrained
<1>12. CASE DropBranch
  BY <1>0, <1>12 DEF DropBranch, AfterBranch, CInv, CollectorDrained
<1>13. CASE EndBlock
  BY <1>13 DEF EndBlock, CInv, CollectorDrained
<1>14. ASSUME NEW v \in Operators, NEW lost \in Slashes, RemoveValidator(v, lost)
       PROVE  CInv'
  <2>. DEFINE back == deliver.selfBond[v] - lost
              burnt == BurnCoins(deliver, StakingPool, Native(lost))
              ret == SendCoins(burnt.st, StakingPool, v, Native(back))
  <2>1. lost \in Nat /\ back \in Int
    <3>1. lost \in Nat
      BY ChainAssumption
    <3>2. deliver.selfBond \in [Operators -> Int]
      BY <1>0 DEF Store
    <3>. QED  BY <3>1, <3>2
  <2>2. /\ burnt.ok /\ ret.ok
        /\ deliver' = [ret.st EXCEPT !.slashed = @ + lost, !.validators = @ \ {v}]
    BY <1>14 DEF RemoveValidator
  <2>3. Moves(deliver, deliver')
    <3>. HIDE DEF back
    <3>. QED  BY <1>0, <2>1, <2>2, RemoveValidatorMoves
  <2>. QED  BY <1>14, <2>3, DeliverMoves DEF RemoveValidator, CInv, CollectorDrained
<1>15. CASE Commit
  BY <1>15 DEF Commit, CInv, CollectorDrained
<1>16. CASE Abort
  BY <1>0, <1>16 DEF Abort, CInv, CollectorDrained
<1>17. CASE UNCHANGED vars
  BY <1>17 DEF vars, CInv, CollectorDrained
<1>. QED
  BY <1>1, <1>2, <1>3, <1>4, <1>5, <1>6, <1>7, <1>8, <1>9, <1>10, <1>11, <1>12, <1>13,
     <1>14, <1>15, <1>16, <1>17 DEF Next, Progress

LEMMA SpecCInv == Spec => []CInv
<1>1. IInv /\ IInv' /\ CInv /\ [Next]_vars => CInv'
  BY NextCInv
<1>. QED  BY <1>1, StartCInv, SpecIInv, PTL DEF Spec

-----------------------------------------------------------------------------
(***************************************************************************)
(* What follows, for every genesis, message set and bound                  *)
(***************************************************************************)
\* The fee burn destroys what was paid as fees, what the collector held at
\* genesis and the inflation of block 1, and nothing else: later inflation is
\* in the collector only between x/mint and x/distribution.
THEOREM FeeBurnStaysWithinFees == Spec => []FeeBurnWithinFees
<1>1. IInv /\ CInv => FeeBurnWithinFees
  <2>. SUFFICES ASSUME IInv, CInv, NEW st \in LiveStores
                PROVE  BurnedBy(st, FeeCollector)
                         <= st.feesPaid + st.earlyMint + GenBal[FeeCollector][BondDenom]
    BY DEF FeeBurnWithinFees
  <2>1. st \in Store
    BY LiveStoresGood DEF Good
  <2>2. Spent(st) <= Held(GenStore)
    <3>1. Spent(committed) <= Held(GenStore) /\ Spent(deliver) <= Held(GenStore)
      BY WithinSpent DEF IInv, Good, CInv
    <3>2. ~ failed => Spent(branch) <= Held(GenStore)
      BY <3>1, WithinSpent DEF IInv, Good, CInv
    <3>. QED  BY <3>1, <3>2 DEF LiveStores
  <2>3. /\ GenStore.bal = GenBal /\ GenStore.feesPaid = 0 /\ GenStore.earlyMint = 0
    <3>. DEFINE g1 == InitBurnGenesis(EmptyStore, GenBurn)
    <3>1. g1.bal = GenBal /\ g1.feesPaid = 0 /\ g1.earlyMint = 0
      BY DEF InitBurnGenesis, EmptyStore
    <3>. HIDE DEF g1
    <3>2. GenStore = [g1 EXCEPT !.ValidatorParams = GenValidator]
      BY DEF GenStore, InitValidatorGenesis, g1
    <3>. QED  BY <3>1, <3>2
  <2>. QED  BY <2>1, <2>2, <2>3, MoreFields, GenStoreFields DEF Spent, Held, Paid, BurnedBy
<1>. QED  BY <1>1, SpecIInv, SpecCInv, PTL

\* From block 2 on transactions start with an empty collector: no block leaves
\* fees or inflation behind for the fee burn of another one to take twice.
THEOREM CollectorIsDrained == Spec => []CollectorDrained
<1>1. CInv => CollectorDrained
  BY DEF CInv
<1>. QED  BY <1>1, SpecCInv, PTL

\* The burn counter is the number of burns that x/bank made of the burn
\* account, modulo its width, whatever was rolled back or exported in between.
THEOREM EveryBurnIsCounted == Spec => []BurnsCounted
<1>1. IInv /\ CInv => BurnsCounted
  <2>. SUFFICES ASSUME IInv, CInv, NEW st \in LiveStores
                PROVE  st.GlobalBurnCount = (GenBurn.Count + st.burns) % CountModulus
    BY DEF BurnsCounted
  <2>1. st \in Store
    BY LiveStoresGood DEF Good
  <2>2. Counts(GenStore, st)
    <3>1. ~ failed => Counts(GenStore, branch)
      BY DEF IInv, CInv, Within
    <3>. QED  BY <3>1 DEF LiveStores, CInv, Within
  <2>3. PICK q \in Nat :
          GenStore.GlobalBurnCount + (st.burns - GenStore.burns)
            = st.GlobalBurnCount + q * CountModulus
    BY <2>2 DEF Counts, CountMoves
  <2>4. GenStore.GlobalBurnCount = GenBurn.Count /\ GenStore.burns = 0
    <3>. DEFINE g1 == InitBurnGenesis(EmptyStore, GenBurn)
    <3>1. g1.GlobalBurnCount = GenBurn.Count /\ g1.burns = 0
      BY DEF InitBurnGenesis, EmptyStore
    <3>. HIDE DEF g1
    <3>2. GenStore = [g1 EXCEPT !.ValidatorParams = GenValidator]
      BY DEF GenStore, InitValidatorGenesis, g1
    <3>. QED  BY <3>1, <3>2
  <2>5. /\ GenStore.GlobalBurnCount \in 0..(CountModulus - 1)
        /\ CountModulus \in Nat \ {0} /\ st.burns \in Nat
        /\ st.GlobalBurnCount \in 0..(CountModulus - 1)
    BY <2>1, MoreFields, GenStoreFields, BurnAssumption
  <2>. DEFINE x == GenBurn.Count + st.burns
  <2>6. x \in Nat /\ x = st.GlobalBurnCount + q * CountModulus
    BY <2>3, <2>4, <2>5
  <2>. HIDE DEF x
  <2>7. x % CountModulus = st.GlobalBurnCount
    BY <2>5, <2>6, RemainderUnique
  <2>. QED  BY <2>7 DEF x
<1>. QED  BY <1>1, SpecIInv, SpecCInv, PTL

\* Every burn is booked on exactly one address: the account totals move by as
\* much as the global total, from whatever genesis brought, for any number of
\* accounts, through every rollback, crash and import.
THEOREM AccountTotalsFollowTheGlobalOne == Spec => []AccountTotalsAddUp
<1>1. IInv /\ CInv => AccountTotalsAddUp
  <2>. SUFFICES ASSUME IInv, CInv, NEW st \in LiveStores
                PROVE  SumOfAccounts(st) - SumOfAccounts(GenStore) = BurnedSinceGenesis(st)
    BY DEF AccountTotalsAddUp
  <2>1. st \in Store
    BY LiveStoresGood DEF Good
  <2>2. Gap(st) = Gap(GenStore)
    <3>1. ~ failed => Counts(GenStore, branch)
      BY DEF IInv, CInv, Within
    <3>. QED  BY <3>1 DEF LiveStores, CInv, Within, Counts
  <2>3. /\ SumOfAccounts(st) \in Int /\ SumOfAccounts(GenStore) \in Int
        /\ st.GlobalBurnTotal \in Nat /\ GenStore.GlobalBurnTotal \in Nat
    BY <2>1, SumOfAccountsType, StoreFields, GenStoreFields
  <2>. QED  BY <2>2, <2>3 DEF Gap, BurnedSinceGenesis, GetGlobalBurnTotal
<1>. QED  BY <1>1, SpecIInv, SpecCInv, PTL

\* No transaction, hook, gentx or removal of a validator changes a parameter of
\* x/burn or x/validator: only a governance proposal does.
THEOREM ParamsChangeByProposal == Spec => ParamsChangeOnlyByProposal
<1>1. IInv /\ CInv /\ [Next]_vars =>
        [ \/ phase = "gov" \/ deliver' = committed
          \/ /\ deliver'.FeeBurnPercent = deliver.FeeBurnPercent
             /\ deliver'.ValidatorParams = deliver.ValidatorParams ]_vars
  <2>. SUFFICES ASSUME IInv, CInv, Next
                PROVE  phase = "gov" \/ deliver' = committed \/ SameParams(deliver, deliver')
    BY DEF SameParams
  <2>0. Good(deliver) /\ deliver \in Store /\ Good(committed)
    BY DEF IInv, Good
  <2>1. ASSUME NEW m \in Msgs, GenTx(m) PROVE SameParams(deliver, deliver')
    BY <2>0, <2>1, ChainAssumption, HandleMoves DEF GenTx
  <2>2. CASE ExportImport
    BY <2>0, <2>2, ImportUndoesExport DEF ExportImport
  <2>3. CASE FeeBurn
    BY <2>0, <2>3, FeeBurnMoves DEF FeeBurn
  <2>4. ASSUME NEW n \in Inflation, Mint(n) PROVE SameParams(deliver, deliver')
    BY <2>0, <2>4, ChainAssumption, MintMoves DEF Mint
  <2>5. CASE Distribute
    <3>1. CASE height = 0
      BY <2>5, <3>1 DEF Distribute, SameParams
    <3>2. CASE height # 0
      <4>. DEFINE b == [a \in Accounts |-> [d \in Denoms |->
                     CASE a = FeeCollector -> 0
                       [] a = Distribution -> deliver.bal[a][d] + deliver.bal[FeeCollector][d]
                       [] OTHER            -> deliver.bal[a][d]]]
      <4>1. deliver' = [deliver EXCEPT !.bal = b]
        BY <2>5, <3>2 DEF Distribute
      <4>. HIDE DEF b
      <4>. QED  BY <2>0, <4>1 DEF Store, SameParams
    <3>. QED  BY <3>1, <3>2
  <2>6. ASSUME NEW u \in Users, NEW fee \in Fees, StartTx(u, fee)
        PROVE  SameParams(deliver, deliver')
    BY <2>0, <2>6, ChainAssumption, FeeMoves DEF StartTx
  <2>7. CASE WriteBranch
    BY <2>7 DEF WriteBranch, CInv
  <2>8. ASSUME NEW v \in Operators, NEW lost \in Slashes, RemoveValidator(v, lost)
        PROVE  SameParams(deliver, deliver')
    <3>. DEFINE back == deliver.selfBond[v] - lost
                burnt == BurnCoins(deliver, StakingPool, Native(lost))
                ret == SendCoins(burnt.st, StakingPool, v, Native(back))
    <3>1. lost \in Nat /\ back \in Int
      <4>1. lost \in Nat
        BY ChainAssumption
      <4>2. deliver.selfBond \in [Operators -> Int]
        BY <2>0 DEF Store
      <4>. QED  BY <4>1, <4>2
    <3>2. /\ burnt.ok /\ ret.ok
          /\ deliver' = [ret.st EXCEPT !.slashed = @ + lost, !.validators = @ \ {v}]
      BY <2>8 DEF RemoveValidator
    <3>. HIDE DEF back
    <3>. QED  BY <2>0, <3>1, <3>2, RemoveValidatorMoves
  <2>9. CASE Abort
    BY <2>9 DEF Abort
  <2>10. CASE \/ InitChain \/ BeginBlock \/ DropBranch \/ EndBlock \/ Commit \/ StartProposal
              \/ \E m \in Msgs : ExecMsg(m)
    <3>1. deliver' = deliver
      BY <2>10 DEF InitChain, BeginBlock, DropBranch, EndBlock, Commit, StartProposal, ExecMsg
    <3>. QED  BY <3>1 DEF SameParams
  <2>. QED
    BY <2>1, <2>2, <2>3, <2>4, <2>5, <2>6, <2>7, <2>8, <2>9, <2>10 DEF Next, Progress
<1>. QED  BY <1>1, SpecIInv, SpecCInv, PTL DEF Spec, ParamsChangeOnlyByProposal
=============================================================================
