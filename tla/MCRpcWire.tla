----------------------------- MODULE MCRpcWire -----------------------------
(***************************************************************************)
(* RpcWire with a few values of every message type.  Strings are empty,    *)
(* short, or LongName, whose length needs two bytes; numbers have one or   *)
(* two digits; counters reach into the second varint byte.                 *)
(***************************************************************************)
EXTENDS RpcWire

A == <<97>>
LongName == [k \in 1..128 |-> 98]
Gov == <<103>>
Lyth == <<108>>

Coins == {[Denom |-> d, Amount |-> <<n>>] : d \in {Lyth, A}, n \in {0, 12}}
NilCoin == [Denom |-> Lyth, Amount |-> Nil]
CoinL == [Denom |-> Lyth, Amount |-> <<12>>]
Names == {<<>>, A, LongName}
FeeParams == {[FeeBurnPercent |-> n] : n \in {Nil, <<-1>>, <<0>>, <<10>>, <<11>>}}
Records == {[Address |-> a, Total |-> <<n>>] : a \in Names, n \in {0, 10}}
RecordA == [Address |-> A, Total |-> <<1>>]
RecordB == [Address |-> <<98, 98>>, Total |-> <<20>>]
CoinParams == {[ValidatorRegistrationBurn |-> c, ValidatorMinSelfDelegation |-> CoinL] :
                 c \in {CoinL, NilCoin, [Denom |-> A, Amount |-> <<12>>]}}

MCMessages ==
  ("burn.Params" :> FeeParams) @@
  ("burn.AccountBurnRecord" :> Records) @@
  ("burn.GenesisState" :>
     {[Params |-> [FeeBurnPercent |-> <<7>>], Count |-> c, Total |-> <<0>>, AccountTotals |-> s] :
        c \in {0, 1, 127, 128, 511}, s \in {<<>>, <<RecordA>>, <<RecordB, RecordA>>}}) @@
  ("burn.MsgUpdateParams" :>
     {[Authority |-> a, Params |-> p] : a \in {<<>>, Gov}, p \in FeeParams}) @@
  ("burn.MsgUpdateParamsResponse" :> {NoFields}) @@
  ("burn.MsgBurn" :> {[FromAddress |-> a, Amount |-> c] : a \in Names, c \in Coins}) @@
  ("burn.MsgBurnResponse" :> {NoFields}) @@
  ("burn.QueryParamsRequest" :> {NoFields}) @@
  ("burn.QueryParamsResponse" :> {[Params |-> p] : p \in FeeParams}) @@
  ("burn.QueryBurnStatsRequest" :> {NoFields}) @@
  ("burn.QueryBurnStatsResponse" :>
     {[TotalBurns |-> c, TotalBurned |-> t] : c \in {0, 5, 128}, t \in {<<>>, <<49, 50>>}}) @@
  ("burn.QueryAccountBurnsRequest" :> {[Address |-> a] : a \in Names}) @@
  ("burn.QueryAccountBurnsResponse" :> {[Amount |-> a] : a \in {<<>>, <<48>>, <<49, 50>>}}) @@
  ("validator.Params" :> CoinParams) @@
  ("validator.GenesisState" :> {[Params |-> p] : p \in CoinParams}) @@
  ("validator.MsgRegisterValidator" :>
     {[Sender |-> a, CreateValidator |-> [ValidatorAddress |-> v, Value |-> CoinL], Burn |-> c] :
        a \in {<<>>, A}, v \in {<<>>, A}, c \in Coins}) @@
  ("validator.MsgRegisterValidatorResponse" :> {NoFields}) @@
  ("validator.MsgUpdateParams" :>
     {[Authority |-> a, Params |-> p] : a \in {<<>>, Gov}, p \in CoinParams}) @@
  ("validator.MsgUpdateParamsResponse" :> {NoFields}) @@
  ("validator.QueryParamsRequest" :> {NoFields}) @@
  ("validator.QueryParamsResponse" :> {[Params |-> p] : p \in CoinParams})

\* Field 6 with each wire type (a varint of two bytes, eight bytes, two bytes with
\* their length, a group that holds a group and a varint, four bytes), and field 9.
MCUnknownFields ==
  { <<Token(6, 0, <<128>>)>>,
    <<Token(6, 1, <<0, 0, 0, 0, 0, 0, 0, 10>>)>>,
    <<Token(6, 2, <<10, 10>>)>>,
    <<Token(6, 3, <<>>), Token(6, 3, <<>>), Token(1, 0, <<1>>), Token(6, 4, <<>>), Token(6, 4, <<>>)>>,
    <<Token(6, 5, <<10, 0, 18, 34>>)>>,
    <<Token(9, 0, <<0>>)>> }

MCRawTypes == {"burn.GenesisState", "burn.MsgUpdateParams"}

\* Tags of fields 1 to 4, of group 7 and its end, lengths and values,
\* and 255, whose continuation bit makes lengths that overflow.
MCRawBytes == {0, 1, 3, 10, 16, 18, 34, 59, 60, 103, 255}
=============================================================================
