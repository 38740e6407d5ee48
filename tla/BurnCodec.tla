----------------------------- MODULE BurnCodec -----------------------------
(***************************************************************************)
(* The messages of x/burn/types/*.pb.go: for each, the values of the       *)
(* struct and its zero value, what MarshalToSizedBuffer writes (innermost  *)
(* Put first, as the code runs), Size, and the cases of Unmarshal's        *)
(* switch, one per field in the order of their numbers, for Unmarshal of   *)
(* ProtoWire to run.                                                       *)
(***************************************************************************)
EXTENDS SdkCodec

Params_Type == [FeeBurnPercent : Numbers]
Params_Zero == [FeeBurnPercent |-> Nil]
Params_Marshal(m) == PutBytes(1, Number_Marshal(m.FeeBurnPercent), <<>>)
Params_Size(m) == SizeBytes(Number_Size(m.FeeBurnPercent))
Params_Unmarshal == <<Number("FeeBurnPercent")>>

AccountBurnRecord_Type == [Address : Strings, Total : Numbers]
AccountBurnRecord_Zero == [Address |-> <<>>, Total |-> Nil]
AccountBurnRecord_Marshal(m) ==
  PutString(1, m.Address, PutBytes(2, Number_Marshal(m.Total), <<>>))
AccountBurnRecord_Size(m) == SizeString(m.Address) + SizeBytes(Number_Size(m.Total))
AccountBurnRecord_Unmarshal == <<String("Address"), Number("Total")>>

GenesisState_Type ==
  [Params : Params_Type, Count : Word, Total : Numbers, AccountTotals : Seq(AccountBurnRecord_Type)]
GenesisState_Zero ==
  [Params |-> Params_Zero, Count |-> 0, Total |-> Nil, AccountTotals |-> <<>>]
\* Mutant of GenesisState_Marshal: the records written first to last.
GenesisState_MarshalForward(m) ==
  LET written[k \in 0..Len(m.AccountTotals)] ==
        IF k = 0 THEN <<>>
        ELSE PutBytes(4, AccountBurnRecord_Marshal(m.AccountTotals[k]), written[k - 1])
  IN PutBytes(1, Params_Marshal(m.Params),
       PutUint64(2, m.Count,
         PutBytes(3, Number_Marshal(m.Total), written[Len(m.AccountTotals)])))
GenesisState_Marshal(m) ==
  LET last == Len(m.AccountTotals)
      \* the k last records
      written[k \in 0..last] ==
        IF k = 0 THEN <<>>
        ELSE PutBytes(4, AccountBurnRecord_Marshal(m.AccountTotals[last - k + 1]), written[k - 1])
  IN PutBytes(1, Params_Marshal(m.Params),
       PutUint64(2, m.Count,
         PutBytes(3, Number_Marshal(m.Total), written[last])))
GenesisState_Size(m) ==
  LET \* the k first records
      size[k \in 0..Len(m.AccountTotals)] ==
        IF k = 0 THEN 0
        ELSE size[k - 1] + SizeBytes(AccountBurnRecord_Size(m.AccountTotals[k]))
  IN SizeBytes(Params_Size(m.Params)) + SizeUint64(m.Count)
       + SizeBytes(Number_Size(m.Total)) + size[Len(m.AccountTotals)]
GenesisState_Unmarshal ==
  <<Message("Params", Params_Unmarshal),
    Uint64("Count"),
    Number("Total"),
    Repeated("AccountTotals", AccountBurnRecord_Unmarshal, AccountBurnRecord_Zero)>>

-----------------------------------------------------------------------------
(* tx.pb.go *)

MsgUpdateParams_Type == [Authority : Strings, Params : Params_Type]
MsgUpdateParams_Zero == [Authority |-> <<>>, Params |-> Params_Zero]
MsgUpdateParams_Marshal(m) ==
  PutString(1, m.Authority, PutBytes(2, Params_Marshal(m.Params), <<>>))
MsgUpdateParams_Size(m) == SizeString(m.Authority) + SizeBytes(Params_Size(m.Params))
MsgUpdateParams_Unmarshal == <<String("Authority"), Message("Params", Params_Unmarshal)>>

MsgUpdateParamsResponse_Marshal(m) == <<>>
MsgUpdateParamsResponse_Unmarshal == <<>>

MsgBurn_Type == [FromAddress : Strings, Amount : Coin_Type]
MsgBurn_Zero == [FromAddress |-> <<>>, Amount |-> Coin_Zero]
MsgBurn_Marshal(m) ==
  PutString(1, m.FromAddress, PutBytes(2, Coin_Marshal(m.Amount), <<>>))
MsgBurn_Size(m) == SizeString(m.FromAddress) + SizeBytes(Coin_Size(m.Amount))
MsgBurn_Unmarshal == <<String("FromAddress"), Message("Amount", Coin_Unmarshal)>>

MsgBurnResponse_Marshal(m) == <<>>
MsgBurnResponse_Unmarshal == <<>>

-----------------------------------------------------------------------------
(* query.pb.go *)

QueryParamsRequest_Marshal(m) == <<>>
QueryParamsRequest_Unmarshal == <<>>

QueryParamsResponse_Type == [Params : Params_Type]
QueryParamsResponse_Zero == [Params |-> Params_Zero]
QueryParamsResponse_Marshal(m) == PutBytes(1, Params_Marshal(m.Params), <<>>)
QueryParamsResponse_Size(m) == SizeBytes(Params_Size(m.Params))
QueryParamsResponse_Unmarshal == <<Message("Params", Params_Unmarshal)>>

QueryBurnStatsRequest_Marshal(m) == <<>>
QueryBurnStatsRequest_Unmarshal == <<>>

QueryBurnStatsResponse_Type == [TotalBurns : Word, TotalBurned : Strings]
QueryBurnStatsResponse_Zero == [TotalBurns |-> 0, TotalBurned |-> <<>>]
QueryBurnStatsResponse_Marshal(m) ==
  PutUint64(1, m.TotalBurns, PutString(2, m.TotalBurned, <<>>))
QueryBurnStatsResponse_Size(m) == SizeUint64(m.TotalBurns) + SizeString(m.TotalBurned)
QueryBurnStatsResponse_Unmarshal == <<Uint64("TotalBurns"), String("TotalBurned")>>

QueryAccountBurnsRequest_Type == [Address : Strings]
QueryAccountBurnsRequest_Zero == [Address |-> <<>>]
QueryAccountBurnsRequest_Marshal(m) == PutString(1, m.Address, <<>>)
QueryAccountBurnsRequest_Size(m) == SizeString(m.Address)
QueryAccountBurnsRequest_Unmarshal == <<String("Address")>>

QueryAccountBurnsResponse_Type == [Amount : Strings]
QueryAccountBurnsResponse_Zero == [Amount |-> <<>>]
QueryAccountBurnsResponse_Marshal(m) == PutString(1, m.Amount, <<>>)
QueryAccountBurnsResponse_Size(m) == SizeString(m.Amount)
QueryAccountBurnsResponse_Unmarshal == <<String("Amount")>>
=============================================================================
