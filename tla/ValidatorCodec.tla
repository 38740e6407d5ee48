--------------------------- MODULE ValidatorCodec ---------------------------
(***************************************************************************)
(* The messages of x/validator/types/*.pb.go, as BurnCodec does for x/burn. *)
(***************************************************************************)
EXTENDS SdkCodec

Params_Type == [ValidatorRegistrationBurn : Coin_Type, ValidatorMinSelfDelegation : Coin_Type]
Params_Zero == [ValidatorRegistrationBurn |-> Coin_Zero, ValidatorMinSelfDelegation |-> Coin_Zero]
Params_Marshal(m) ==
  PutBytes(1, Coin_Marshal(m.ValidatorRegistrationBurn),
    PutBytes(2, Coin_Marshal(m.ValidatorMinSelfDelegation), <<>>))
Params_Size(m) ==
  SizeBytes(Coin_Size(m.ValidatorRegistrationBurn)) + SizeBytes(Coin_Size(m.ValidatorMinSelfDelegation))
Params_Unmarshal ==
  <<Message("ValidatorRegistrationBurn", Coin_Unmarshal),
    Message("ValidatorMinSelfDelegation", Coin_Unmarshal)>>

GenesisState_Type == [Params : Params_Type]
GenesisState_Zero == [Params |-> Params_Zero]
GenesisState_Marshal(m) == PutBytes(1, Params_Marshal(m.Params), <<>>)
GenesisState_Size(m) == SizeBytes(Params_Size(m.Params))
GenesisState_Unmarshal == <<Message("Params", Params_Unmarshal)>>

-----------------------------------------------------------------------------
(* tx.pb.go *)

MsgRegisterValidator_Type ==
  [Sender : Strings, CreateValidator : MsgCreateValidator_Type, Burn : Coin_Type]
MsgRegisterValidator_Zero ==
  [Sender |-> <<>>, CreateValidator |-> MsgCreateValidator_Zero, Burn |-> Coin_Zero]
MsgRegisterValidator_Marshal(m) ==
  PutString(1, m.Sender,
    PutBytes(2, MsgCreateValidator_Marshal(m.CreateValidator),
      PutBytes(3, Coin_Marshal(m.Burn), <<>>)))
MsgRegisterValidator_Size(m) ==
  SizeString(m.Sender) + SizeBytes(MsgCreateValidator_Size(m.CreateValidator))
    + SizeBytes(Coin_Size(m.Burn))
MsgRegisterValidator_Unmarshal ==
  <<String("Sender"),
    Message("CreateValidator", MsgCreateValidator_Unmarshal),
    Message("Burn", Coin_Unmarshal)>>

MsgRegisterValidatorResponse_Marshal(m) == <<>>
MsgRegisterValidatorResponse_Unmarshal == <<>>

MsgUpdateParams_Type == [Authority : Strings, Params : Params_Type]
MsgUpdateParams_Zero == [Authority |-> <<>>, Params |-> Params_Zero]
MsgUpdateParams_Marshal(m) ==
  PutString(1, m.Authority, PutBytes(2, Params_Marshal(m.Params), <<>>))
MsgUpdateParams_Size(m) == SizeString(m.Authority) + SizeBytes(Params_Size(m.Params))
MsgUpdateParams_Unmarshal == <<String("Authority"), Message("Params", Params_Unmarshal)>>

MsgUpdateParamsResponse_Marshal(m) == <<>>
MsgUpdateParamsResponse_Unmarshal == <<>>

-----------------------------------------------------------------------------
(* query.pb.go *)

QueryParamsRequest_Marshal(m) == <<>>
QueryParamsRequest_Unmarshal == <<>>

QueryParamsResponse_Type == [Params : Params_Type]
QueryParamsResponse_Zero == [Params |-> Params_Zero]
QueryParamsResponse_Marshal(m) == PutBytes(1, Params_Marshal(m.Params), <<>>)
QueryParamsResponse_Size(m) == SizeBytes(Params_Size(m.Params))
QueryParamsResponse_Unmarshal == <<Message("Params", Params_Unmarshal)>>
=============================================================================
