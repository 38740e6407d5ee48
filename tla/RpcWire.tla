------------------------------ MODULE RpcWire ------------------------------
(***************************************************************************)
(* Messages of x/burn and x/validator in flight between a client, the gRPC *)
(* handlers and the parameter stores, encoded and decoded by the generated *)
(* code.  One message is in flight at a time; before it is decoded its     *)
(* bytes may be cut short, gain a field from a newer schema, be followed   *)
(* by a second encoding, or be no encoding at all.                         *)
(***************************************************************************)
EXTENDS SdkCodec

B == INSTANCE BurnCodec
V == INSTANCE ValidatorCodec

CONSTANTS
  Messages,        \* type name -> the values of that type that are sent
  UnknownFields,   \* fields that no message has
  RawTypes,        \* the types that raw bytes are decoded as
  RawBytes,        \* the bytes they are made of
  MaxRaw,          \* and their number
  Authority,       \* the address that governance signs with
  BondDenom,       \* sdk.DefaultBondDenom
  DecOne           \* LegacyOneDec, in units of the last digit

VARIABLES
  type,      \* the type of the message in flight, or "none"
  sent,      \* the messages whose encodings the bytes are
  wire,      \* its bytes
  fate,      \* what happened to them
  got,       \* what Unmarshal made of them
  store,     \* the Params item of each module, as bytes
  accepted   \* the parameters each UpdateParams set last (history)

vars == <<type, sent, wire, fate, got, store, accepted>>

-----------------------------------------------------------------------------
(* The generated functions by type name.                                   *)

TypeNames ==
  {"burn.Params", "burn.AccountBurnRecord",
   "burn.GenesisState", "burn.MsgUpdateParams",
   "burn.MsgUpdateParamsResponse", "burn.MsgBurn",
   "burn.MsgBurnResponse", "burn.QueryParamsRequest",
   "burn.QueryParamsResponse", "burn.QueryBurnStatsRequest",
   "burn.QueryBurnStatsResponse", "burn.QueryAccountBurnsRequest",
   "burn.QueryAccountBurnsResponse", "validator.Params",
   "validator.GenesisState", "validator.MsgRegisterValidator",
   "validator.MsgRegisterValidatorResponse", "validator.MsgUpdateParams",
   "validator.MsgUpdateParamsResponse", "validator.QueryParamsRequest",
   "validator.QueryParamsResponse"}

NoFields == [none |-> <<>>]

\* The values that a variable of the Go type can have.
MsgType(T) ==
  CASE T = "burn.Params"                    -> B!Params_Type
    [] T = "burn.AccountBurnRecord"         -> B!AccountBurnRecord_Type
    [] T = "burn.GenesisState"              -> B!GenesisState_Type
    [] T = "burn.MsgUpdateParams"           -> B!MsgUpdateParams_Type
    [] T = "burn.MsgBurn"                   -> B!MsgBurn_Type
    [] T = "burn.QueryParamsResponse"       -> B!QueryParamsResponse_Type
    [] T = "burn.QueryBurnStatsResponse"    -> B!QueryBurnStatsResponse_Type
    [] T = "burn.QueryAccountBurnsRequest"  -> B!QueryAccountBurnsRequest_Type
    [] T = "burn.QueryAccountBurnsResponse" -> B!QueryAccountBurnsResponse_Type
    [] T = "validator.Params"               -> V!Params_Type
    [] T = "validator.GenesisState"         -> V!GenesisState_Type
    [] T = "validator.MsgRegisterValidator" -> V!MsgRegisterValidator_Type
    [] T = "validator.MsgUpdateParams"      -> V!MsgUpdateParams_Type
    [] T = "validator.QueryParamsResponse"  -> V!QueryParamsResponse_Type
    [] OTHER                                -> {NoFields}

Zero(T) ==
  CASE T = "burn.Params"                     -> B!Params_Zero
    [] T = "burn.AccountBurnRecord"          -> B!AccountBurnRecord_Zero
    [] T = "burn.GenesisState"               -> B!GenesisState_Zero
    [] T = "burn.MsgUpdateParams"            -> B!MsgUpdateParams_Zero
    [] T = "burn.MsgBurn"                    -> B!MsgBurn_Zero
    [] T = "burn.QueryParamsResponse"        -> B!QueryParamsResponse_Zero
    [] T = "burn.QueryBurnStatsResponse"     -> B!QueryBurnStatsResponse_Zero
    [] T = "burn.QueryAccountBurnsRequest"   -> B!QueryAccountBurnsRequest_Zero
    [] T = "burn.QueryAccountBurnsResponse"  -> B!QueryAccountBurnsResponse_Zero
    [] T = "validator.Params"                -> V!Params_Zero
    [] T = "validator.GenesisState"          -> V!GenesisState_Zero
    [] T = "validator.MsgRegisterValidator"  -> V!MsgRegisterValidator_Zero
    [] T = "validator.MsgUpdateParams"       -> V!MsgUpdateParams_Zero
    [] T = "validator.QueryParamsResponse"   -> V!QueryParamsResponse_Zero
    [] OTHER                                 -> NoFields

Encode(T, m) ==
  CASE T = "burn.Params"                     -> Marshal(B!Params_Size(m), B!Params_Marshal(m))
    [] T = "burn.AccountBurnRecord"          -> Marshal(B!AccountBurnRecord_Size(m), B!AccountBurnRecord_Marshal(m))
    [] T = "burn.GenesisState"               -> Marshal(B!GenesisState_Size(m), B!GenesisState_Marshal(m))
    [] T = "burn.MsgUpdateParams"            -> Marshal(B!MsgUpdateParams_Size(m), B!MsgUpdateParams_Marshal(m))
    [] T = "burn.MsgUpdateParamsResponse"    -> Marshal(0, B!MsgUpdateParamsResponse_Marshal(m))
    [] T = "burn.MsgBurn"                    -> Marshal(B!MsgBurn_Size(m), B!MsgBurn_Marshal(m))
    [] T = "burn.MsgBurnResponse"            -> Marshal(0, B!MsgBurnResponse_Marshal(m))
    [] T = "burn.QueryParamsRequest"         -> Marshal(0, B!QueryParamsRequest_Marshal(m))
    [] T = "burn.QueryParamsResponse"        -> Marshal(B!QueryParamsResponse_Size(m), B!QueryParamsResponse_Marshal(m))
    [] T = "burn.QueryBurnStatsRequest"      -> Marshal(0, B!QueryBurnStatsRequest_Marshal(m))
    [] T = "burn.QueryBurnStatsResponse"     -> Marshal(B!QueryBurnStatsResponse_Size(m), B!QueryBurnStatsResponse_Marshal(m))
    [] T = "burn.QueryAccountBurnsRequest"   -> Marshal(B!QueryAccountBurnsRequest_Size(m), B!QueryAccountBurnsRequest_Marshal(m))
    [] T = "burn.QueryAccountBurnsResponse"  -> Marshal(B!QueryAccountBurnsResponse_Size(m), B!QueryAccountBurnsResponse_Marshal(m))
    [] T = "validator.Params"                -> Marshal(V!Params_Size(m), V!Params_Marshal(m))
    [] T = "validator.GenesisState"          -> Marshal(V!GenesisState_Size(m), V!GenesisState_Marshal(m))
    [] T = "validator.MsgRegisterValidator"  -> Marshal(V!MsgRegisterValidator_Size(m), V!MsgRegisterValidator_Marshal(m))
    [] T = "validator.MsgRegisterValidatorResponse" -> Marshal(0, V!MsgRegisterValidatorResponse_Marshal(m))
    [] T = "validator.MsgUpdateParams"       -> Marshal(V!MsgUpdateParams_Size(m), V!MsgUpdateParams_Marshal(m))
    [] T = "validator.MsgUpdateParamsResponse" -> Marshal(0, V!MsgUpdateParamsResponse_Marshal(m))
    [] T = "validator.QueryParamsRequest"    -> Marshal(0, V!QueryParamsRequest_Marshal(m))
    [] T = "validator.QueryParamsResponse"   -> Marshal(V!QueryParamsResponse_Size(m), V!QueryParamsResponse_Marshal(m))

\* Unmarshal into a new message, as codec.Unmarshal and the handlers' dec do.
\* The cases of each Unmarshal's switch.
Cases(T) ==
  CASE T = "burn.Params"                     -> B!Params_Unmarshal
    [] T = "burn.AccountBurnRecord"          -> B!AccountBurnRecord_Unmarshal
    [] T = "burn.GenesisState"               -> B!GenesisState_Unmarshal
    [] T = "burn.MsgUpdateParams"            -> B!MsgUpdateParams_Unmarshal
    [] T = "burn.MsgUpdateParamsResponse"    -> B!MsgUpdateParamsResponse_Unmarshal
    [] T = "burn.MsgBurn"                    -> B!MsgBurn_Unmarshal
    [] T = "burn.MsgBurnResponse"            -> B!MsgBurnResponse_Unmarshal
    [] T = "burn.QueryParamsRequest"         -> B!QueryParamsRequest_Unmarshal
    [] T = "burn.QueryParamsResponse"        -> B!QueryParamsResponse_Unmarshal
    [] T = "burn.QueryBurnStatsRequest"      -> B!QueryBurnStatsRequest_Unmarshal
    [] T = "burn.QueryBurnStatsResponse"     -> B!QueryBurnStatsResponse_Unmarshal
    [] T = "burn.QueryAccountBurnsRequest"   -> B!QueryAccountBurnsRequest_Unmarshal
    [] T = "burn.QueryAccountBurnsResponse"  -> B!QueryAccountBurnsResponse_Unmarshal
    [] T = "validator.Params"                -> V!Params_Unmarshal
    [] T = "validator.GenesisState"          -> V!GenesisState_Unmarshal
    [] T = "validator.MsgRegisterValidator"  -> V!MsgRegisterValidator_Unmarshal
    [] T = "validator.MsgRegisterValidatorResponse" -> V!MsgRegisterValidatorResponse_Unmarshal
    [] T = "validator.MsgUpdateParams"       -> V!MsgUpdateParams_Unmarshal
    [] T = "validator.MsgUpdateParamsResponse" -> V!MsgUpdateParamsResponse_Unmarshal
    [] T = "validator.QueryParamsRequest"    -> V!QueryParamsRequest_Unmarshal
    [] T = "validator.QueryParamsResponse"   -> V!QueryParamsResponse_Unmarshal

Decode(T, bz) == Unmarshal(Cases(T), Zero(T), bz)

-----------------------------------------------------------------------------
(* The methods: which message a method's client sends and its handler      *)
(* decodes, and which one the client reads back.                           *)

BurnMsgService ==
  {<<"burn.MsgUpdateParams", "burn.MsgUpdateParamsResponse">>,
   <<"burn.MsgBurn", "burn.MsgBurnResponse">>}

BurnQueryService ==
  {<<"burn.QueryParamsRequest", "burn.QueryParamsResponse">>,
   <<"burn.QueryBurnStatsRequest", "burn.QueryBurnStatsResponse">>,
   <<"burn.QueryAccountBurnsRequest", "burn.QueryAccountBurnsResponse">>}

ValidatorMsgService ==
  {<<"validator.MsgRegisterValidator", "validator.MsgRegisterValidatorResponse">>,
   <<"validator.MsgUpdateParams", "validator.MsgUpdateParamsResponse">>}

ValidatorQueryService ==
  {<<"validator.QueryParamsRequest", "validator.QueryParamsResponse">>}

Methods == BurnMsgService \cup BurnQueryService \cup ValidatorMsgService \cup ValidatorQueryService

Response(T) == CHOOSE response \in TypeNames : <<T, response>> \in Methods

\* Mutant of validateFeeBurnPercent: no check for nil.
validateFeeBurnPercentNil(p) ==
  p.FeeBurnPercent # Nil =>
    p.FeeBurnPercent[1] >= 0 /\ p.FeeBurnPercent[1] <= DecOne

\* x/burn Params.Validate.
validateFeeBurnPercent(p) ==
  /\ p.FeeBurnPercent # Nil
  /\ p.FeeBurnPercent[1] >= 0 /\ p.FeeBurnPercent[1] <= DecOne

\* x/validator Params.Validate, of each of its two coins.
validateCoinParam(c) == Coin_Validate(c) /\ (c.Amount[1] = 0 \/ c.Denom = BondDenom)
validateValidatorParams(p) ==
  validateCoinParam(p.ValidatorRegistrationBurn) /\ validateCoinParam(p.ValidatorMinSelfDelegation)

ModuleOf(T) == IF T \in {"burn.MsgUpdateParams", "burn.QueryParamsRequest"}
               THEN "burn" ELSE "validator"
ParamsType(mod) == IF mod = "burn" THEN "burn.Params" ELSE "validator.Params"
validateParams(mod, p) ==
  IF mod = "burn" THEN validateFeeBurnPercent(p) ELSE validateValidatorParams(p)

DefaultParams ==
  LET zero == [Denom |-> BondDenom, Amount |-> <<0>>]
  IN [burn      |-> [FeeBurnPercent |-> <<0>>],
      validator |-> [ValidatorRegistrationBurn |-> zero, ValidatorMinSelfDelegation |-> zero]]

ASSUME WireAssumption ==
  /\ DOMAIN Messages = TypeNames /\ \A T \in TypeNames : Messages[T] \subseteq MsgType(T)
  /\ RawTypes \subseteq TypeNames /\ RawBytes \subseteq Byte
  /\ \A f \in UnknownFields :
       IsWireField(f) /\ \A T \in TypeNames : f[1].num \notin DOMAIN Cases(T)
  /\ BondDenom \in Strings
  /\ \A mod \in DOMAIN DefaultParams : Fits(Encode(ParamsType(mod), DefaultParams[mod]).bz)

-----------------------------------------------------------------------------
Unread == [st |-> "none"]
Idle == type = "none"
InFlight == type # "none" /\ got = Unread
IsRead == type # "none" /\ got # Unread

Init ==
  /\ type = "none" /\ sent = <<>> /\ wire = <<>> /\ fate = "intact" /\ got = Unread
  /\ accepted = DefaultParams
  /\ store = [mod \in DOMAIN DefaultParams |-> Encode(ParamsType(mod), DefaultParams[mod]).bz]

\* Put a message on the wire; like every []byte it has a length that is an int.
Send(T, m) ==
  LET out == Encode(T, m)
  IN /\ Fits(out.bz)
     /\ type' = T /\ sent' = <<m>> /\ wire' = out.bz /\ fate' = "intact"
     /\ got' = IF out.st = "ok" THEN Unread ELSE [st |-> out.st]

\* A client encodes a request, or a message of any other type is written.
ClientInvoke == /\ Idle
                /\ \E T \in DOMAIN Messages : \E m \in Messages[T] : Send(T, m)
                /\ UNCHANGED <<store, accepted>>

\* Bytes are lost at the end.
Cut == /\ InFlight /\ fate = "intact"
       /\ \E k \in 0..(Len(wire) - 1) : wire' = SubSeq(wire, 1, k)
       /\ fate' = "cut"
       /\ UNCHANGED <<type, sent, got, store, accepted>>

\* The sender's schema has a field that the receiver's has not.
Extend == /\ InFlight /\ fate = "intact"
          /\ \E f \in UnknownFields :
               wire' \in {Tokens_Marshal(f) \o wire, wire \o Tokens_Marshal(f)}
          /\ Fits(wire')
          /\ fate' = "extended"
          /\ UNCHANGED <<type, sent, got, store, accepted>>

\* A second encoding of the type follows.
Concatenate == /\ InFlight /\ fate = "intact" /\ sent # <<>>
               /\ \E m \in Messages[type] :
                    /\ sent' = Append(sent, m)
                    /\ wire' = wire \o Encode(type, m).bz
               /\ Fits(wire')
               /\ fate' = "merged"
               /\ UNCHANGED <<type, got, store, accepted>>

\* Bytes that nobody encoded.
RawByte == /\ \/ Idle /\ type' \in RawTypes
              \/ InFlight /\ fate = "raw" /\ type' = type
           /\ Len(wire) < MaxRaw
           /\ \E b \in RawBytes : wire' = Append(wire, b)
           /\ Fits(wire')
           /\ fate' = "raw" /\ sent' = <<>>
           /\ UNCHANGED <<got, store, accepted>>

\* dec(in): the receiver decodes.
Receive == /\ InFlight
           /\ got' = Decode(type, wire)
           /\ UNCHANGED <<type, sent, wire, fate, store, accepted>>

\* Back to where the next message can be sent.
Discard == /\ IsRead /\ got.st \in {"ok", "err"}
           /\ type' = "none" /\ sent' = <<>> /\ wire' = <<>> /\ fate' = "intact" /\ got' = Unread
           /\ UNCHANGED <<store, accepted>>

IsRequest == IsRead /\ got.st = "ok" /\ \E method \in Methods : type = method[1]

\* msgServer.UpdateParams of either module: on an error the handler returns
\* without having written, which Discard covers.
UpdateParams ==
  /\ IsRequest /\ type \in {"burn.MsgUpdateParams", "validator.MsgUpdateParams"}
  /\ got.m.Authority = Authority
  /\ LET mod == ModuleOf(type)
         bz  == Encode(ParamsType(mod), got.m.Params).bz
     IN /\ validateParams(mod, got.m.Params)
        /\ Fits(bz) /\ store' = [store EXCEPT ![mod] = bz]
        /\ accepted' = [accepted EXCEPT ![mod] = got.m.Params]
  /\ Send(Response(type), NoFields)

\* queryServer.Params of either module: the item is decoded and put in the response.
QueryParams ==
  /\ IsRequest /\ type \in {"burn.QueryParamsRequest", "validator.QueryParamsRequest"}
  /\ LET mod == ModuleOf(type)
         p   == Decode(ParamsType(mod), store[mod])
     IN p.st = "ok" /\ Send(Response(type), [Params |-> p.m])
  /\ UNCHANGED <<store, accepted>>

\* Every other method: its keeper is modelled in BurnKeeper and ValidatorKeeper,
\* here it answers with any message of the response type.
Answer ==
  /\ IsRequest
  /\ type \notin {"burn.MsgUpdateParams", "validator.MsgUpdateParams",
                   "burn.QueryParamsRequest", "validator.QueryParamsRequest"}
  /\ \E m \in Messages[Response(type)] : Send(Response(type), m)
  /\ UNCHANGED <<store, accepted>>

Next == \/ ClientInvoke \/ Cut \/ Extend \/ Concatenate \/ RawByte
        \/ Receive \/ Discard \/ UpdateParams \/ QueryParams \/ Answer

Spec == Init /\ [][Next]_vars

-----------------------------------------------------------------------------
(* Properties.                                                             *)

Modules == {"burn", "validator"}

\* What Unmarshal accepts is a value of the message's Go type, whatever the bytes
\* were, and so are the parameters that a handler stores.
TypeOK ==
  /\ type \in TypeNames \cup {"none"}
  /\ sent \in Seq(MsgType(type))
  /\ wire \in Seq(Byte) /\ Fits(wire)
  /\ fate \in {"intact", "cut", "extended", "merged", "raw"}
  /\ got.st \in Status \cup {"none"}
  /\ got.st = "ok" => got.m \in MsgType(type)
  /\ DOMAIN store = Modules /\ DOMAIN accepted = Modules
  /\ \A mod \in Modules : store[mod] \in Seq(Byte) /\ Fits(store[mod])
  /\ \A mod \in Modules : accepted[mod] \in MsgType(ParamsType(mod))

\* No bytes make the generated decoders index outside the buffer or spin, and no
\* message makes Marshal write outside the buffer that Size measured: the checks
\* for negative lengths, overflowing indexes and short input in *.pb.go.
DecoderNeverPanics == got.st \notin {"panic", "loop"}

\* The protobuf rule for fields that occur again, b's after a's: the last string or
\* counter wins, unless it was left out because it is empty, numbers are always
\* written, nil as zero, messages are merged, and repeated records collected.
Latest(a, b, empty) == IF b = empty THEN a ELSE b
Written(n) == IF n = Nil THEN <<0>> ELSE n

MergedCoin(a, b) == [Denom |-> Latest(a.Denom, b.Denom, <<>>), Amount |-> Written(b.Amount)]
MergedCreateValidator(a, b) ==
  [ValidatorAddress |-> Latest(a.ValidatorAddress, b.ValidatorAddress, <<>>),
   Value |-> MergedCoin(a.Value, b.Value)]
MergedRecord(a, b) == [Address |-> Latest(a.Address, b.Address, <<>>), Total |-> Written(b.Total)]
MergedRecords(a, b) ==
  a \o [k \in 1..Len(b) |-> MergedRecord(B!AccountBurnRecord_Zero, b[k])]
MergedBurnParams(a, b) == [FeeBurnPercent |-> Written(b.FeeBurnPercent)]
MergedValidatorParams(a, b) ==
  [ValidatorRegistrationBurn |-> MergedCoin(a.ValidatorRegistrationBurn, b.ValidatorRegistrationBurn),
   ValidatorMinSelfDelegation |->
     MergedCoin(a.ValidatorMinSelfDelegation, b.ValidatorMinSelfDelegation)]

Merged(T, a, b) ==
  CASE T = "burn.Params" -> MergedBurnParams(a, b)
    [] T = "burn.AccountBurnRecord" -> MergedRecord(a, b)
    [] T = "burn.GenesisState" ->
         [Params |-> MergedBurnParams(a.Params, b.Params), Count |-> Latest(a.Count, b.Count, 0),
          Total |-> Written(b.Total), AccountTotals |-> MergedRecords(a.AccountTotals, b.AccountTotals)]
    [] T = "burn.MsgUpdateParams" ->
         [Authority |-> Latest(a.Authority, b.Authority, <<>>),
          Params |-> MergedBurnParams(a.Params, b.Params)]
    [] T = "burn.MsgBurn" ->
         [FromAddress |-> Latest(a.FromAddress, b.FromAddress, <<>>),
          Amount |-> MergedCoin(a.Amount, b.Amount)]
    [] T = "burn.QueryParamsResponse" -> [Params |-> MergedBurnParams(a.Params, b.Params)]
    [] T = "burn.QueryBurnStatsResponse" ->
         [TotalBurns |-> Latest(a.TotalBurns, b.TotalBurns, 0),
          TotalBurned |-> Latest(a.TotalBurned, b.TotalBurned, <<>>)]
    [] T = "burn.QueryAccountBurnsRequest" -> [Address |-> Latest(a.Address, b.Address, <<>>)]
    [] T = "burn.QueryAccountBurnsResponse" -> [Amount |-> Latest(a.Amount, b.Amount, <<>>)]
    [] T = "validator.Params" -> MergedValidatorParams(a, b)
    [] T = "validator.MsgRegisterValidator" ->
         [Sender |-> Latest(a.Sender, b.Sender, <<>>),
          CreateValidator |-> MergedCreateValidator(a.CreateValidator, b.CreateValidator),
          Burn |-> MergedCoin(a.Burn, b.Burn)]
    [] T = "validator.MsgUpdateParams" ->
         [Authority |-> Latest(a.Authority, b.Authority, <<>>),
          Params |-> MergedValidatorParams(a.Params, b.Params)]
    [] T \in {"validator.GenesisState", "validator.QueryParamsResponse"} ->
         [Params |-> MergedValidatorParams(a.Params, b.Params)]
    [] OTHER -> NoFields

\* A message as the wire can tell it from others: its nil numbers are zeros.
Normalized(T, m) == Merged(T, Zero(T), m)

\* What was encoded is what is decoded, field by field, for every message type:
\* MarshalToSizedBuffer, Size and Unmarshal of *.pb.go agree.
RoundTrip ==
  (IsRead /\ fate = "intact") => got = [st |-> "ok", m |-> Normalized(type, sent[1])]

\* Fields of a newer schema, groups included, are skipped and change nothing: the
\* default case of the Unmarshal switches and skipTx.
UnknownFieldsIgnored ==
  (IsRead /\ fate = "extended") => got = [st |-> "ok", m |-> Normalized(type, sent[1])]

\* Input that ends early is refused, unless it ends between two fields; then each
\* field is as sent or absent, never part of what was sent.
CutLosesWholeFields ==
  (IsRead /\ fate = "cut" /\ got.st = "ok") =>
    LET whole == Normalized(type, sent[1])
    IN \A f \in DOMAIN got.m :
         \/ got.m[f] \in {whole[f], Zero(type)[f]}
         \/ f = "AccountTotals" /\ IsPrefix(got.m[f], whole[f])

\* Two encodings one after the other decode to the merged message: Unmarshal sets,
\* merges or appends to what the fields before left.
ConcatenationMerges ==
  (IsRead /\ fate = "merged") =>
    got = [st |-> "ok", m |-> Merged(type, Normalized(type, sent[1]), sent[2])]

\* Whatever bytes were accepted, encoding the result is a normal form: decoded and
\* encoded again it gives the same bytes, so every node stores and hashes the same.
ReencodingIsStable ==
  (IsRead /\ got.st = "ok") =>
    LET Same(once, again) ==
          once.st = "ok" /\ again.st = "ok" /\ Encode(type, again.m).bz = once.bz
        Again(once) == Fits(once.bz) => Same(once, Decode(type, once.bz))
    IN Again(Encode(type, got.m))

\* The parameters that UpdateParams accepted, from whatever bytes, are those the
\* store gives back: the nil check of Validate keeps out the one value that the
\* encoding cannot tell from another.
StoreKeepsAcceptedParams ==
  \A mod \in DOMAIN store :
    Decode(ParamsType(mod), store[mod]) = [st |-> "ok", m |-> accepted[mod]]
=============================================================================
