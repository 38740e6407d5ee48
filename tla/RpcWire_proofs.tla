--------------------------- MODULE RpcWire_proofs ---------------------------
(***************************************************************************)
(* Proofs about the messages on the wire.                                  *)
(***************************************************************************)
EXTENDS RpcWire, ProtoWire_proofs

-----------------------------------------------------------------------------
(* The operators of ProtoWire and SdkCodec are the same in either module's *)
(* instance.                                                               *)

LEMMA BurnOperators ==
  /\ B!Nil = Nil
  /\ B!Word = Word
  /\ B!Strings = Strings
  /\ B!Numbers = Numbers
  /\ B!Coin_Type = Coin_Type
  /\ B!Coin_Zero = Coin_Zero
  /\ B!Coin_Unmarshal = Coin_Unmarshal
  /\ \A v : B!Number_Marshal(v) = Number_Marshal(v)
  /\ \A v : B!Number_Size(v) = Number_Size(v)
  /\ \A num, bz, tail : B!PutBytes(num, bz, tail) = PutBytes(num, bz, tail)
  /\ \A num, s, tail : B!PutString(num, s, tail) = PutString(num, s, tail)
  /\ \A num, v, tail : B!PutUint64(num, v, tail) = PutUint64(num, v, tail)
  /\ \A l : B!SizeBytes(l) = SizeBytes(l)
  /\ \A s : B!SizeString(s) = SizeString(s)
  /\ \A v : B!SizeUint64(v) = SizeUint64(v)
  /\ \A m : B!Coin_Marshal(m) = Coin_Marshal(m)
  /\ \A m : B!Coin_Size(m) = Coin_Size(m)
  /\ \A name : B!String(name) = String(name)
  /\ \A name : B!Uint64(name) = Uint64(name)
  /\ \A name : B!Number(name) = Number(name)
  /\ \A name, fields : B!Message(name, fields) = Message(name, fields)
  /\ \A name, fields, zero : B!Repeated(name, fields, zero) = Repeated(name, fields, zero)
<1>1. B!Pow2 = Pow2 /\ B!Nil = Nil /\ B!Byte = Byte
  BY DEF B!Pow2, Pow2, B!Nil, Nil, B!Byte, Byte
<1>2. B!Word = Word /\ B!Strings = Strings /\ B!Numbers = Numbers
  BY <1>1 DEF B!Word, Word, B!Strings, Strings, B!Numbers, Numbers
<1>3. \A x : B!sov(x) = sov(x)
  BY <1>1 DEF B!sov, sov
<1>4. \A v : B!encodeVarint(v) = encodeVarint(v)
  BY <1>1, <1>3 DEF B!encodeVarint, encodeVarint
<1>5. \A num, wireType : B!Tag(num, wireType) = Tag(num, wireType)
  BY DEF B!Tag, Tag
<1>6. \A n : B!Digits(n) = Digits(n)
  BY DEF B!Digits, Digits
<1>7. \A v : B!Number_Marshal(v) = Number_Marshal(v)
  BY <1>1, <1>6 DEF B!Number_Marshal, Number_Marshal
<1>8. \A v : B!Number_Size(v) = Number_Size(v)
  BY <1>7 DEF B!Number_Size, Number_Size
<1>9. \A num, bz, tail : B!PutBytes(num, bz, tail) = PutBytes(num, bz, tail)
  BY <1>4, <1>5 DEF B!PutBytes, PutBytes
<1>10. \A num, s, tail : B!PutString(num, s, tail) = PutString(num, s, tail)
  BY <1>9 DEF B!PutString, PutString
<1>11. \A num, v, tail : B!PutUint64(num, v, tail) = PutUint64(num, v, tail)
  BY <1>4, <1>5 DEF B!PutUint64, PutUint64
<1>12. \A l : B!SizeBytes(l) = SizeBytes(l)
  BY <1>3 DEF B!SizeBytes, SizeBytes
<1>13. \A s : B!SizeString(s) = SizeString(s)
  BY <1>12 DEF B!SizeString, SizeString
<1>14. \A v : B!SizeUint64(v) = SizeUint64(v)
  BY <1>3 DEF B!SizeUint64, SizeUint64
<1>15. B!Coin_Type = Coin_Type /\ B!Coin_Zero = Coin_Zero
  BY <1>1, <1>2 DEF B!Coin_Type, Coin_Type, B!Coin_Zero, Coin_Zero
<1>16. \A m : B!Coin_Marshal(m) = Coin_Marshal(m)
  BY <1>7, <1>9, <1>10 DEF B!Coin_Marshal, Coin_Marshal
<1>17. \A m : B!Coin_Size(m) = Coin_Size(m)
  BY <1>8, <1>12, <1>13 DEF B!Coin_Size, Coin_Size
<1>18. \A kind, name, fields, zero : B!Field(kind, name, fields, zero) = Field(kind, name, fields, zero)
  BY DEF B!Field, Field
<1>19. \A name : B!String(name) = String(name)
  BY <1>1, <1>18 DEF B!String, String
<1>20. \A name : B!Uint64(name) = Uint64(name)
  BY <1>1, <1>18 DEF B!Uint64, Uint64
<1>21. \A name : B!Number(name) = Number(name)
  BY <1>1, <1>18 DEF B!Number, Number
<1>22. \A name, fields : B!Message(name, fields) = Message(name, fields)
  BY <1>1, <1>18 DEF B!Message, Message
<1>23. \A name, fields, zero : B!Repeated(name, fields, zero) = Repeated(name, fields, zero)
  BY <1>18 DEF B!Repeated, Repeated
<1>24. B!Coin_Unmarshal = Coin_Unmarshal
  BY <1>19, <1>21 DEF B!Coin_Unmarshal, Coin_Unmarshal
<1>. QED
  BY <1>1, <1>2, <1>7, <1>8, <1>9, <1>10, <1>11, <1>12, <1>13, <1>14, <1>15, <1>16, <1>17,
     <1>19, <1>20, <1>21, <1>22, <1>23, <1>24

LEMMA ValidatorOperators ==
  /\ V!Nil = Nil
  /\ V!Word = Word
  /\ V!Strings = Strings
  /\ V!Numbers = Numbers
  /\ V!Coin_Type = Coin_Type
  /\ V!Coin_Zero = Coin_Zero
  /\ V!Coin_Unmarshal = Coin_Unmarshal
  /\ V!MsgCreateValidator_Type = MsgCreateValidator_Type
  /\ V!MsgCreateValidator_Zero = MsgCreateValidator_Zero
  /\ V!MsgCreateValidator_Unmarshal = MsgCreateValidator_Unmarshal
  /\ \A v : V!Number_Marshal(v) = Number_Marshal(v)
  /\ \A v : V!Number_Size(v) = Number_Size(v)
  /\ \A num, bz, tail : V!PutBytes(num, bz, tail) = PutBytes(num, bz, tail)
  /\ \A num, s, tail : V!PutString(num, s, tail) = PutString(num, s, tail)
  /\ \A num, v, tail : V!PutUint64(num, v, tail) = PutUint64(num, v, tail)
  /\ \A l : V!SizeBytes(l) = SizeBytes(l)
  /\ \A s : V!SizeString(s) = SizeString(s)
  /\ \A v : V!SizeUint64(v) = SizeUint64(v)
  /\ \A m : V!Coin_Marshal(m) = Coin_Marshal(m)
  /\ \A m : V!Coin_Size(m) = Coin_Size(m)
  /\ \A m : V!MsgCreateValidator_Marshal(m) = MsgCreateValidator_Marshal(m)
  /\ \A m : V!MsgCreateValidator_Size(m) = MsgCreateValidator_Size(m)
  /\ \A name : V!String(name) = String(name)
  /\ \A name : V!Uint64(name) = Uint64(name)
  /\ \A name : V!Number(name) = Number(name)
  /\ \A name, fields : V!Message(name, fields) = Message(name, fields)
  /\ \A name, fields, zero : V!Repeated(name, fields, zero) = Repeated(name, fields, zero)
<1>1. V!Pow2 = Pow2 /\ V!Nil = Nil /\ V!Byte = Byte
  BY DEF V!Pow2, Pow2, V!Nil, Nil, V!Byte, Byte
<1>2. V!Word = Word /\ V!Strings = Strings /\ V!Numbers = Numbers
  BY <1>1 DEF V!Word, Word, V!Strings, Strings, V!Numbers, Numbers
<1>3. \A x : V!sov(x) = sov(x)
  BY <1>1 DEF V!sov, sov
<1>4. \A v : V!encodeVarint(v) = encodeVarint(v)
  BY <1>1, <1>3 DEF V!encodeVarint, encodeVarint
<1>5. \A num, wireType : V!Tag(num, wireType) = Tag(num, wireType)
  BY DEF V!Tag, Tag
<1>6. \A n : V!Digits(n) = Digits(n)
  BY DEF V!Digits, Digits
<1>7. \A v : V!Number_Marshal(v) = Number_Marshal(v)
  BY <1>1, <1>6 DEF V!Number_Marshal, Number_Marshal
<1>8. \A v : V!Number_Size(v) = Number_Size(v)
  BY <1>7 DEF V!Number_Size, Number_Size
<1>9. \A num, bz, tail : V!PutBytes(num, bz, tail) = PutBytes(num, bz, tail)
  BY <1>4, <1>5 DEF V!PutBytes, PutBytes
<1>10. \A num, s, tail : V!PutString(num, s, tail) = PutString(num, s, tail)
  BY <1>9 DEF V!PutString, PutString
<1>11. \A num, v, tail : V!PutUint64(num, v, tail) = PutUint64(num, v, tail)
  BY <1>4, <1>5 DEF V!PutUint64, PutUint64
<1>12. \A l : V!SizeBytes(l) = SizeBytes(l)
  BY <1>3 DEF V!SizeBytes, SizeBytes
<1>13. \A s : V!SizeString(s) = SizeString(s)
  BY <1>12 DEF V!SizeString, SizeString
<1>14. \A v : V!SizeUint64(v) = SizeUint64(v)
  BY <1>3 DEF V!SizeUint64, SizeUint64
<1>15. V!Coin_Type = Coin_Type /\ V!Coin_Zero = Coin_Zero
  BY <1>1, <1>2 DEF V!Coin_Type, Coin_Type, V!Coin_Zero, Coin_Zero
<1>16. \A m : V!Coin_Marshal(m) = Coin_Marshal(m)
  BY <1>7, <1>9, <1>10 DEF V!Coin_Marshal, Coin_Marshal
<1>17. \A m : V!Coin_Size(m) = Coin_Size(m)
  BY <1>8, <1>12, <1>13 DEF V!Coin_Size, Coin_Size
<1>18. \A kind, name, fields, zero : V!Field(kind, name, fields, zero) = Field(kind, name, fields, zero)
  BY DEF V!Field, Field
<1>19. \A name : V!String(name) = String(name)
  BY <1>1, <1>18 DEF V!String, String
<1>20. \A name : V!Uint64(name) = Uint64(name)
  BY <1>1, <1>18 DEF V!Uint64, Uint64
<1>21. \A name : V!Number(name) = Number(name)
  BY <1>1, <1>18 DEF V!Number, Number
<1>22. \A name, fields : V!Message(name, fields) = Message(name, fields)
  BY <1>1, <1>18 DEF V!Message, Message
<1>23. \A name, fields, zero : V!Repeated(name, fields, zero) = Repeated(name, fields, zero)
  BY <1>18 DEF V!Repeated, Repeated
<1>24. V!Coin_Unmarshal = Coin_Unmarshal
  BY <1>19, <1>21 DEF V!Coin_Unmarshal, Coin_Unmarshal
<1>25. V!MsgCreateValidator_Type = MsgCreateValidator_Type /\ V!MsgCreateValidator_Zero = MsgCreateValidator_Zero
  BY <1>2, <1>15 DEF V!MsgCreateValidator_Type, MsgCreateValidator_Type,
     V!MsgCreateValidator_Zero, MsgCreateValidator_Zero
<1>26. \A m : V!MsgCreateValidator_Marshal(m) = MsgCreateValidator_Marshal(m)
  BY <1>10, <1>9, <1>16 DEF V!MsgCreateValidator_Marshal, MsgCreateValidator_Marshal
<1>27. \A m : V!MsgCreateValidator_Size(m) = MsgCreateValidator_Size(m)
  BY <1>13, <1>12, <1>17 DEF V!MsgCreateValidator_Size, MsgCreateValidator_Size
<1>28. V!MsgCreateValidator_Unmarshal = MsgCreateValidator_Unmarshal
  BY <1>19, <1>22, <1>24 DEF V!MsgCreateValidator_Unmarshal, MsgCreateValidator_Unmarshal
<1>. QED
  BY <1>1, <1>2, <1>7, <1>8, <1>9, <1>10, <1>11, <1>12, <1>13, <1>14, <1>15, <1>16, <1>17,
     <1>19, <1>20, <1>21, <1>22, <1>23, <1>24, <1>25, <1>26, <1>27, <1>28

-----------------------------------------------------------------------------
(* Marshal: Size is exact, so its buffer is never too short.               *)

Measured(bz, size) == bz \in Seq(Byte) /\ Len(bz) = size

LEMMA EmptyMeasured == Measured(<<>>, 0)
BY DEF Measured

LEMMA BytesMeasured ==
  ASSUME NEW num \in 1..31, NEW bz, NEW l, Measured(bz, l), NEW tail, NEW t, Measured(tail, t)
  PROVE  Measured(PutBytes(num, bz, tail), SizeBytes(l) + t) /\ SizeBytes(l) \in Nat
BY PutBytesSize DEF Measured

LEMMA StringMeasured ==
  ASSUME NEW num \in 1..31, NEW s \in Strings, NEW tail, NEW t, Measured(tail, t)
  PROVE  Measured(PutString(num, s, tail), SizeString(s) + t) /\ SizeString(s) \in Nat
BY PutStringSize DEF Measured, Strings

LEMMA Uint64Measured ==
  ASSUME NEW num \in 1..31, NEW v \in Word, NEW tail, NEW t, Measured(tail, t)
  PROVE  Measured(PutUint64(num, v, tail), SizeUint64(v) + t) /\ SizeUint64(v) \in Nat
<1>1. v \in Nat
  BY HalfFacts DEF Word
<1>. QED  BY <1>1, PutUint64Size DEF Measured

LEMMA NumberMeasured ==
  ASSUME NEW v \in Numbers
  PROVE  Measured(Number_Marshal(v), Number_Size(v))
BY NumberBytes DEF Measured

\* Only numbers are measured.
LEMMA MeasuredSize ==
  ASSUME NEW bz, NEW size, Measured(bz, size)
  PROVE  size \in Nat
BY DEF Measured

LEMMA CoinMeasured ==
  ASSUME NEW m \in Coin_Type
  PROVE  Measured(Coin_Marshal(m), Coin_Size(m))
<1>1. m.Denom \in Strings /\ m.Amount \in Numbers
  BY DEF Coin_Type
<1>2. Measured(Number_Marshal(m.Amount), Number_Size(m.Amount))
  BY <1>1, NumberMeasured
<1>3. Measured(PutBytes(2, Number_Marshal(m.Amount), <<>>),
              SizeBytes(Number_Size(m.Amount)) + 0) /\ SizeBytes(Number_Size(m.Amount)) \in Nat
  BY <1>2, EmptyMeasured, BytesMeasured
<1>4. Measured(PutString(1, m.Denom, PutBytes(2, Number_Marshal(m.Amount), <<>>)),
              SizeString(m.Denom) + (SizeBytes(Number_Size(m.Amount)) + 0)) /\ SizeString(m.Denom) \in Nat
  BY <1>1, <1>3, StringMeasured
<1>5. SizeString(m.Denom) + (SizeBytes(Number_Size(m.Amount)) + 0) = SizeString(m.Denom) + SizeBytes(Number_Size(m.Amount))
  BY <1>4, <1>3
<1>6. Coin_Marshal(m) = PutString(1, m.Denom, PutBytes(2, Number_Marshal(m.Amount), <<>>))
  BY DEF Coin_Marshal
<1>7. Coin_Size(m) = SizeString(m.Denom) + SizeBytes(Number_Size(m.Amount))
  BY DEF Coin_Size
<1>. QED  BY <1>4, <1>5, <1>6, <1>7

LEMMA MsgCreateValidatorMeasured ==
  ASSUME NEW m \in MsgCreateValidator_Type
  PROVE  Measured(MsgCreateValidator_Marshal(m), MsgCreateValidator_Size(m))
<1>1. m.ValidatorAddress \in Strings /\ m.Value \in Coin_Type
  BY DEF MsgCreateValidator_Type
<1>2. Measured(Coin_Marshal(m.Value), Coin_Size(m.Value))
  BY <1>1, CoinMeasured
<1>3. Measured(PutBytes(7, Coin_Marshal(m.Value), <<>>),
              SizeBytes(Coin_Size(m.Value)) + 0) /\ SizeBytes(Coin_Size(m.Value)) \in Nat
  BY <1>2, EmptyMeasured, BytesMeasured
<1>4. Measured(PutString(5, m.ValidatorAddress, PutBytes(7, Coin_Marshal(m.Value), <<>>)),
              SizeString(m.ValidatorAddress) + (SizeBytes(Coin_Size(m.Value)) + 0)) /\ SizeString(m.ValidatorAddress) \in Nat
  BY <1>1, <1>3, StringMeasured
<1>5. SizeString(m.ValidatorAddress) + (SizeBytes(Coin_Size(m.Value)) + 0) = SizeString(m.ValidatorAddress) + SizeBytes(Coin_Size(m.Value))
  BY <1>4, <1>3
<1>6. MsgCreateValidator_Marshal(m) = PutString(5, m.ValidatorAddress, PutBytes(7, Coin_Marshal(m.Value), <<>>))
  BY DEF MsgCreateValidator_Marshal
<1>7. MsgCreateValidator_Size(m) = SizeString(m.ValidatorAddress) + SizeBytes(Coin_Size(m.Value))
  BY DEF MsgCreateValidator_Size
<1>. QED  BY <1>4, <1>5, <1>6, <1>7

LEMMA BurnParamsMeasured ==
  ASSUME NEW m \in B!Params_Type
  PROVE  Measured(B!Params_Marshal(m), B!Params_Size(m))
<1>1. m.FeeBurnPercent \in Numbers
  BY BurnOperators DEF B!Params_Type
<1>2. Measured(Number_Marshal(m.FeeBurnPercent), Number_Size(m.FeeBurnPercent))
  BY <1>1, NumberMeasured
<1>3. Measured(PutBytes(1, Number_Marshal(m.FeeBurnPercent), <<>>),
              SizeBytes(Number_Size(m.FeeBurnPercent)) + 0) /\ SizeBytes(Number_Size(m.FeeBurnPercent)) \in Nat
  BY <1>2, EmptyMeasured, BytesMeasured
<1>4. SizeBytes(Number_Size(m.FeeBurnPercent)) + 0 = SizeBytes(Number_Size(m.FeeBurnPercent))
  BY <1>3
<1>5. B!Params_Marshal(m) = PutBytes(1, Number_Marshal(m.FeeBurnPercent), <<>>)
  BY BurnOperators DEF B!Params_Marshal
<1>6. B!Params_Size(m) = SizeBytes(Number_Size(m.FeeBurnPercent))
  BY BurnOperators DEF B!Params_Size
<1>. QED  BY <1>3, <1>4, <1>5, <1>6

LEMMA AccountBurnRecordMeasured ==
  ASSUME NEW m \in B!AccountBurnRecord_Type
  PROVE  Measured(B!AccountBurnRecord_Marshal(m), B!AccountBurnRecord_Size(m))
<1>1. m.Address \in Strings /\ m.Total \in Numbers
  BY BurnOperators DEF B!AccountBurnRecord_Type
<1>2. Measured(Number_Marshal(m.Total), Number_Size(m.Total))
  BY <1>1, NumberMeasured
<1>3. Measured(PutBytes(2, Number_Marshal(m.Total), <<>>),
              SizeBytes(Number_Size(m.Total)) + 0) /\ SizeBytes(Number_Size(m.Total)) \in Nat
  BY <1>2, EmptyMeasured, BytesMeasured
<1>4. Measured(PutString(1, m.Address, PutBytes(2, Number_Marshal(m.Total), <<>>)),
              SizeString(m.Address) + (SizeBytes(Number_Size(m.Total)) + 0)) /\ SizeString(m.Address) \in Nat
  BY <1>1, <1>3, StringMeasured
<1>5. SizeString(m.Address) + (SizeBytes(Number_Size(m.Total)) + 0) = SizeString(m.Address) + SizeBytes(Number_Size(m.Total))
  BY <1>4, <1>3
<1>6. B!AccountBurnRecord_Marshal(m) = PutString(1, m.Address, PutBytes(2, Number_Marshal(m.Total), <<>>))
  BY BurnOperators DEF B!AccountBurnRecord_Marshal
<1>7. B!AccountBurnRecord_Size(m) = SizeString(m.Address) + SizeBytes(Number_Size(m.Total))
  BY BurnOperators DEF B!AccountBurnRecord_Size
<1>. QED  BY <1>4, <1>5, <1>6, <1>7

LEMMA BurnMsgUpdateParamsMeasured ==
  ASSUME NEW m \in B!MsgUpdateParams_Type
  PROVE  Measured(B!MsgUpdateParams_Marshal(m), B!MsgUpdateParams_Size(m))
<1>1. m.Authority \in Strings /\ m.Params \in B!Params_Type
  BY BurnOperators DEF B!MsgUpdateParams_Type
<1>2. Measured(B!Params_Marshal(m.Params), B!Params_Size(m.Params))
  BY <1>1, BurnParamsMeasured
<1>3. Measured(PutBytes(2, B!Params_Marshal(m.Params), <<>>),
              SizeBytes(B!Params_Size(m.Params)) + 0) /\ SizeBytes(B!Params_Size(m.Params)) \in Nat
  BY <1>2, EmptyMeasured, BytesMeasured
<1>4. Measured(PutString(1, m.Authority, PutBytes(2, B!Params_Marshal(m.Params), <<>>)),
              SizeString(m.Authority) + (SizeBytes(B!Params_Size(m.Params)) + 0)) /\ SizeString(m.Authority) \in Nat
  BY <1>1, <1>3, StringMeasured
<1>5. SizeString(m.Authority) + (SizeBytes(B!Params_Size(m.Params)) + 0) = SizeString(m.Authority) + SizeBytes(B!Params_Size(m.Params))
  BY <1>4, <1>3
<1>6. B!MsgUpdateParams_Marshal(m) = PutString(1, m.Authority, PutBytes(2, B!Params_Marshal(m.Params), <<>>))
  BY BurnOperators DEF B!MsgUpdateParams_Marshal
<1>7. B!MsgUpdateParams_Size(m) = SizeString(m.Authority) + SizeBytes(B!Params_Size(m.Params))
  BY BurnOperators DEF B!MsgUpdateParams_Size
<1>. QED  BY <1>4, <1>5, <1>6, <1>7

LEMMA MsgBurnMeasured ==
  ASSUME NEW m \in B!MsgBurn_Type
  PROVE  Measured(B!MsgBurn_Marshal(m), B!MsgBurn_Size(m))
<1>1. m.FromAddress \in Strings /\ m.Amount \in Coin_Type
  BY BurnOperators DEF B!MsgBurn_Type
<1>2. Measured(Coin_Marshal(m.Amount), Coin_Size(m.Amount))
  BY <1>1, CoinMeasured
<1>3. Measured(PutBytes(2, Coin_Marshal(m.Amount), <<>>),
              SizeBytes(Coin_Size(m.Amount)) + 0) /\ SizeBytes(Coin_Size(m.Amount)) \in Nat
  BY <1>2, EmptyMeasured, BytesMeasured
<1>4. Measured(PutString(1, m.FromAddress, PutBytes(2, Coin_Marshal(m.Amount), <<>>)),
              SizeString(m.FromAddress) + (SizeBytes(Coin_Size(m.Amount)) + 0)) /\ SizeString(m.FromAddress) \in Nat
  BY <1>1, <1>3, StringMeasured
<1>5. SizeString(m.FromAddress) + (SizeBytes(Coin_Size(m.Amount)) + 0) = SizeString(m.FromAddress) + SizeBytes(Coin_Size(m.Amount))
  BY <1>4, <1>3
<1>6. B!MsgBurn_Marshal(m) = PutString(1, m.FromAddress, PutBytes(2, Coin_Marshal(m.Amount), <<>>))
  BY BurnOperators DEF B!MsgBurn_Marshal
<1>7. B!MsgBurn_Size(m) = SizeString(m.FromAddress) + SizeBytes(Coin_Size(m.Amount))
  BY BurnOperators DEF B!MsgBurn_Size
<1>. QED  BY <1>4, <1>5, <1>6, <1>7

LEMMA BurnQueryParamsResponseMeasured ==
  ASSUME NEW m \in B!QueryParamsResponse_Type
  PROVE  Measured(B!QueryParamsResponse_Marshal(m), B!QueryParamsResponse_Size(m))
<1>1. m.Params \in B!Params_Type
  BY BurnOperators DEF B!QueryParamsResponse_Type
<1>2. Measured(B!Params_Marshal(m.Params), B!Params_Size(m.Params))
  BY <1>1, BurnParamsMeasured
<1>3. Measured(PutBytes(1, B!Params_Marshal(m.Params), <<>>),
              SizeBytes(B!Params_Size(m.Params)) + 0) /\ SizeBytes(B!Params_Size(m.Params)) \in Nat
  BY <1>2, EmptyMeasured, BytesMeasured
<1>4. SizeBytes(B!Params_Size(m.Params)) + 0 = SizeBytes(B!Params_Size(m.Params))
  BY <1>3
<1>5. B!QueryParamsResponse_Marshal(m) = PutBytes(1, B!Params_Marshal(m.Params), <<>>)
  BY BurnOperators DEF B!QueryParamsResponse_Marshal
<1>6. B!QueryParamsResponse_Size(m) = SizeBytes(B!Params_Size(m.Params))
  BY BurnOperators DEF B!QueryParamsResponse_Size
<1>. QED  BY <1>3, <1>4, <1>5, <1>6

LEMMA QueryBurnStatsResponseMeasured ==
  ASSUME NEW m \in B!QueryBurnStatsResponse_Type
  PROVE  Measured(B!QueryBurnStatsResponse_Marshal(m), B!QueryBurnStatsResponse_Size(m))
<1>1. m.TotalBurns \in Word /\ m.TotalBurned \in Strings
  BY BurnOperators DEF B!QueryBurnStatsResponse_Type
<1>2. Measured(PutString(2, m.TotalBurned, <<>>),
              SizeString(m.TotalBurned) + 0) /\ SizeString(m.TotalBurned) \in Nat
  BY <1>1, EmptyMeasured, StringMeasured
<1>3. Measured(PutUint64(1, m.TotalBurns, PutString(2, m.TotalBurned, <<>>)),
              SizeUint64(m.TotalBurns) + (SizeString(m.TotalBurned) + 0)) /\ SizeUint64(m.TotalBurns) \in Nat
  BY <1>1, <1>2, Uint64Measured
<1>4. SizeUint64(m.TotalBurns) + (SizeString(m.TotalBurned) + 0) = SizeUint64(m.TotalBurns) + SizeString(m.TotalBurned)
  BY <1>3, <1>2
<1>5. B!QueryBurnStatsResponse_Marshal(m) = PutUint64(1, m.TotalBurns, PutString(2, m.TotalBurned, <<>>))
  BY BurnOperators DEF B!QueryBurnStatsResponse_Marshal
<1>6. B!QueryBurnStatsResponse_Size(m) = SizeUint64(m.TotalBurns) + SizeString(m.TotalBurned)
  BY BurnOperators DEF B!QueryBurnStatsResponse_Size
<1>. QED  BY <1>3, <1>4, <1>5, <1>6

LEMMA QueryAccountBurnsRequestMeasured ==
  ASSUME NEW m \in B!QueryAccountBurnsRequest_Type
  PROVE  Measured(B!QueryAccountBurnsRequest_Marshal(m), B!QueryAccountBurnsRequest_Size(m))
<1>1. m.Address \in Strings
  BY BurnOperators DEF B!QueryAccountBurnsRequest_Type
<1>2. 1 \in 1..31
  OBVIOUS
<1>3. Measured(PutString(1, m.Address, <<>>),
              SizeString(m.Address) + 0) /\ SizeString(m.Address) \in Nat
  BY <1>1, <1>2, EmptyMeasured, StringMeasured, Zenon
<1>4. SizeString(m.Address) + 0 = SizeString(m.Address)
  BY <1>3
<1>5. B!QueryAccountBurnsRequest_Marshal(m) = PutString(1, m.Address, <<>>)
  BY BurnOperators DEF B!QueryAccountBurnsRequest_Marshal
<1>6. B!QueryAccountBurnsRequest_Size(m) = SizeString(m.Address)
  BY BurnOperators DEF B!QueryAccountBurnsRequest_Size
<1>. QED  BY <1>3, <1>4, <1>5, <1>6

LEMMA QueryAccountBurnsResponseMeasured ==
  ASSUME NEW m \in B!QueryAccountBurnsResponse_Type
  PROVE  Measured(B!QueryAccountBurnsResponse_Marshal(m), B!QueryAccountBurnsResponse_Size(m))
<1>1. m.Amount \in Strings
  BY BurnOperators DEF B!QueryAccountBurnsResponse_Type
<1>2. 1 \in 1..31
  OBVIOUS
<1>3. Measured(PutString(1, m.Amount, <<>>),
              SizeString(m.Amount) + 0) /\ SizeString(m.Amount) \in Nat
  BY <1>1, <1>2, EmptyMeasured, StringMeasured, Zenon
<1>4. SizeString(m.Amount) + 0 = SizeString(m.Amount)
  BY <1>3
<1>5. B!QueryAccountBurnsResponse_Marshal(m) = PutString(1, m.Amount, <<>>)
  BY BurnOperators DEF B!QueryAccountBurnsResponse_Marshal
<1>6. B!QueryAccountBurnsResponse_Size(m) = SizeString(m.Amount)
  BY BurnOperators DEF B!QueryAccountBurnsResponse_Size
<1>. QED  BY <1>3, <1>4, <1>5, <1>6

LEMMA ValidatorParamsMeasured ==
  ASSUME NEW m \in V!Params_Type
  PROVE  Measured(V!Params_Marshal(m), V!Params_Size(m))
<1>1. m.ValidatorRegistrationBurn \in Coin_Type /\ m.ValidatorMinSelfDelegation \in Coin_Type
  BY ValidatorOperators DEF V!Params_Type
<1>2. Measured(Coin_Marshal(m.ValidatorMinSelfDelegation), Coin_Size(m.ValidatorMinSelfDelegation))
  BY <1>1, CoinMeasured
<1>3. Measured(PutBytes(2, Coin_Marshal(m.ValidatorMinSelfDelegation), <<>>),
              SizeBytes(Coin_Size(m.ValidatorMinSelfDelegation)) + 0) /\ SizeBytes(Coin_Size(m.ValidatorMinSelfDelegation)) \in Nat
  BY <1>2, EmptyMeasured, BytesMeasured
<1>4. Measured(Coin_Marshal(m.ValidatorRegistrationBurn), Coin_Size(m.ValidatorRegistrationBurn))
  BY <1>1, CoinMeasured
<1>5. Measured(PutBytes(1, Coin_Marshal(m.ValidatorRegistrationBurn), PutBytes(2, Coin_Marshal(m.ValidatorMinSelfDelegation), <<>>)),
              SizeBytes(Coin_Size(m.ValidatorRegistrationBurn)) + (SizeBytes(Coin_Size(m.ValidatorMinSelfDelegation)) + 0)) /\ SizeBytes(Coin_Size(m.ValidatorRegistrationBurn)) \in Nat
  BY <1>4, <1>3, BytesMeasured
<1>6. SizeBytes(Coin_Size(m.ValidatorRegistrationBurn)) + (SizeBytes(Coin_Size(m.ValidatorMinSelfDelegation)) + 0) = SizeBytes(Coin_Size(m.ValidatorRegistrationBurn)) + SizeBytes(Coin_Size(m.ValidatorMinSelfDelegation))
  BY <1>5, <1>3
<1>7. V!Params_Marshal(m) = PutBytes(1, Coin_Marshal(m.ValidatorRegistrationBurn), PutBytes(2, Coin_Marshal(m.ValidatorMinSelfDelegation), <<>>))
  BY ValidatorOperators DEF V!Params_Marshal
<1>8. V!Params_Size(m) = SizeBytes(Coin_Size(m.ValidatorRegistrationBurn)) + SizeBytes(Coin_Size(m.ValidatorMinSelfDelegation))
  BY ValidatorOperators DEF V!Params_Size
<1>. QED  BY <1>5, <1>6, <1>7, <1>8

LEMMA ValidatorGenesisStateMeasured ==
  ASSUME NEW m \in V!GenesisState_Type
  PROVE  Measured(V!GenesisState_Marshal(m), V!GenesisState_Size(m))
<1>1. m.Params \in V!Params_Type
  BY ValidatorOperators DEF V!GenesisState_Type
<1>2. Measured(V!Params_Marshal(m.Params), V!Params_Size(m.Params))
  BY <1>1, ValidatorParamsMeasured
<1>3. Measured(PutBytes(1, V!Params_Marshal(m.Params), <<>>),
              SizeBytes(V!Params_Size(m.Params)) + 0) /\ SizeBytes(V!Params_Size(m.Params)) \in Nat
  BY <1>2, EmptyMeasured, BytesMeasured
<1>4. SizeBytes(V!Params_Size(m.Params)) + 0 = SizeBytes(V!Params_Size(m.Params))
  BY <1>3
<1>5. V!GenesisState_Marshal(m) = PutBytes(1, V!Params_Marshal(m.Params), <<>>)
  BY ValidatorOperators DEF V!GenesisState_Marshal
<1>6. V!GenesisState_Size(m) = SizeBytes(V!Params_Size(m.Params))
  BY ValidatorOperators DEF V!GenesisState_Size
<1>. QED  BY <1>3, <1>4, <1>5, <1>6

LEMMA MsgRegisterValidatorMeasured ==
  ASSUME NEW m \in V!MsgRegisterValidator_Type
  PROVE  Measured(V!MsgRegisterValidator_Marshal(m), V!MsgRegisterValidator_Size(m))
<1>1. m.Sender \in Strings /\ m.CreateValidator \in MsgCreateValidator_Type /\ m.Burn \in Coin_Type
  BY ValidatorOperators DEF V!MsgRegisterValidator_Type
<1>2. Measured(Coin_Marshal(m.Burn), Coin_Size(m.Burn))
  BY <1>1, CoinMeasured
<1>3. Measured(PutBytes(3, Coin_Marshal(m.Burn), <<>>),
              SizeBytes(Coin_Size(m.Burn)) + 0) /\ SizeBytes(Coin_Size(m.Burn)) \in Nat
  BY <1>2, EmptyMeasured, BytesMeasured
<1>4. Measured(MsgCreateValidator_Marshal(m.CreateValidator), MsgCreateValidator_Size(m.CreateValidator))
  BY <1>1, MsgCreateValidatorMeasured
<1>5. Measured(PutBytes(2, MsgCreateValidator_Marshal(m.CreateValidator), PutBytes(3, Coin_Marshal(m.Burn), <<>>)),
              SizeBytes(MsgCreateValidator_Size(m.CreateValidator)) + (SizeBytes(Coin_Size(m.Burn)) + 0)) /\ SizeBytes(MsgCreateValidator_Size(m.CreateValidator)) \in Nat
  BY <1>4, <1>3, BytesMeasured
<1>6. Measured(PutString(1, m.Sender, PutBytes(2, MsgCreateValidator_Marshal(m.CreateValidator), PutBytes(3, Coin_Marshal(m.Burn), <<>>))),
              SizeString(m.Sender) + (SizeBytes(MsgCreateValidator_Size(m.CreateValidator)) + (SizeBytes(Coin_Size(m.Burn)) + 0))) /\ SizeString(m.Sender) \in Nat
  BY <1>1, <1>5, StringMeasured
<1>7. SizeString(m.Sender) + (SizeBytes(MsgCreateValidator_Size(m.CreateValidator)) + (SizeBytes(Coin_Size(m.Burn)) + 0)) = SizeString(m.Sender) + SizeBytes(MsgCreateValidator_Size(m.CreateValidator)) + SizeBytes(Coin_Size(m.Burn))
  BY <1>6, <1>5, <1>3
<1>8. V!MsgRegisterValidator_Marshal(m) = PutString(1, m.Sender, PutBytes(2, MsgCreateValidator_Marshal(m.CreateValidator), PutBytes(3, Coin_Marshal(m.Burn), <<>>)))
  BY ValidatorOperators DEF V!MsgRegisterValidator_Marshal
<1>9. V!MsgRegisterValidator_Size(m) = SizeString(m.Sender) + SizeBytes(MsgCreateValidator_Size(m.CreateValidator)) + SizeBytes(Coin_Size(m.Burn))
  BY ValidatorOperators DEF V!MsgRegisterValidator_Size
<1>. QED  BY <1>6, <1>7, <1>8, <1>9

LEMMA ValidatorMsgUpdateParamsMeasured ==
  ASSUME NEW m \in V!MsgUpdateParams_Type
  PROVE  Measured(V!MsgUpdateParams_Marshal(m), V!MsgUpdateParams_Size(m))
<1>1. m.Authority \in Strings /\ m.Params \in V!Params_Type
  BY ValidatorOperators DEF V!MsgUpdateParams_Type
<1>2. Measured(V!Params_Marshal(m.Params), V!Params_Size(m.Params))
  BY <1>1, ValidatorParamsMeasured
<1>3. Measured(PutBytes(2, V!Params_Marshal(m.Params), <<>>),
              SizeBytes(V!Params_Size(m.Params)) + 0) /\ SizeBytes(V!Params_Size(m.Params)) \in Nat
  BY <1>2, EmptyMeasured, BytesMeasured
<1>4. Measured(PutString(1, m.Authority, PutBytes(2, V!Params_Marshal(m.Params), <<>>)),
              SizeString(m.Authority) + (SizeBytes(V!Params_Size(m.Params)) + 0)) /\ SizeString(m.Authority) \in Nat
  BY <1>1, <1>3, StringMeasured
<1>5. SizeString(m.Authority) + (SizeBytes(V!Params_Size(m.Params)) + 0) = SizeString(m.Authority) + SizeBytes(V!Params_Size(m.Params))
  BY <1>4, <1>3
<1>6. V!MsgUpdateParams_Marshal(m) = PutString(1, m.Authority, PutBytes(2, V!Params_Marshal(m.Params), <<>>))
  BY ValidatorOperators DEF V!MsgUpdateParams_Marshal
<1>7. V!MsgUpdateParams_Size(m) = SizeString(m.Authority) + SizeBytes(V!Params_Size(m.Params))
  BY ValidatorOperators DEF V!MsgUpdateParams_Size
<1>. QED  BY <1>4, <1>5, <1>6, <1>7

LEMMA ValidatorQueryParamsResponseMeasured ==
  ASSUME NEW m \in V!QueryParamsResponse_Type
  PROVE  Measured(V!QueryParamsResponse_Marshal(m), V!QueryParamsResponse_Size(m))
<1>1. m.Params \in V!Params_Type
  BY ValidatorOperators DEF V!QueryParamsResponse_Type
<1>2. Measured(V!Params_Marshal(m.Params), V!Params_Size(m.Params))
  BY <1>1, ValidatorParamsMeasured
<1>3. Measured(PutBytes(1, V!Params_Marshal(m.Params), <<>>),
              SizeBytes(V!Params_Size(m.Params)) + 0) /\ SizeBytes(V!Params_Size(m.Params)) \in Nat
  BY <1>2, EmptyMeasured, BytesMeasured
<1>4. SizeBytes(V!Params_Size(m.Params)) + 0 = SizeBytes(V!Params_Size(m.Params))
  BY <1>3
<1>5. V!QueryParamsResponse_Marshal(m) = PutBytes(1, V!Params_Marshal(m.Params), <<>>)
  BY ValidatorOperators DEF V!QueryParamsResponse_Marshal
<1>6. V!QueryParamsResponse_Size(m) = SizeBytes(V!Params_Size(m.Params))
  BY ValidatorOperators DEF V!QueryParamsResponse_Size
<1>. QED  BY <1>3, <1>4, <1>5, <1>6

\* written[k]: the k last records of a genesis state, before the other fields.
IsWritten(m, written) ==
  LET last == Len(m.AccountTotals)
  IN /\ B!GenesisState_Marshal(m) =
          PutBytes(1, B!Params_Marshal(m.Params),
            PutUint64(2, m.Count, PutBytes(3, Number_Marshal(m.Total), written[last])))
     /\ written[0] = <<>>
     /\ \A k \in 0..(last - 1) :
          written[k + 1] = PutBytes(4, B!AccountBurnRecord_Marshal(m.AccountTotals[last - k]), written[k])

LEMMA BurnGenesisStateWritten ==
  ASSUME NEW m \in B!GenesisState_Type
  PROVE  \E written : IsWritten(m, written)
<1>. DEFINE last == Len(m.AccountTotals)
            record(k) == B!AccountBurnRecord_Marshal(m.AccountTotals[k])
            Fills(f) == f = [k \in 0..last |->
                                IF k = 0 THEN <<>>
                                ELSE B!PutBytes(4, B!AccountBurnRecord_Marshal(m.AccountTotals[last - k + 1]),
                                                f[k - 1])]
            written == CHOOSE f : Fills(f)
<1>1. m.AccountTotals \in Seq(B!AccountBurnRecord_Type)
  BY DEF B!GenesisState_Type
<1>2. B!GenesisState_Marshal(m) =
        PutBytes(1, B!Params_Marshal(m.Params),
          PutUint64(2, m.Count, PutBytes(3, Number_Marshal(m.Total), written[last])))
  <2>1. B!GenesisState_Marshal(m) =
          B!PutBytes(1, B!Params_Marshal(m.Params),
            B!PutUint64(2, m.Count, B!PutBytes(3, B!Number_Marshal(m.Total), written[last])))
    BY Zenon DEF B!GenesisState_Marshal
  <2>. HIDE DEF written
  <2>. QED  BY <2>1, BurnOperators
<1>3. last \in Nat
  BY <1>1
<1>4. ASSUME NEW k \in 1..last, NEW s \in Seq(Byte)
      PROVE  PutBytes(4, record(k), s) \in Seq(Byte)
  <2>1. m.AccountTotals[k] \in B!AccountBurnRecord_Type
    BY <1>1
  <2>2. record(k) \in Seq(Byte)
    BY <2>1, AccountBurnRecordMeasured DEF Measured
  <2>. HIDE DEF record
  <2>3. 4 \in 1..31
    OBVIOUS
  <2>. QED  BY <2>2, <2>3, PutBytesSize
<1>. HIDE DEF record, last
<1>5. Fills(written)
  <2>. DEFINE F == [k \in 1..last |-> [s \in Seq(Byte) |-> PutBytes(4, record(last - k + 1), s)]]
  <2>1. /\ \A k \in 1..last : \A s \in Seq(Byte) : F[k][s] = PutBytes(4, record(last - k + 1), s)
        /\ \A k \in 1..last : \A s \in Seq(Byte) : F[k][s] \in Seq(Byte)
    <3>1. \A k \in 1..last : last - k + 1 \in 1..last
      BY <1>3
    <3>. QED  BY <1>4, <3>1
  <2>. HIDE DEF F
  <2>2. IsLoop(last, Seq(Byte), <<>>, F)
    <3>1. <<>> \in Seq(Byte)
      OBVIOUS
    <3>. QED  BY <1>3, <2>1, <3>1, Zenon DEF IsLoop
  <2>3. PICK f : IsRun(last, Seq(Byte), <<>>, F, f)
    BY <2>2, LoopExists
  <2>4. ASSUME NEW k \in 1..last
        PROVE  f[k] = B!PutBytes(4, B!AccountBurnRecord_Marshal(m.AccountTotals[last - k + 1]), f[k - 1])
    <3>1. k - 1 \in 0..last
      BY <1>3
    <3>2. f[k - 1] \in Seq(Byte)
      BY <2>3, <3>1 DEF IsRun
    <3>3. f[k] = PutBytes(4, record(last - k + 1), f[k - 1])
      BY <2>1, <2>3, <3>2, Zenon DEF IsRun
    <3>. QED  BY <3>3, BurnOperators DEF record
  <2>5. Fills(f)
    BY <1>3, <2>3, <2>4 DEF IsRun
  <2>. HIDE DEF Fills
  <2>. QED  BY <2>5
<1>. HIDE DEF written
<1>6. ASSUME NEW k \in 0..(last - 1)
      PROVE  written[k + 1] = PutBytes(4, B!AccountBurnRecord_Marshal(m.AccountTotals[last - k]), written[k])
  <2>1. k + 1 \in 0..last /\ k + 1 # 0 /\ (k + 1) - 1 = k /\ last - (k + 1) + 1 = last - k
    BY <1>3
  <2>2. written[k + 1] =
          B!PutBytes(4, B!AccountBurnRecord_Marshal(m.AccountTotals[last - k]), written[k])
    BY <1>5, <2>1
  <2>. QED  BY <2>2, BurnOperators
<1>7. written[0] = <<>>
  BY <1>3, <1>5
<1>. HIDE DEF Fills
<1>8. IsWritten(m, written)
  BY <1>2, <1>6, <1>7 DEF IsWritten, last
<1>. QED  BY <1>8

\* The records of a genesis state: those that are written and those that Size has
\* yet to count are all of them.
LEMMA BurnGenesisStateMeasured ==
  ASSUME NEW m \in B!GenesisState_Type
  PROVE  Measured(B!GenesisState_Marshal(m), B!GenesisState_Size(m))
<1>. DEFINE last == Len(m.AccountTotals)
            record(k) == B!AccountBurnRecord_Marshal(m.AccountTotals[k])
            counted(k) == SizeBytes(B!AccountBurnRecord_Size(m.AccountTotals[k]))
            Counts(f) == f = [k \in 0..last |->
                                IF k = 0 THEN 0
                                ELSE f[k - 1] + B!SizeBytes(B!AccountBurnRecord_Size(m.AccountTotals[k]))]
            size == CHOOSE f : Counts(f)
<1>1. /\ m.Params \in B!Params_Type /\ m.Count \in Word /\ m.Total \in Numbers
      /\ m.AccountTotals \in Seq(B!AccountBurnRecord_Type)
  BY BurnOperators DEF B!GenesisState_Type
<1>2. PICK written : IsWritten(m, written)
  BY BurnGenesisStateWritten
<1>3. B!GenesisState_Marshal(m) =
        PutBytes(1, B!Params_Marshal(m.Params),
          PutUint64(2, m.Count, PutBytes(3, Number_Marshal(m.Total), written[last])))
  BY <1>2 DEF IsWritten
<1>4. /\ written[0] = <<>>
      /\ \A k \in 0..(last - 1) : written[k + 1] = PutBytes(4, record(last - k), written[k])
  BY <1>2 DEF IsWritten
<1>5. B!GenesisState_Size(m) =
        SizeBytes(B!Params_Size(m.Params)) + SizeUint64(m.Count)
          + SizeBytes(Number_Size(m.Total)) + size[last]
  <2>1. B!GenesisState_Size(m) =
          B!SizeBytes(B!Params_Size(m.Params)) + B!SizeUint64(m.Count)
            + B!SizeBytes(B!Number_Size(m.Total)) + size[last]
    BY Zenon DEF B!GenesisState_Size
  <2>. HIDE DEF size
  <2>. QED  BY <2>1, BurnOperators
<1>6. last \in Nat
  BY <1>1
<1>7. ASSUME NEW k \in 1..last
      PROVE  /\ record(k) \in Seq(Byte) /\ counted(k) \in Nat
             /\ \A s \in Seq(Byte) :
                  /\ PutBytes(4, record(k), s) \in Seq(Byte)
                  /\ Len(PutBytes(4, record(k), s)) = counted(k) + Len(s)
  <2>1. m.AccountTotals[k] \in B!AccountBurnRecord_Type
    BY <1>1
  <2>2. PICK r : r = m.AccountTotals[k]
    OBVIOUS
  <2>3. Measured(B!AccountBurnRecord_Marshal(r), B!AccountBurnRecord_Size(r))
    BY <2>1, <2>2, AccountBurnRecordMeasured
  <2>4. 4 \in 1..31
    OBVIOUS
  <2>5. /\ record(k) \in Seq(Byte)
        /\ counted(k) = SizeBytes(Len(record(k)))
    BY <2>2, <2>3 DEF Measured
  <2>. HIDE DEF record, counted
  <2>6. <<>> \in Seq(Byte)
    OBVIOUS
  <2>7. SizeBytes(Len(record(k))) \in Nat
    BY <2>4, <2>5, <2>6, PutBytesSize
  <2>8. ASSUME NEW s \in Seq(Byte)
        PROVE  /\ PutBytes(4, record(k), s) \in Seq(Byte)
               /\ Len(PutBytes(4, record(k), s)) = counted(k) + Len(s)
    BY <2>4, <2>5, PutBytesSize
  <2>. QED  BY <2>5, <2>7, <2>8
<1>. HIDE DEF record, counted, last
<1>8. Counts(size)
  <2>. DEFINE F == [k \in 1..last |-> [s \in Nat |-> s + counted(k)]]
  <2>1. /\ \A k \in 1..last : \A s \in Nat : F[k][s] = s + counted(k)
        /\ \A k \in 1..last : \A s \in Nat : F[k][s] \in Nat
    <3>1. \A k \in 1..last : counted(k) \in Nat
      BY <1>7
    <3>2. \A k \in 1..last : \A s \in Nat : F[k][s] = s + counted(k)
      OBVIOUS
    <3>3. \A k \in 1..last : \A s \in Nat : s + counted(k) \in Nat
      BY <3>1
    <3>. QED  BY <3>2, <3>3
  <2>. HIDE DEF F
  <2>2. IsLoop(last, Nat, 0, F)
    BY <1>6, <2>1 DEF IsLoop
  <2>3. PICK f : IsRun(last, Nat, 0, F, f)
    BY <2>2, LoopExists
  <2>4. ASSUME NEW k \in 1..last
        PROVE  f[k] = f[k - 1] + B!SizeBytes(B!AccountBurnRecord_Size(m.AccountTotals[k]))
    <3>1. k - 1 \in 0..last
      BY <1>6
    <3>2. f[k - 1] \in Nat
      BY <2>3, <3>1 DEF IsRun
    <3>3. f[k] = f[k - 1] + counted(k)
      BY <2>1, <2>3, <3>2, Zenon DEF IsRun
    <3>. QED  BY <3>3, BurnOperators DEF counted
  <2>5. Counts(f)
    BY <1>6, <2>3, <2>4 DEF IsRun
  <2>. HIDE DEF Counts
  <2>. QED  BY <2>5
<1>. HIDE DEF size
<1>9. ASSUME NEW k \in 0..(last - 1)
      PROVE  /\ written[k + 1] = PutBytes(4, record(last - k), written[k])
             /\ size[k + 1] = size[k] + counted(k + 1)
  <2>1. k + 1 \in 0..last /\ k + 1 # 0 /\ (k + 1) - 1 = k /\ last - (k + 1) + 1 = last - k
    BY <1>6
  <2>2. size[k + 1] = size[k] + B!SizeBytes(B!AccountBurnRecord_Size(m.AccountTotals[k + 1]))
    BY <1>8, <2>1
  <2>3. written[k + 1] = PutBytes(4, record(last - k), written[k])
    BY <1>4
  <2>. QED  BY <2>3, <2>2, BurnOperators DEF counted
<1>10. written[0] = <<>> /\ size[0] = 0
  BY <1>6, <1>4, <1>8
<1>. HIDE DEF Counts
<1>11. \A k \in 0..last : size[k] \in Nat
  <2>. DEFINE P == {k \in 0..last : size[k] \in Nat}
  <2>1. 0 \in P
    BY <1>6, <1>10
  <2>2. ASSUME NEW k \in 0..(last - 1), k \in P PROVE k + 1 \in P
    <3>1. k + 1 \in 0..last /\ k + 1 \in 1..last /\ size[k] \in Nat
      BY <1>6, <2>2
    <3>2. size[k + 1] = size[k] + counted(k + 1) /\ counted(k + 1) \in Nat
      BY <1>7, <1>9, <3>1
    <3>. QED  BY <3>1, <3>2
  <2>. HIDE DEF P
  <2>3. \A k \in 0..last : k \in P
    BY <1>6, <2>1, <2>2, CountUp
  <2>. QED  BY <2>3 DEF P
<1>12. \A k \in 0..last : written[k] \in Seq(Byte) /\ Len(written[k]) + size[last - k] = size[last]
  <2>. DEFINE P == {k \in 0..last : /\ written[k] \in Seq(Byte)
                                    /\ Len(written[k]) + size[last - k] = size[last]}
  <2>1. 0 \in P
    <3>1. size[last] \in Nat /\ last - 0 = last /\ 0 \in 0..last
      BY <1>6, <1>11
    <3>2. written[0] \in Seq(Byte) /\ Len(written[0]) = 0
      BY <1>10
    <3>. QED  BY <3>1, <3>2
  <2>2. ASSUME NEW k \in 0..(last - 1), k \in P PROVE k + 1 \in P
    <3>1. /\ k + 1 \in 0..last /\ last - k \in 1..last
          /\ last - (k + 1) \in 0..(last - 1) /\ (last - (k + 1)) + 1 = last - k
      BY <1>6
    <3>2. PICK w \in Seq(Byte) : w = written[k] /\ Len(w) + size[last - k] = size[last]
      BY <2>2
    <3>3. written[k + 1] = PutBytes(4, record(last - k), w)
      BY <1>9, <3>2
    <3>4. size[last - k] = size[last - (k + 1)] + counted(last - k)
      BY <1>9, <3>1
    <3>5. written[k + 1] \in Seq(Byte) /\ Len(written[k + 1]) = counted(last - k) + Len(w)
      BY <1>7, <3>1, <3>3
    <3>6. size[last - (k + 1)] \in Nat /\ counted(last - k) \in Nat /\ Len(w) \in Nat
      BY <1>6, <1>7, <1>11, <3>1
    <3>7. Len(written[k + 1]) + size[last - (k + 1)] = size[last]
      BY <3>2, <3>4, <3>5, <3>6
    <3>. QED  BY <3>1, <3>5, <3>7
  <2>. HIDE DEF P
  <2>3. \A k \in 0..last : k \in P
    BY <1>6, <2>1, <2>2, CountUp
  <2>. QED  BY <2>3 DEF P
<1>13. Measured(written[last], size[last])
  <2>1. last \in 0..last /\ last - last = 0
    BY <1>6
  <2>2. written[last] \in Seq(Byte) /\ Len(written[last]) + 0 = size[last]
    BY <1>10, <1>12, <2>1
  <2>. QED  BY <2>2 DEF Measured
<1>14. Measured(PutBytes(3, Number_Marshal(m.Total), written[last]),
                SizeBytes(Number_Size(m.Total)) + size[last])
       /\ SizeBytes(Number_Size(m.Total)) \in Nat
  <2>1. Measured(Number_Marshal(m.Total), Number_Size(m.Total))
    BY <1>1, NumberMeasured
  <2>. QED  BY <1>13, <2>1, BytesMeasured
<1>15. Measured(PutUint64(2, m.Count, PutBytes(3, Number_Marshal(m.Total), written[last])),
                SizeUint64(m.Count) + (SizeBytes(Number_Size(m.Total)) + size[last]))
       /\ SizeUint64(m.Count) \in Nat
  <2>1. 2 \in 1..31
    OBVIOUS
  <2>. QED  BY <1>1, <1>14, <2>1, Uint64Measured, Zenon
<1>16. Measured(B!GenesisState_Marshal(m),
                SizeBytes(B!Params_Size(m.Params))
                  + (SizeUint64(m.Count) + (SizeBytes(Number_Size(m.Total)) + size[last])))
       /\ SizeBytes(B!Params_Size(m.Params)) \in Nat
  <2>1. Measured(B!Params_Marshal(m.Params), B!Params_Size(m.Params))
    BY <1>1, BurnParamsMeasured
  <2>. QED  BY <1>3, <1>15, <2>1, BytesMeasured, SMTT(30)
<1>17. size[last] \in Nat
  BY <1>13, MeasuredSize
<1>18. SizeBytes(B!Params_Size(m.Params))
         + (SizeUint64(m.Count) + (SizeBytes(Number_Size(m.Total)) + size[last]))
       = B!GenesisState_Size(m)
  BY <1>5, <1>14, <1>15, <1>16, <1>17
<1>. QED  BY <1>16, <1>18

-----------------------------------------------------------------------------
(* Unmarshal: the cases of each switch.                                    *)

LEMMA CoinFields ==
  /\ Holds(Coin_Type, "Denom", Strings)
  /\ Holds(Coin_Type, "Amount", Numbers)
  /\ Coin_Zero \in Coin_Type
<1>1. Coin_Type = [Denom : Strings, Amount : Numbers]
  BY DEF Coin_Type
<1>2. /\ Holds(Coin_Type, "Denom", Strings)
      /\ Holds(Coin_Type, "Amount", Numbers)
  BY <1>1 DEF Holds
<1>3. Coin_Zero \in Coin_Type
  BY <1>1, NumberFacts DEF Coin_Zero, Nil, Numbers, Strings
<1>. QED  BY <1>2, <1>3

LEMMA CoinDecodes0 == Decodes(decodeScalar, Coin_Unmarshal, Coin_Type)
<1>1. Takes(decodeScalar, String("Denom"), Coin_Type)
  BY CoinFields, StringTakes0
<1>2. Takes(decodeScalar, Number("Amount"), Coin_Type)
  BY CoinFields, NumberTakes0
<1>3. Coin_Unmarshal =
        <<String("Denom"),
          Number("Amount")>>
  BY DEF Coin_Unmarshal
<1>. QED  BY <1>1, <1>2, <1>3 DEF Decodes

LEMMA CoinDecodes1 == Decodes(decodeField1, Coin_Unmarshal, Coin_Type)
<1>1. Takes(decodeField1, String("Denom"), Coin_Type)
  BY CoinFields, StringTakes1
<1>2. Takes(decodeField1, Number("Amount"), Coin_Type)
  BY CoinFields, NumberTakes1
<1>3. Coin_Unmarshal =
        <<String("Denom"),
          Number("Amount")>>
  BY DEF Coin_Unmarshal
<1>. QED  BY <1>1, <1>2, <1>3 DEF Decodes

LEMMA MsgCreateValidatorFields ==
  /\ Holds(MsgCreateValidator_Type, "ValidatorAddress", Strings)
  /\ Holds(MsgCreateValidator_Type, "Value", Coin_Type)
  /\ MsgCreateValidator_Zero \in MsgCreateValidator_Type
<1>1. MsgCreateValidator_Type = [ValidatorAddress : Strings, Value : Coin_Type]
  BY DEF MsgCreateValidator_Type
<1>2. /\ Holds(MsgCreateValidator_Type, "ValidatorAddress", Strings)
      /\ Holds(MsgCreateValidator_Type, "Value", Coin_Type)
  BY <1>1 DEF Holds
<1>3. MsgCreateValidator_Zero \in MsgCreateValidator_Type
  BY <1>1, NumberFacts, CoinFields DEF MsgCreateValidator_Zero, Nil, Numbers, Strings
<1>. QED  BY <1>2, <1>3

LEMMA MsgCreateValidatorDecodes1 == Decodes(decodeField1, MsgCreateValidator_Unmarshal, MsgCreateValidator_Type)
<1>1. Takes(decodeField1, String("ValidatorAddress"), MsgCreateValidator_Type)
  BY MsgCreateValidatorFields, StringTakes1
<1>2. Takes(decodeField1, Message("Value", Coin_Unmarshal), MsgCreateValidator_Type)
  BY MsgCreateValidatorFields, CoinDecodes0, MessageTakes1
<1>3. /\ DOMAIN MsgCreateValidator_Unmarshal = {5, 7}
      /\ MsgCreateValidator_Unmarshal[5] = String("ValidatorAddress")
      /\ MsgCreateValidator_Unmarshal[7] = Message("Value", Coin_Unmarshal)
  BY DEF MsgCreateValidator_Unmarshal
<1>. QED  BY <1>1, <1>2, <1>3 DEF Decodes

LEMMA BurnParamsFields ==
  /\ Holds(B!Params_Type, "FeeBurnPercent", Numbers)
  /\ B!Params_Zero \in B!Params_Type
<1>1. B!Params_Type = [FeeBurnPercent : Numbers]
  BY BurnOperators DEF B!Params_Type
<1>2. /\ Holds(B!Params_Type, "FeeBurnPercent", Numbers)
  BY <1>1 DEF Holds
<1>3. B!Params_Zero \in B!Params_Type
  BY <1>1, NumberFacts, BurnOperators DEF B!Params_Zero, Nil, Numbers, Strings
<1>. QED  BY <1>2, <1>3

LEMMA BurnParamsDecodes1 == Decodes(decodeField1, B!Params_Unmarshal, B!Params_Type)
<1>1. Takes(decodeField1, Number("FeeBurnPercent"), B!Params_Type)
  BY BurnParamsFields, NumberTakes1
<1>2. B!Params_Unmarshal =
        <<Number("FeeBurnPercent")>>
  BY BurnOperators DEF B!Params_Unmarshal
<1>. QED  BY <1>1, <1>2 DEF Decodes

LEMMA BurnParamsDecodes2 == Decodes(decodeField2, B!Params_Unmarshal, B!Params_Type)
<1>1. Takes(decodeField2, Number("FeeBurnPercent"), B!Params_Type)
  BY BurnParamsFields, NumberTakes2
<1>2. B!Params_Unmarshal =
        <<Number("FeeBurnPercent")>>
  BY BurnOperators DEF B!Params_Unmarshal
<1>. QED  BY <1>1, <1>2 DEF Decodes

LEMMA AccountBurnRecordFields ==
  /\ Holds(B!AccountBurnRecord_Type, "Address", Strings)
  /\ Holds(B!AccountBurnRecord_Type, "Total", Numbers)
  /\ B!AccountBurnRecord_Zero \in B!AccountBurnRecord_Type
<1>1. B!AccountBurnRecord_Type = [Address : Strings, Total : Numbers]
  BY BurnOperators DEF B!AccountBurnRecord_Type
<1>2. /\ Holds(B!AccountBurnRecord_Type, "Address", Strings)
      /\ Holds(B!AccountBurnRecord_Type, "Total", Numbers)
  BY <1>1 DEF Holds
<1>3. B!AccountBurnRecord_Zero \in B!AccountBurnRecord_Type
  BY <1>1, NumberFacts, BurnOperators DEF B!AccountBurnRecord_Zero, Nil, Numbers, Strings
<1>. QED  BY <1>2, <1>3

LEMMA AccountBurnRecordDecodes1 == Decodes(decodeField1, B!AccountBurnRecord_Unmarshal, B!AccountBurnRecord_Type)
<1>1. Takes(decodeField1, String("Address"), B!AccountBurnRecord_Type)
  BY AccountBurnRecordFields, StringTakes1
<1>2. Takes(decodeField1, Number("Total"), B!AccountBurnRecord_Type)
  BY AccountBurnRecordFields, NumberTakes1
<1>3. B!AccountBurnRecord_Unmarshal =
        <<String("Address"),
          Number("Total")>>
  BY BurnOperators DEF B!AccountBurnRecord_Unmarshal
<1>. QED  BY <1>1, <1>2, <1>3 DEF Decodes

LEMMA AccountBurnRecordDecodes2 == Decodes(decodeField2, B!AccountBurnRecord_Unmarshal, B!AccountBurnRecord_Type)
<1>1. Takes(decodeField2, String("Address"), B!AccountBurnRecord_Type)
  BY AccountBurnRecordFields, StringTakes2
<1>2. Takes(decodeField2, Number("Total"), B!AccountBurnRecord_Type)
  BY AccountBurnRecordFields, NumberTakes2
<1>3. B!AccountBurnRecord_Unmarshal =
        <<String("Address"),
          Number("Total")>>
  BY BurnOperators DEF B!AccountBurnRecord_Unmarshal
<1>. QED  BY <1>1, <1>2, <1>3 DEF Decodes

LEMMA BurnGenesisStateFields ==
  /\ Holds(B!GenesisState_Type, "Params", B!Params_Type)
  /\ Holds(B!GenesisState_Type, "Count", Word)
  /\ Holds(B!GenesisState_Type, "Total", Numbers)
  /\ Holds(B!GenesisState_Type, "AccountTotals", Seq(B!AccountBurnRecord_Type))
  /\ B!GenesisState_Zero \in B!GenesisState_Type
<1>1. B!GenesisState_Type = [Params : B!Params_Type, Count : Word, Total : Numbers, AccountTotals : Seq(B!AccountBurnRecord_Type)]
  BY BurnOperators DEF B!GenesisState_Type
<1>2. /\ Holds(B!GenesisState_Type, "Params", B!Params_Type)
      /\ Holds(B!GenesisState_Type, "Count", Word)
      /\ Holds(B!GenesisState_Type, "Total", Numbers)
      /\ Holds(B!GenesisState_Type, "AccountTotals", Seq(B!AccountBurnRecord_Type))
  BY <1>1 DEF Holds
<1>3. B!GenesisState_Zero \in B!GenesisState_Type
  BY <1>1, NumberFacts, HalfFacts, BurnParamsFields, BurnOperators DEF B!GenesisState_Zero, Word, Nil, Numbers, Strings
<1>. QED  BY <1>2, <1>3

LEMMA BurnGenesisStateDecodes2 == Decodes(decodeField2, B!GenesisState_Unmarshal, B!GenesisState_Type)
<1>1. Takes(decodeField2, Message("Params", B!Params_Unmarshal), B!GenesisState_Type)
  BY BurnGenesisStateFields, BurnParamsDecodes1, MessageTakes2
<1>2. Takes(decodeField2, Uint64("Count"), B!GenesisState_Type)
  BY BurnGenesisStateFields, Uint64Takes2
<1>3. Takes(decodeField2, Number("Total"), B!GenesisState_Type)
  BY BurnGenesisStateFields, NumberTakes2
<1>4. Takes(decodeField2, Repeated("AccountTotals", B!AccountBurnRecord_Unmarshal, B!AccountBurnRecord_Zero), B!GenesisState_Type)
  BY BurnGenesisStateFields, AccountBurnRecordDecodes1, AccountBurnRecordFields, RepeatedTakes2
<1>5. B!GenesisState_Unmarshal =
        <<Message("Params", B!Params_Unmarshal),
          Uint64("Count"),
          Number("Total"),
          Repeated("AccountTotals", B!AccountBurnRecord_Unmarshal, B!AccountBurnRecord_Zero)>>
  BY BurnOperators DEF B!GenesisState_Unmarshal
<1>. QED  BY <1>1, <1>2, <1>3, <1>4, <1>5 DEF Decodes

LEMMA BurnMsgUpdateParamsFields ==
  /\ Holds(B!MsgUpdateParams_Type, "Authority", Strings)
  /\ Holds(B!MsgUpdateParams_Type, "Params", B!Params_Type)
  /\ B!MsgUpdateParams_Zero \in B!MsgUpdateParams_Type
<1>1. B!MsgUpdateParams_Type = [Authority : Strings, Params : B!Params_Type]
  BY BurnOperators DEF B!MsgUpdateParams_Type
<1>2. /\ Holds(B!MsgUpdateParams_Type, "Authority", Strings)
      /\ Holds(B!MsgUpdateParams_Type, "Params", B!Params_Type)
  BY <1>1 DEF Holds
<1>3. B!MsgUpdateParams_Zero \in B!MsgUpdateParams_Type
  BY <1>1, NumberFacts, BurnParamsFields, BurnOperators DEF B!MsgUpdateParams_Zero, Nil, Numbers, Strings
<1>. QED  BY <1>2, <1>3

LEMMA BurnMsgUpdateParamsDecodes2 == Decodes(decodeField2, B!MsgUpdateParams_Unmarshal, B!MsgUpdateParams_Type)
<1>1. Takes(decodeField2, String("Authority"), B!MsgUpdateParams_Type)
  BY BurnMsgUpdateParamsFields, StringTakes2
<1>2. Takes(decodeField2, Message("Params", B!Params_Unmarshal), B!MsgUpdateParams_Type)
  BY BurnMsgUpdateParamsFields, BurnParamsDecodes1, MessageTakes2
<1>3. B!MsgUpdateParams_Unmarshal =
        <<String("Authority"),
          Message("Params", B!Params_Unmarshal)>>
  BY BurnOperators DEF B!MsgUpdateParams_Unmarshal
<1>. QED  BY <1>1, <1>2, <1>3 DEF Decodes

LEMMA MsgBurnFields ==
  /\ Holds(B!MsgBurn_Type, "FromAddress", Strings)
  /\ Holds(B!MsgBurn_Type, "Amount", Coin_Type)
  /\ B!MsgBurn_Zero \in B!MsgBurn_Type
<1>1. B!MsgBurn_Type = [FromAddress : Strings, Amount : Coin_Type]
  BY BurnOperators DEF B!MsgBurn_Type
<1>2. /\ Holds(B!MsgBurn_Type, "FromAddress", Strings)
      /\ Holds(B!MsgBurn_Type, "Amount", Coin_Type)
  BY <1>1 DEF Holds
<1>3. B!MsgBurn_Zero \in B!MsgBurn_Type
  BY <1>1, NumberFacts, CoinFields, BurnOperators DEF B!MsgBurn_Zero, Nil, Numbers, Strings
<1>. QED  BY <1>2, <1>3

LEMMA MsgBurnDecodes2 == Decodes(decodeField2, B!MsgBurn_Unmarshal, B!MsgBurn_Type)
<1>1. Takes(decodeField2, String("FromAddress"), B!MsgBurn_Type)
  BY MsgBurnFields, StringTakes2
<1>2. Takes(decodeField2, Message("Amount", Coin_Unmarshal), B!MsgBurn_Type)
  BY MsgBurnFields, CoinDecodes1, MessageTakes2
<1>3. B!MsgBurn_Unmarshal =
        <<String("FromAddress"),
          Message("Amount", Coin_Unmarshal)>>
  BY BurnOperators DEF B!MsgBurn_Unmarshal
<1>. QED  BY <1>1, <1>2, <1>3 DEF Decodes

LEMMA BurnQueryParamsResponseFields ==
  /\ Holds(B!QueryParamsResponse_Type, "Params", B!Params_Type)
  /\ B!QueryParamsResponse_Zero \in B!QueryParamsResponse_Type
<1>1. B!QueryParamsResponse_Type = [Params : B!Params_Type]
  BY BurnOperators DEF B!QueryParamsResponse_Type
<1>2. /\ Holds(B!QueryParamsResponse_Type, "Params", B!Params_Type)
  BY <1>1 DEF Holds
<1>3. B!QueryParamsResponse_Zero \in B!QueryParamsResponse_Type
  BY <1>1, NumberFacts, BurnParamsFields, BurnOperators DEF B!QueryParamsResponse_Zero, Nil, Numbers, Strings
<1>. QED  BY <1>2, <1>3

LEMMA BurnQueryParamsResponseDecodes2 == Decodes(decodeField2, B!QueryParamsResponse_Unmarshal, B!QueryParamsResponse_Type)
<1>1. Takes(decodeField2, Message("Params", B!Params_Unmarshal), B!QueryParamsResponse_Type)
  BY BurnQueryParamsResponseFields, BurnParamsDecodes1, MessageTakes2
<1>2. B!QueryParamsResponse_Unmarshal =
        <<Message("Params", B!Params_Unmarshal)>>
  BY BurnOperators DEF B!QueryParamsResponse_Unmarshal
<1>. QED  BY <1>1, <1>2 DEF Decodes

LEMMA QueryBurnStatsResponseFields ==
  /\ Holds(B!QueryBurnStatsResponse_Type, "TotalBurns", Word)
  /\ Holds(B!QueryBurnStatsResponse_Type, "TotalBurned", Strings)
  /\ B!QueryBurnStatsResponse_Zero \in B!QueryBurnStatsResponse_Type
<1>1. B!QueryBurnStatsResponse_Type = [TotalBurns : Word, TotalBurned : Strings]
  BY BurnOperators DEF B!QueryBurnStatsResponse_Type
<1>2. /\ Holds(B!QueryBurnStatsResponse_Type, "TotalBurns", Word)
      /\ Holds(B!QueryBurnStatsResponse_Type, "TotalBurned", Strings)
  BY <1>1 DEF Holds
<1>3. B!QueryBurnStatsResponse_Zero \in B!QueryBurnStatsResponse_Type
  BY <1>1, NumberFacts, HalfFacts, BurnOperators DEF B!QueryBurnStatsResponse_Zero, Word, Nil, Numbers, Strings
<1>. QED  BY <1>2, <1>3

LEMMA QueryBurnStatsResponseDecodes2 == Decodes(decodeField2, B!QueryBurnStatsResponse_Unmarshal, B!QueryBurnStatsResponse_Type)
<1>1. Takes(decodeField2, Uint64("TotalBurns"), B!QueryBurnStatsResponse_Type)
  BY QueryBurnStatsResponseFields, Uint64Takes2
<1>2. Takes(decodeField2, String("TotalBurned"), B!QueryBurnStatsResponse_Type)
  BY QueryBurnStatsResponseFields, StringTakes2
<1>3. B!QueryBurnStatsResponse_Unmarshal =
        <<Uint64("TotalBurns"),
          String("TotalBurned")>>
  BY BurnOperators DEF B!QueryBurnStatsResponse_Unmarshal
<1>. QED  BY <1>1, <1>2, <1>3 DEF Decodes

LEMMA QueryAccountBurnsRequestFields ==
  /\ Holds(B!QueryAccountBurnsRequest_Type, "Address", Strings)
  /\ B!QueryAccountBurnsRequest_Zero \in B!QueryAccountBurnsRequest_Type
<1>1. B!QueryAccountBurnsRequest_Type = [Address : Strings]
  BY BurnOperators DEF B!QueryAccountBurnsRequest_Type
<1>2. /\ Holds(B!QueryAccountBurnsRequest_Type, "Address", Strings)
  BY <1>1 DEF Holds
<1>3. B!QueryAccountBurnsRequest_Zero \in B!QueryAccountBurnsRequest_Type
  BY <1>1, NumberFacts, BurnOperators DEF B!QueryAccountBurnsRequest_Zero, Nil, Numbers, Strings
<1>. QED  BY <1>2, <1>3

LEMMA QueryAccountBurnsRequestDecodes2 == Decodes(decodeField2, B!QueryAccountBurnsRequest_Unmarshal, B!QueryAccountBurnsRequest_Type)
<1>1. Takes(decodeField2, String("Address"), B!QueryAccountBurnsRequest_Type)
  BY QueryAccountBurnsRequestFields, StringTakes2
<1>2. B!QueryAccountBurnsRequest_Unmarshal =
        <<String("Address")>>
  BY BurnOperators DEF B!QueryAccountBurnsRequest_Unmarshal
<1>. QED  BY <1>1, <1>2 DEF Decodes

LEMMA QueryAccountBurnsResponseFields ==
  /\ Holds(B!QueryAccountBurnsResponse_Type, "Amount", Strings)
  /\ B!QueryAccountBurnsResponse_Zero \in B!QueryAccountBurnsResponse_Type
<1>1. B!QueryAccountBurnsResponse_Type = [Amount : Strings]
  BY BurnOperators DEF B!QueryAccountBurnsResponse_Type
<1>2. /\ Holds(B!QueryAccountBurnsResponse_Type, "Amount", Strings)
  BY <1>1 DEF Holds
<1>3. B!QueryAccountBurnsResponse_Zero \in B!QueryAccountBurnsResponse_Type
  BY <1>1, NumberFacts, BurnOperators DEF B!QueryAccountBurnsResponse_Zero, Nil, Numbers, Strings
<1>. QED  BY <1>2, <1>3

LEMMA QueryAccountBurnsResponseDecodes2 == Decodes(decodeField2, B!QueryAccountBurnsResponse_Unmarshal, B!QueryAccountBurnsResponse_Type)
<1>1. Takes(decodeField2, String("Amount"), B!QueryAccountBurnsResponse_Type)
  BY QueryAccountBurnsResponseFields, StringTakes2
<1>2. B!QueryAccountBurnsResponse_Unmarshal =
        <<String("Amount")>>
  BY BurnOperators DEF B!QueryAccountBurnsResponse_Unmarshal
<1>. QED  BY <1>1, <1>2 DEF Decodes

LEMMA ValidatorParamsFields ==
  /\ Holds(V!Params_Type, "ValidatorRegistrationBurn", Coin_Type)
  /\ Holds(V!Params_Type, "ValidatorMinSelfDelegation", Coin_Type)
  /\ V!Params_Zero \in V!Params_Type
<1>1. V!Params_Type = [ValidatorRegistrationBurn : Coin_Type, ValidatorMinSelfDelegation : Coin_Type]
  BY ValidatorOperators DEF V!Params_Type
<1>2. /\ Holds(V!Params_Type, "ValidatorRegistrationBurn", Coin_Type)
      /\ Holds(V!Params_Type, "ValidatorMinSelfDelegation", Coin_Type)
  BY <1>1 DEF Holds
<1>3. V!Params_Zero \in V!Params_Type
  BY <1>1, NumberFacts, CoinFields, ValidatorOperators DEF V!Params_Zero, Nil, Numbers, Strings
<1>. QED  BY <1>2, <1>3

LEMMA ValidatorParamsDecodes1 == Decodes(decodeField1, V!Params_Unmarshal, V!Params_Type)
<1>1. Takes(decodeField1, Message("ValidatorRegistrationBurn", Coin_Unmarshal), V!Params_Type)
  BY ValidatorParamsFields, CoinDecodes0, MessageTakes1
<1>2. Takes(decodeField1, Message("ValidatorMinSelfDelegation", Coin_Unmarshal), V!Params_Type)
  BY ValidatorParamsFields, CoinDecodes0, MessageTakes1
<1>3. V!Params_Unmarshal =
        <<Message("ValidatorRegistrationBurn", Coin_Unmarshal),
          Message("ValidatorMinSelfDelegation", Coin_Unmarshal)>>
  BY ValidatorOperators DEF V!Params_Unmarshal
<1>. QED  BY <1>1, <1>2, <1>3 DEF Decodes

LEMMA ValidatorParamsDecodes2 == Decodes(decodeField2, V!Params_Unmarshal, V!Params_Type)
<1>1. Takes(decodeField2, Message("ValidatorRegistrationBurn", Coin_Unmarshal), V!Params_Type)
  BY ValidatorParamsFields, CoinDecodes1, MessageTakes2
<1>2. Takes(decodeField2, Message("ValidatorMinSelfDelegation", Coin_Unmarshal), V!Params_Type)
  BY ValidatorParamsFields, CoinDecodes1, MessageTakes2
<1>3. V!Params_Unmarshal =
        <<Message("ValidatorRegistrationBurn", Coin_Unmarshal),
          Message("ValidatorMinSelfDelegation", Coin_Unmarshal)>>
  BY ValidatorOperators DEF V!Params_Unmarshal
<1>. QED  BY <1>1, <1>2, <1>3 DEF Decodes

LEMMA ValidatorGenesisStateFields ==
  /\ Holds(V!GenesisState_Type, "Params", V!Params_Type)
  /\ V!GenesisState_Zero \in V!GenesisState_Type
<1>1. V!GenesisState_Type = [Params : V!Params_Type]
  BY ValidatorOperators DEF V!GenesisState_Type
<1>2. /\ Holds(V!GenesisState_Type, "Params", V!Params_Type)
  BY <1>1 DEF Holds
<1>3. V!GenesisState_Zero \in V!GenesisState_Type
  BY <1>1, NumberFacts, ValidatorParamsFields, ValidatorOperators DEF V!GenesisState_Zero, Nil, Numbers, Strings
<1>. QED  BY <1>2, <1>3

LEMMA ValidatorGenesisStateDecodes2 == Decodes(decodeField2, V!GenesisState_Unmarshal, V!GenesisState_Type)
<1>1. Takes(decodeField2, Message("Params", V!Params_Unmarshal), V!GenesisState_Type)
  BY ValidatorGenesisStateFields, ValidatorParamsDecodes1, MessageTakes2
<1>2. V!GenesisState_Unmarshal =
        <<Message("Params", V!Params_Unmarshal)>>
  BY ValidatorOperators DEF V!GenesisState_Unmarshal
<1>. QED  BY <1>1, <1>2 DEF Decodes

LEMMA MsgRegisterValidatorFields ==
  /\ Holds(V!MsgRegisterValidator_Type, "Sender", Strings)
  /\ Holds(V!MsgRegisterValidator_Type, "CreateValidator", MsgCreateValidator_Type)
  /\ Holds(V!MsgRegisterValidator_Type, "Burn", Coin_Type)
  /\ V!MsgRegisterValidator_Zero \in V!MsgRegisterValidator_Type
<1>1. V!MsgRegisterValidator_Type = [Sender : Strings, CreateValidator : MsgCreateValidator_Type, Burn : Coin_Type]
  BY ValidatorOperators DEF V!MsgRegisterValidator_Type
<1>2. /\ Holds(V!MsgRegisterValidator_Type, "Sender", Strings)
      /\ Holds(V!MsgRegisterValidator_Type, "CreateValidator", MsgCreateValidator_Type)
      /\ Holds(V!MsgRegisterValidator_Type, "Burn", Coin_Type)
  BY <1>1 DEF Holds
<1>3. V!MsgRegisterValidator_Zero \in V!MsgRegisterValidator_Type
  BY <1>1, NumberFacts, MsgCreateValidatorFields, CoinFields, ValidatorOperators DEF V!MsgRegisterValidator_Zero, Nil, Numbers, Strings
<1>. QED  BY <1>2, <1>3

LEMMA MsgRegisterValidatorDecodes2 == Decodes(decodeField2, V!MsgRegisterValidator_Unmarshal, V!MsgRegisterValidator_Type)
<1>1. Takes(decodeField2, String("Sender"), V!MsgRegisterValidator_Type)
  BY MsgRegisterValidatorFields, StringTakes2
<1>2. Takes(decodeField2, Message("CreateValidator", MsgCreateValidator_Unmarshal), V!MsgRegisterValidator_Type)
  BY MsgRegisterValidatorFields, MsgCreateValidatorDecodes1, MessageTakes2
<1>3. Takes(decodeField2, Message("Burn", Coin_Unmarshal), V!MsgRegisterValidator_Type)
  BY MsgRegisterValidatorFields, CoinDecodes1, MessageTakes2
<1>4. V!MsgRegisterValidator_Unmarshal =
        <<String("Sender"),
          Message("CreateValidator", MsgCreateValidator_Unmarshal),
          Message("Burn", Coin_Unmarshal)>>
  BY ValidatorOperators DEF V!MsgRegisterValidator_Unmarshal
<1>. QED  BY <1>1, <1>2, <1>3, <1>4 DEF Decodes

LEMMA ValidatorMsgUpdateParamsFields ==
  /\ Holds(V!MsgUpdateParams_Type, "Authority", Strings)
  /\ Holds(V!MsgUpdateParams_Type, "Params", V!Params_Type)
  /\ V!MsgUpdateParams_Zero \in V!MsgUpdateParams_Type
<1>1. V!MsgUpdateParams_Type = [Authority : Strings, Params : V!Params_Type]
  BY ValidatorOperators DEF V!MsgUpdateParams_Type
<1>2. /\ Holds(V!MsgUpdateParams_Type, "Authority", Strings)
      /\ Holds(V!MsgUpdateParams_Type, "Params", V!Params_Type)
  BY <1>1 DEF Holds
<1>3. V!MsgUpdateParams_Zero \in V!MsgUpdateParams_Type
  BY <1>1, NumberFacts, ValidatorParamsFields, ValidatorOperators DEF V!MsgUpdateParams_Zero, Nil, Numbers, Strings
<1>. QED  BY <1>2, <1>3

LEMMA ValidatorMsgUpdateParamsDecodes2 == Decodes(decodeField2, V!MsgUpdateParams_Unmarshal, V!MsgUpdateParams_Type)
<1>1. Takes(decodeField2, String("Authority"), V!MsgUpdateParams_Type)
  BY ValidatorMsgUpdateParamsFields, StringTakes2
<1>2. Takes(decodeField2, Message("Params", V!Params_Unmarshal), V!MsgUpdateParams_Type)
  BY ValidatorMsgUpdateParamsFields, ValidatorParamsDecodes1, MessageTakes2
<1>3. V!MsgUpdateParams_Unmarshal =
        <<String("Authority"),
          Message("Params", V!Params_Unmarshal)>>
  BY ValidatorOperators DEF V!MsgUpdateParams_Unmarshal
<1>. QED  BY <1>1, <1>2, <1>3 DEF Decodes

LEMMA ValidatorQueryParamsResponseFields ==
  /\ Holds(V!QueryParamsResponse_Type, "Params", V!Params_Type)
  /\ V!QueryParamsResponse_Zero \in V!QueryParamsResponse_Type
<1>1. V!QueryParamsResponse_Type = [Params : V!Params_Type]
  BY ValidatorOperators DEF V!QueryParamsResponse_Type
<1>2. /\ Holds(V!QueryParamsResponse_Type, "Params", V!Params_Type)
  BY <1>1 DEF Holds
<1>3. V!QueryParamsResponse_Zero \in V!QueryParamsResponse_Type
  BY <1>1, NumberFacts, ValidatorParamsFields, ValidatorOperators DEF V!QueryParamsResponse_Zero, Nil, Numbers, Strings
<1>. QED  BY <1>2, <1>3

LEMMA ValidatorQueryParamsResponseDecodes2 == Decodes(decodeField2, V!QueryParamsResponse_Unmarshal, V!QueryParamsResponse_Type)
<1>1. Takes(decodeField2, Message("Params", V!Params_Unmarshal), V!QueryParamsResponse_Type)
  BY ValidatorQueryParamsResponseFields, ValidatorParamsDecodes1, MessageTakes2
<1>2. V!QueryParamsResponse_Unmarshal =
        <<Message("Params", V!Params_Unmarshal)>>
  BY ValidatorOperators DEF V!QueryParamsResponse_Unmarshal
<1>. QED  BY <1>1, <1>2 DEF Decodes

-----------------------------------------------------------------------------
(* The generated functions by type name.                                   *)

Encodes(T, m) == Encode(T, m).st = "ok" /\ Encode(T, m).bz \in Seq(Byte)

LEMMA MeasuredMarshal ==
  ASSUME NEW bz, NEW size, Measured(bz, size)
  PROVE  Marshal(size, bz).st = "ok" /\ Marshal(size, bz).bz \in Seq(Byte)
BY MarshalExact DEF Measured

\* A message without fields.
LEMMA NoFieldsDecode ==
  ASSUME NEW M
  PROVE  Decodes(decodeField2, <<>>, M)
BY DEF Decodes

\* Every type has a zero value, decodes any field to a value of the type, and is
\* encoded in as many bytes as Size says.
Generated(T) ==
  /\ Zero(T) \in MsgType(T)
  /\ Decodes(decodeField2, Cases(T), MsgType(T))
  /\ \A m \in MsgType(T) : Encodes(T, m)

LEMMA GeneratedCode ==
  ASSUME NEW T \in TypeNames
  PROVE  Generated(T)
<1>1. CASE T = "burn.Params"
  <2>1. /\ MsgType(T) = B!Params_Type /\ Zero(T) = B!Params_Zero /\ Cases(T) = B!Params_Unmarshal
        /\ \A m : Encode(T, m) = Marshal(B!Params_Size(m), B!Params_Marshal(m))
    BY <1>1, Zenon DEF MsgType, Zero, Cases, Encode
  <2>2. \A m \in B!Params_Type : Encodes(T, m)
    BY <2>1, BurnParamsMeasured, MeasuredMarshal DEF Encodes
  <2>. QED  BY <2>1, <2>2, BurnParamsFields, BurnParamsDecodes2 DEF Generated
<1>2. CASE T = "burn.AccountBurnRecord"
  <2>1. /\ MsgType(T) = B!AccountBurnRecord_Type /\ Zero(T) = B!AccountBurnRecord_Zero /\ Cases(T) = B!AccountBurnRecord_Unmarshal
        /\ \A m : Encode(T, m) = Marshal(B!AccountBurnRecord_Size(m), B!AccountBurnRecord_Marshal(m))
    BY <1>2, Zenon DEF MsgType, Zero, Cases, Encode
  <2>2. \A m \in B!AccountBurnRecord_Type : Encodes(T, m)
    BY <2>1, AccountBurnRecordMeasured, MeasuredMarshal DEF Encodes
  <2>. QED  BY <2>1, <2>2, AccountBurnRecordFields, AccountBurnRecordDecodes2 DEF Generated
<1>3. CASE T = "burn.GenesisState"
  <2>1. /\ MsgType(T) = B!GenesisState_Type /\ Zero(T) = B!GenesisState_Zero /\ Cases(T) = B!GenesisState_Unmarshal
        /\ \A m : Encode(T, m) = Marshal(B!GenesisState_Size(m), B!GenesisState_Marshal(m))
    BY <1>3, Zenon DEF MsgType, Zero, Cases, Encode
  <2>2. \A m \in B!GenesisState_Type : Encodes(T, m)
    BY <2>1, BurnGenesisStateMeasured, MeasuredMarshal DEF Encodes
  <2>. QED  BY <2>1, <2>2, BurnGenesisStateFields, BurnGenesisStateDecodes2 DEF Generated
<1>4. CASE T = "burn.MsgUpdateParams"
  <2>1. /\ MsgType(T) = B!MsgUpdateParams_Type /\ Zero(T) = B!MsgUpdateParams_Zero /\ Cases(T) = B!MsgUpdateParams_Unmarshal
        /\ \A m : Encode(T, m) = Marshal(B!MsgUpdateParams_Size(m), B!MsgUpdateParams_Marshal(m))
    BY <1>4, Zenon DEF MsgType, Zero, Cases, Encode
  <2>2. \A m \in B!MsgUpdateParams_Type : Encodes(T, m)
    BY <2>1, BurnMsgUpdateParamsMeasured, MeasuredMarshal DEF Encodes
  <2>. QED  BY <2>1, <2>2, BurnMsgUpdateParamsFields, BurnMsgUpdateParamsDecodes2 DEF Generated
<1>5. CASE T = "burn.MsgBurn"
  <2>1. /\ MsgType(T) = B!MsgBurn_Type /\ Zero(T) = B!MsgBurn_Zero /\ Cases(T) = B!MsgBurn_Unmarshal
        /\ \A m : Encode(T, m) = Marshal(B!MsgBurn_Size(m), B!MsgBurn_Marshal(m))
    BY <1>5, Zenon DEF MsgType, Zero, Cases, Encode
  <2>2. \A m \in B!MsgBurn_Type : Encodes(T, m)
    BY <2>1, MsgBurnMeasured, MeasuredMarshal DEF Encodes
  <2>. QED  BY <2>1, <2>2, MsgBurnFields, MsgBurnDecodes2 DEF Generated
<1>6. CASE T = "burn.QueryParamsResponse"
  <2>1. /\ MsgType(T) = B!QueryParamsResponse_Type /\ Zero(T) = B!QueryParamsResponse_Zero /\ Cases(T) = B!QueryParamsResponse_Unmarshal
        /\ \A m : Encode(T, m) = Marshal(B!QueryParamsResponse_Size(m), B!QueryParamsResponse_Marshal(m))
    BY <1>6, Zenon DEF MsgType, Zero, Cases, Encode
  <2>2. \A m \in B!QueryParamsResponse_Type : Encodes(T, m)
    BY <2>1, BurnQueryParamsResponseMeasured, MeasuredMarshal DEF Encodes
  <2>. QED  BY <2>1, <2>2, BurnQueryParamsResponseFields, BurnQueryParamsResponseDecodes2 DEF Generated
<1>7. CASE T = "burn.QueryBurnStatsResponse"
  <2>1. /\ MsgType(T) = B!QueryBurnStatsResponse_Type /\ Zero(T) = B!QueryBurnStatsResponse_Zero /\ Cases(T) = B!QueryBurnStatsResponse_Unmarshal
        /\ \A m : Encode(T, m) = Marshal(B!QueryBurnStatsResponse_Size(m), B!QueryBurnStatsResponse_Marshal(m))
    BY <1>7, Zenon DEF MsgType, Zero, Cases, Encode
  <2>2. \A m \in B!QueryBurnStatsResponse_Type : Encodes(T, m)
    BY <2>1, QueryBurnStatsResponseMeasured, MeasuredMarshal DEF Encodes
  <2>. QED  BY <2>1, <2>2, QueryBurnStatsResponseFields, QueryBurnStatsResponseDecodes2 DEF Generated
<1>8. CASE T = "burn.QueryAccountBurnsRequest"
  <2>1. /\ MsgType(T) = B!QueryAccountBurnsRequest_Type /\ Zero(T) = B!QueryAccountBurnsRequest_Zero /\ Cases(T) = B!QueryAccountBurnsRequest_Unmarshal
        /\ \A m : Encode(T, m) = Marshal(B!QueryAccountBurnsRequest_Size(m), B!QueryAccountBurnsRequest_Marshal(m))
    BY <1>8, Zenon DEF MsgType, Zero, Cases, Encode
  <2>2. \A m \in B!QueryAccountBurnsRequest_Type : Encodes(T, m)
    BY <2>1, QueryAccountBurnsRequestMeasured, MeasuredMarshal DEF Encodes
  <2>. QED  BY <2>1, <2>2, QueryAccountBurnsRequestFields, QueryAccountBurnsRequestDecodes2 DEF Generated
<1>9. CASE T = "burn.QueryAccountBurnsResponse"
  <2>1. /\ MsgType(T) = B!QueryAccountBurnsResponse_Type /\ Zero(T) = B!QueryAccountBurnsResponse_Zero /\ Cases(T) = B!QueryAccountBurnsResponse_Unmarshal
        /\ \A m : Encode(T, m) = Marshal(B!QueryAccountBurnsResponse_Size(m), B!QueryAccountBurnsResponse_Marshal(m))
    BY <1>9, Zenon DEF MsgType, Zero, Cases, Encode
  <2>2. \A m \in B!QueryAccountBurnsResponse_Type : Encodes(T, m)
    BY <2>1, QueryAccountBurnsResponseMeasured, MeasuredMarshal DEF Encodes
  <2>. QED  BY <2>1, <2>2, QueryAccountBurnsResponseFields, QueryAccountBurnsResponseDecodes2 DEF Generated
<1>10. CASE T = "validator.Params"
  <2>1. /\ MsgType(T) = V!Params_Type /\ Zero(T) = V!Params_Zero /\ Cases(T) = V!Params_Unmarshal
        /\ \A m : Encode(T, m) = Marshal(V!Params_Size(m), V!Params_Marshal(m))
    BY <1>10, Zenon DEF MsgType, Zero, Cases, Encode
  <2>2. \A m \in V!Params_Type : Encodes(T, m)
    BY <2>1, ValidatorParamsMeasured, MeasuredMarshal DEF Encodes
  <2>. QED  BY <2>1, <2>2, ValidatorParamsFields, ValidatorParamsDecodes2 DEF Generated
<1>11. CASE T = "validator.GenesisState"
  <2>1. /\ MsgType(T) = V!GenesisState_Type /\ Zero(T) = V!GenesisState_Zero /\ Cases(T) = V!GenesisState_Unmarshal
        /\ \A m : Encode(T, m) = Marshal(V!GenesisState_Size(m), V!GenesisState_Marshal(m))
    BY <1>11, Zenon DEF MsgType, Zero, Cases, Encode
  <2>2. \A m \in V!GenesisState_Type : Encodes(T, m)
    BY <2>1, ValidatorGenesisStateMeasured, MeasuredMarshal DEF Encodes
  <2>. QED  BY <2>1, <2>2, ValidatorGenesisStateFields, ValidatorGenesisStateDecodes2 DEF Generated
<1>12. CASE T = "validator.MsgRegisterValidator"
  <2>1. /\ MsgType(T) = V!MsgRegisterValidator_Type /\ Zero(T) = V!MsgRegisterValidator_Zero /\ Cases(T) = V!MsgRegisterValidator_Unmarshal
        /\ \A m : Encode(T, m) = Marshal(V!MsgRegisterValidator_Size(m), V!MsgRegisterValidator_Marshal(m))
    BY <1>12, Zenon DEF MsgType, Zero, Cases, Encode
  <2>2. \A m \in V!MsgRegisterValidator_Type : Encodes(T, m)
    BY <2>1, MsgRegisterValidatorMeasured, MeasuredMarshal DEF Encodes
  <2>. QED  BY <2>1, <2>2, MsgRegisterValidatorFields, MsgRegisterValidatorDecodes2 DEF Generated
<1>13. CASE T = "validator.MsgUpdateParams"
  <2>1. /\ MsgType(T) = V!MsgUpdateParams_Type /\ Zero(T) = V!MsgUpdateParams_Zero /\ Cases(T) = V!MsgUpdateParams_Unmarshal
        /\ \A m : Encode(T, m) = Marshal(V!MsgUpdateParams_Size(m), V!MsgUpdateParams_Marshal(m))
    BY <1>13, Zenon DEF MsgType, Zero, Cases, Encode
  <2>2. \A m \in V!MsgUpdateParams_Type : Encodes(T, m)
    BY <2>1, ValidatorMsgUpdateParamsMeasured, MeasuredMarshal DEF Encodes
  <2>. QED  BY <2>1, <2>2, ValidatorMsgUpdateParamsFields, ValidatorMsgUpdateParamsDecodes2 DEF Generated
<1>14. CASE T = "validator.QueryParamsResponse"
  <2>1. /\ MsgType(T) = V!QueryParamsResponse_Type /\ Zero(T) = V!QueryParamsResponse_Zero /\ Cases(T) = V!QueryParamsResponse_Unmarshal
        /\ \A m : Encode(T, m) = Marshal(V!QueryParamsResponse_Size(m), V!QueryParamsResponse_Marshal(m))
    BY <1>14, Zenon DEF MsgType, Zero, Cases, Encode
  <2>2. \A m \in V!QueryParamsResponse_Type : Encodes(T, m)
    BY <2>1, ValidatorQueryParamsResponseMeasured, MeasuredMarshal DEF Encodes
  <2>. QED  BY <2>1, <2>2, ValidatorQueryParamsResponseFields, ValidatorQueryParamsResponseDecodes2 DEF Generated
<1>15. CASE T = "burn.MsgUpdateParamsResponse"
  <2>1. /\ MsgType(T) = {NoFields} /\ Zero(T) = NoFields /\ Cases(T) = B!MsgUpdateParamsResponse_Unmarshal
        /\ \A m : Encode(T, m) = Marshal(0, B!MsgUpdateParamsResponse_Marshal(m))
    BY <1>15, Zenon DEF MsgType, Zero, Cases, Encode
  <2>2. B!MsgUpdateParamsResponse_Unmarshal = <<>> /\ \A m : B!MsgUpdateParamsResponse_Marshal(m) = <<>>
    BY DEF B!MsgUpdateParamsResponse_Unmarshal, B!MsgUpdateParamsResponse_Marshal
  <2>3. \A m : Encodes(T, m)
    BY <2>1, <2>2, EmptyMeasured, MeasuredMarshal DEF Encodes
  <2>. QED  BY <2>1, <2>2, <2>3, NoFieldsDecode DEF Generated
<1>16. CASE T = "burn.MsgBurnResponse"
  <2>1. /\ MsgType(T) = {NoFields} /\ Zero(T) = NoFields /\ Cases(T) = B!MsgBurnResponse_Unmarshal
        /\ \A m : Encode(T, m) = Marshal(0, B!MsgBurnResponse_Marshal(m))
    BY <1>16, Zenon DEF MsgType, Zero, Cases, Encode
  <2>2. B!MsgBurnResponse_Unmarshal = <<>> /\ \A m : B!MsgBurnResponse_Marshal(m) = <<>>
    BY DEF B!MsgBurnResponse_Unmarshal, B!MsgBurnResponse_Marshal
  <2>3. \A m : Encodes(T, m)
    BY <2>1, <2>2, EmptyMeasured, MeasuredMarshal DEF Encodes
  <2>. QED  BY <2>1, <2>2, <2>3, NoFieldsDecode DEF Generated
<1>17. CASE T = "burn.QueryParamsRequest"
  <2>1. /\ MsgType(T) = {NoFields} /\ Zero(T) = NoFields /\ Cases(T) = B!QueryParamsRequest_Unmarshal
        /\ \A m : Encode(T, m) = Marshal(0, B!QueryParamsRequest_Marshal(m))
    BY <1>17, Zenon DEF MsgType, Zero, Cases, Encode
  <2>2. B!QueryParamsRequest_Unmarshal = <<>> /\ \A m : B!QueryParamsRequest_Marshal(m) = <<>>
    BY DEF B!QueryParamsRequest_Unmarshal, B!QueryParamsRequest_Marshal
  <2>3. \A m : Encodes(T, m)
    BY <2>1, <2>2, EmptyMeasured, MeasuredMarshal DEF Encodes
  <2>. QED  BY <2>1, <2>2, <2>3, NoFieldsDecode DEF Generated
<1>18. CASE T = "burn.QueryBurnStatsRequest"
  <2>1. /\ MsgType(T) = {NoFields} /\ Zero(T) = NoFields /\ Cases(T) = B!QueryBurnStatsRequest_Unmarshal
        /\ \A m : Encode(T, m) = Marshal(0, B!QueryBurnStatsRequest_Marshal(m))
    BY <1>18, Zenon DEF MsgType, Zero, Cases, Encode
  <2>2. B!QueryBurnStatsRequest_Unmarshal = <<>> /\ \A m : B!QueryBurnStatsRequest_Marshal(m) = <<>>
    BY DEF B!QueryBurnStatsRequest_Unmarshal, B!QueryBurnStatsRequest_Marshal
  <2>3. \A m : Encodes(T, m)
    BY <2>1, <2>2, EmptyMeasured, MeasuredMarshal DEF Encodes
  <2>. QED  BY <2>1, <2>2, <2>3, NoFieldsDecode DEF Generated
<1>19. CASE T = "validator.MsgRegisterValidatorResponse"
  <2>1. /\ MsgType(T) = {NoFields} /\ Zero(T) = NoFields /\ Cases(T) = V!MsgRegisterValidatorResponse_Unmarshal
        /\ \A m : Encode(T, m) = Marshal(0, V!MsgRegisterValidatorResponse_Marshal(m))
    BY <1>19, Zenon DEF MsgType, Zero, Cases, Encode
  <2>2. V!MsgRegisterValidatorResponse_Unmarshal = <<>> /\ \A m : V!MsgRegisterValidatorResponse_Marshal(m) = <<>>
    BY DEF V!MsgRegisterValidatorResponse_Unmarshal, V!MsgRegisterValidatorResponse_Marshal
  <2>3. \A m : Encodes(T, m)
    BY <2>1, <2>2, EmptyMeasured, MeasuredMarshal DEF Encodes
  <2>. QED  BY <2>1, <2>2, <2>3, NoFieldsDecode DEF Generated
<1>20. CASE T = "validator.MsgUpdateParamsResponse"
  <2>1. /\ MsgType(T) = {NoFields} /\ Zero(T) = NoFields /\ Cases(T) = V!MsgUpdateParamsResponse_Unmarshal
        /\ \A m : Encode(T, m) = Marshal(0, V!MsgUpdateParamsResponse_Marshal(m))
    BY <1>20, Zenon DEF MsgType, Zero, Cases, Encode
  <2>2. V!MsgUpdateParamsResponse_Unmarshal = <<>> /\ \A m : V!MsgUpdateParamsResponse_Marshal(m) = <<>>
    BY DEF V!MsgUpdateParamsResponse_Unmarshal, V!MsgUpdateParamsResponse_Marshal
  <2>3. \A m : Encodes(T, m)
    BY <2>1, <2>2, EmptyMeasured, MeasuredMarshal DEF Encodes
  <2>. QED  BY <2>1, <2>2, <2>3, NoFieldsDecode DEF Generated
<1>21. CASE T = "validator.QueryParamsRequest"
  <2>1. /\ MsgType(T) = {NoFields} /\ Zero(T) = NoFields /\ Cases(T) = V!QueryParamsRequest_Unmarshal
        /\ \A m : Encode(T, m) = Marshal(0, V!QueryParamsRequest_Marshal(m))
    BY <1>21, Zenon DEF MsgType, Zero, Cases, Encode
  <2>2. V!QueryParamsRequest_Unmarshal = <<>> /\ \A m : V!QueryParamsRequest_Marshal(m) = <<>>
    BY DEF V!QueryParamsRequest_Unmarshal, V!QueryParamsRequest_Marshal
  <2>3. \A m : Encodes(T, m)
    BY <2>1, <2>2, EmptyMeasured, MeasuredMarshal DEF Encodes
  <2>. QED  BY <2>1, <2>2, <2>3, NoFieldsDecode DEF Generated
<1>. QED
  BY <1>1, <1>2, <1>3, <1>4, <1>5, <1>6, <1>7, <1>8, <1>9, <1>10, <1>11, <1>12, <1>13,
     <1>14, <1>15, <1>16, <1>17, <1>18, <1>19, <1>20, <1>21
     DEF TypeNames

LEMMA DecodeTypes ==
  ASSUME NEW T \in TypeNames, NEW bz \in Buffers
  PROVE  Decode(T, bz).st \in {"ok", "err"} /\ Decode(T, bz).m \in MsgType(T)
<1>1. Zero(T) \in MsgType(T) /\ Decodes(decodeField2, Cases(T), MsgType(T))
  BY GeneratedCode DEF Generated
<1>. QED  BY <1>1, Unmarshal2Types DEF Decode

LEMMA EncodeTypes ==
  ASSUME NEW T \in TypeNames, NEW m \in MsgType(T)
  PROVE  Encode(T, m).st = "ok" /\ Encode(T, m).bz \in Seq(Byte)
BY GeneratedCode DEF Generated, Encodes

LEMMA ResponseTypes ==
  /\ \A method \in Methods : method[1] \in TypeNames /\ Response(method[1]) \in TypeNames
  /\ Response("burn.MsgUpdateParams") = "burn.MsgUpdateParamsResponse"
  /\ Response("validator.MsgUpdateParams") = "validator.MsgUpdateParamsResponse"
  /\ Response("burn.QueryParamsRequest") = "burn.QueryParamsResponse"
  /\ Response("validator.QueryParamsRequest") = "validator.QueryParamsResponse"
<1>1. Methods = {<<"burn.MsgUpdateParams", "burn.MsgUpdateParamsResponse">>,
                 <<"burn.MsgBurn", "burn.MsgBurnResponse">>,
                 <<"burn.QueryParamsRequest", "burn.QueryParamsResponse">>,
                 <<"burn.QueryBurnStatsRequest", "burn.QueryBurnStatsResponse">>,
                 <<"burn.QueryAccountBurnsRequest", "burn.QueryAccountBurnsResponse">>,
                 <<"validator.MsgRegisterValidator", "validator.MsgRegisterValidatorResponse">>,
                 <<"validator.MsgUpdateParams", "validator.MsgUpdateParamsResponse">>,
                 <<"validator.QueryParamsRequest", "validator.QueryParamsResponse">>}
  BY DEF Methods, BurnMsgService, BurnQueryService, ValidatorMsgService, ValidatorQueryService
<1>2. ASSUME NEW method \in Methods
      PROVE  /\ method[1] \in TypeNames /\ method[2] \in TypeNames /\ method = <<method[1], method[2]>>
  BY <1>1 DEF TypeNames
<1>3. ASSUME NEW method \in Methods PROVE Response(method[1]) \in TypeNames
  <2>1. \E response \in TypeNames : <<method[1], response>> \in Methods
    BY <1>2
  <2>. QED  BY <2>1 DEF Response
<1>4. ASSUME NEW T, NEW R \in TypeNames, <<T, R>> \in Methods,
             \A response \in TypeNames : <<T, response>> \in Methods => response = R
      PROVE  Response(T) = R
  BY <1>4 DEF Response
<1>5. Response("burn.MsgUpdateParams") = "burn.MsgUpdateParamsResponse"
  BY <1>1, <1>4 DEF TypeNames
<1>6. Response("validator.MsgUpdateParams") = "validator.MsgUpdateParamsResponse"
  BY <1>1, <1>4 DEF TypeNames
<1>7. Response("burn.QueryParamsRequest") = "burn.QueryParamsResponse"
  BY <1>1, <1>4 DEF TypeNames
<1>8. Response("validator.QueryParamsRequest") = "validator.QueryParamsResponse"
  BY <1>1, <1>4 DEF TypeNames
<1>. QED  BY <1>2, <1>3, <1>5, <1>6, <1>7, <1>8

LEMMA MsgTypes ==
  /\ MsgType("burn.Params") = B!Params_Type
  /\ MsgType("validator.Params") = V!Params_Type
  /\ MsgType("burn.MsgUpdateParams") = [Authority : Strings, Params : B!Params_Type]
  /\ MsgType("validator.MsgUpdateParams") = [Authority : Strings, Params : V!Params_Type]
  /\ MsgType("burn.QueryParamsResponse") = [Params : B!Params_Type]
  /\ MsgType("validator.QueryParamsResponse") = [Params : V!Params_Type]
  /\ MsgType("burn.MsgUpdateParamsResponse") = {NoFields}
  /\ MsgType("validator.MsgUpdateParamsResponse") = {NoFields}
<1>1. /\ MsgType("burn.Params") = B!Params_Type
      /\ MsgType("validator.Params") = V!Params_Type
      /\ MsgType("burn.MsgUpdateParams") = B!MsgUpdateParams_Type
      /\ MsgType("validator.MsgUpdateParams") = V!MsgUpdateParams_Type
  BY Zenon DEF MsgType
<1>2. /\ MsgType("burn.QueryParamsResponse") = B!QueryParamsResponse_Type
      /\ MsgType("validator.QueryParamsResponse") = V!QueryParamsResponse_Type
      /\ MsgType("burn.MsgUpdateParamsResponse") = {NoFields}
      /\ MsgType("validator.MsgUpdateParamsResponse") = {NoFields}
  BY Zenon DEF MsgType
<1>3. /\ B!MsgUpdateParams_Type = [Authority : Strings, Params : B!Params_Type]
      /\ V!MsgUpdateParams_Type = [Authority : Strings, Params : V!Params_Type]
  BY BurnOperators, ValidatorOperators DEF B!MsgUpdateParams_Type, V!MsgUpdateParams_Type
<1>4. /\ B!QueryParamsResponse_Type = [Params : B!Params_Type]
      /\ V!QueryParamsResponse_Type = [Params : V!Params_Type]
  BY DEF B!QueryParamsResponse_Type, V!QueryParamsResponse_Type
<1>. QED  BY <1>1, <1>2, <1>3, <1>4

LEMMA ParamsTypes ==
  ASSUME NEW mod \in Modules
  PROVE  ParamsType(mod) \in TypeNames /\ DefaultParams[mod] \in MsgType(ParamsType(mod))
<1>1. /\ DefaultParams["burn"] \in B!Params_Type
      /\ DefaultParams["validator"] \in V!Params_Type
  <2>1. BondDenom \in Strings
    BY WireAssumption
  <2>2. [Denom |-> BondDenom, Amount |-> <<0>>] \in Coin_Type
    BY <2>1, NumberFacts DEF Coin_Type
  <2>. QED  BY <2>2, NumberFacts, BurnOperators, ValidatorOperators
            DEF DefaultParams, B!Params_Type, V!Params_Type
<1>. QED  BY <1>1, MsgTypes DEF Modules, ParamsType, TypeNames

-----------------------------------------------------------------------------
(* Merging: the values of a message's fields after another encoding of it. *)

LEMMA MergedFields ==
  /\ \A n : Written(n) = Normal(n)
  /\ \A n \in Numbers : Written(n) \in Numbers
  /\ \A a \in Strings, b \in Strings :
       /\ Latest(a, b, <<>>) = IF Len(b) > 0 THEN b ELSE a
       /\ Latest(a, b, <<>>) \in Strings
  /\ \A a \in Word, b \in Word :
       Latest(a, b, 0) = (IF b # 0 THEN b ELSE a) /\ Latest(a, b, 0) \in Word
<1>1. \A n : Written(n) = Normal(n)
  BY DEF Written, Normal
<1>2. \A n \in Numbers : Written(n) \in Numbers
  BY <1>1, NumberRoundTrip
<1>3. ASSUME NEW a \in Strings, NEW b \in Strings
      PROVE  /\ Latest(a, b, <<>>) = IF Len(b) > 0 THEN b ELSE a
             /\ Latest(a, b, <<>>) \in Strings
  BY DEF Latest, Strings
<1>. QED  BY <1>1, <1>2, <1>3 DEF Latest

LEMMA CoinMerged ==
  ASSUME NEW a \in Coin_Type, NEW b \in Coin_Type
  PROVE  MergedCoin(a, b) \in Coin_Type
<1>1. /\ a.Denom \in Strings /\ b.Denom \in Strings
      /\ a.Amount \in Numbers /\ b.Amount \in Numbers
  BY DEF Coin_Type
<1>2. /\ Latest(a.Denom, b.Denom, <<>>) \in Strings
      /\ Written(b.Amount) \in Numbers
  BY <1>1, MergedFields
<1>3. MergedCoin(a, b) = [Denom |-> Latest(a.Denom, b.Denom, <<>>), Amount |-> Written(b.Amount)]
  BY DEF MergedCoin
<1>. QED  BY <1>2, <1>3 DEF Coin_Type

LEMMA MsgCreateValidatorMerged ==
  ASSUME NEW a \in MsgCreateValidator_Type, NEW b \in MsgCreateValidator_Type
  PROVE  MergedCreateValidator(a, b) \in MsgCreateValidator_Type
<1>1. /\ a.ValidatorAddress \in Strings /\ b.ValidatorAddress \in Strings
      /\ a.Value \in Coin_Type /\ b.Value \in Coin_Type
  BY DEF MsgCreateValidator_Type
<1>2. /\ Latest(a.ValidatorAddress, b.ValidatorAddress, <<>>) \in Strings
      /\ MergedCoin(a.Value, b.Value) \in Coin_Type
  BY <1>1, MergedFields, CoinMerged
<1>3. MergedCreateValidator(a, b) = [ValidatorAddress |-> Latest(a.ValidatorAddress, b.ValidatorAddress, <<>>), Value |-> MergedCoin(a.Value, b.Value)]
  BY DEF MergedCreateValidator
<1>. QED  BY <1>2, <1>3 DEF MsgCreateValidator_Type

LEMMA BurnParamsMerged ==
  ASSUME NEW a \in B!Params_Type, NEW b \in B!Params_Type
  PROVE  MergedBurnParams(a, b) \in B!Params_Type
<1>1. /\ a.FeeBurnPercent \in Numbers /\ b.FeeBurnPercent \in Numbers
  BY BurnOperators DEF B!Params_Type
<1>2. /\ Written(b.FeeBurnPercent) \in Numbers
  BY <1>1, MergedFields
<1>3. MergedBurnParams(a, b) = [FeeBurnPercent |-> Written(b.FeeBurnPercent)]
  BY DEF MergedBurnParams
<1>. QED  BY <1>2, <1>3, BurnOperators DEF B!Params_Type

LEMMA AccountBurnRecordMerged ==
  ASSUME NEW a \in B!AccountBurnRecord_Type, NEW b \in B!AccountBurnRecord_Type
  PROVE  MergedRecord(a, b) \in B!AccountBurnRecord_Type
<1>1. /\ a.Address \in Strings /\ b.Address \in Strings
      /\ a.Total \in Numbers /\ b.Total \in Numbers
  BY BurnOperators DEF B!AccountBurnRecord_Type
<1>2. /\ Latest(a.Address, b.Address, <<>>) \in Strings
      /\ Written(b.Total) \in Numbers
  BY <1>1, MergedFields
<1>3. MergedRecord(a, b) = [Address |-> Latest(a.Address, b.Address, <<>>), Total |-> Written(b.Total)]
  BY DEF MergedRecord
<1>. QED  BY <1>2, <1>3, BurnOperators DEF B!AccountBurnRecord_Type

LEMMA BurnMsgUpdateParamsMerged ==
  ASSUME NEW a \in B!MsgUpdateParams_Type, NEW b \in B!MsgUpdateParams_Type
  PROVE  Merged("burn.MsgUpdateParams", a, b) \in B!MsgUpdateParams_Type
<1>1. /\ a.Authority \in Strings /\ b.Authority \in Strings
      /\ a.Params \in B!Params_Type /\ b.Params \in B!Params_Type
  BY BurnOperators DEF B!MsgUpdateParams_Type
<1>2. /\ Latest(a.Authority, b.Authority, <<>>) \in Strings
      /\ MergedBurnParams(a.Params, b.Params) \in B!Params_Type
  BY <1>1, MergedFields, BurnParamsMerged
<1>3. Merged("burn.MsgUpdateParams", a, b) = [Authority |-> Latest(a.Authority, b.Authority, <<>>), Params |-> MergedBurnParams(a.Params, b.Params)]
  BY Zenon DEF Merged
<1>. QED  BY <1>2, <1>3, BurnOperators DEF B!MsgUpdateParams_Type

LEMMA MsgBurnMerged ==
  ASSUME NEW a \in B!MsgBurn_Type, NEW b \in B!MsgBurn_Type
  PROVE  Merged("burn.MsgBurn", a, b) \in B!MsgBurn_Type
<1>1. /\ a.FromAddress \in Strings /\ b.FromAddress \in Strings
      /\ a.Amount \in Coin_Type /\ b.Amount \in Coin_Type
  BY BurnOperators DEF B!MsgBurn_Type
<1>2. /\ Latest(a.FromAddress, b.FromAddress, <<>>) \in Strings
      /\ MergedCoin(a.Amount, b.Amount) \in Coin_Type
  BY <1>1, MergedFields, CoinMerged
<1>3. Merged("burn.MsgBurn", a, b) = [FromAddress |-> Latest(a.FromAddress, b.FromAddress, <<>>), Amount |-> MergedCoin(a.Amount, b.Amount)]
  BY Zenon DEF Merged
<1>. QED  BY <1>2, <1>3, BurnOperators DEF B!MsgBurn_Type

LEMMA BurnQueryParamsResponseMerged ==
  ASSUME NEW a \in B!QueryParamsResponse_Type, NEW b \in B!QueryParamsResponse_Type
  PROVE  Merged("burn.QueryParamsResponse", a, b) \in B!QueryParamsResponse_Type
<1>1. /\ a.Params \in B!Params_Type /\ b.Params \in B!Params_Type
  BY BurnOperators DEF B!QueryParamsResponse_Type
<1>2. /\ MergedBurnParams(a.Params, b.Params) \in B!Params_Type
  BY <1>1, BurnParamsMerged
<1>3. Merged("burn.QueryParamsResponse", a, b) = [Params |-> MergedBurnParams(a.Params, b.Params)]
  BY Zenon DEF Merged
<1>. QED  BY <1>2, <1>3, BurnOperators DEF B!QueryParamsResponse_Type

LEMMA QueryBurnStatsResponseMerged ==
  ASSUME NEW a \in B!QueryBurnStatsResponse_Type, NEW b \in B!QueryBurnStatsResponse_Type
  PROVE  Merged("burn.QueryBurnStatsResponse", a, b) \in B!QueryBurnStatsResponse_Type
<1>1. /\ a.TotalBurns \in Word /\ b.TotalBurns \in Word
      /\ a.TotalBurned \in Strings /\ b.TotalBurned \in Strings
  BY BurnOperators DEF B!QueryBurnStatsResponse_Type
<1>2. /\ Latest(a.TotalBurns, b.TotalBurns, 0) \in Word
      /\ Latest(a.TotalBurned, b.TotalBurned, <<>>) \in Strings
  BY <1>1, MergedFields
<1>3. Merged("burn.QueryBurnStatsResponse", a, b) = [TotalBurns |-> Latest(a.TotalBurns, b.TotalBurns, 0), TotalBurned |-> Latest(a.TotalBurned, b.TotalBurned, <<>>)]
  BY Zenon DEF Merged
<1>. QED  BY <1>2, <1>3, BurnOperators DEF B!QueryBurnStatsResponse_Type

LEMMA QueryAccountBurnsRequestMerged ==
  ASSUME NEW a \in B!QueryAccountBurnsRequest_Type, NEW b \in B!QueryAccountBurnsRequest_Type
  PROVE  Merged("burn.QueryAccountBurnsRequest", a, b) \in B!QueryAccountBurnsRequest_Type
<1>1. /\ a.Address \in Strings /\ b.Address \in Strings
  BY BurnOperators DEF B!QueryAccountBurnsRequest_Type
<1>2. /\ Latest(a.Address, b.Address, <<>>) \in Strings
  BY <1>1, MergedFields
<1>3. Merged("burn.QueryAccountBurnsRequest", a, b) = [Address |-> Latest(a.Address, b.Address, <<>>)]
  BY Zenon DEF Merged
<1>. QED  BY <1>2, <1>3, BurnOperators DEF B!QueryAccountBurnsRequest_Type

LEMMA QueryAccountBurnsResponseMerged ==
  ASSUME NEW a \in B!QueryAccountBurnsResponse_Type, NEW b \in B!QueryAccountBurnsResponse_Type
  PROVE  Merged("burn.QueryAccountBurnsResponse", a, b) \in B!QueryAccountBurnsResponse_Type
<1>1. /\ a.Amount \in Strings /\ b.Amount \in Strings
  BY BurnOperators DEF B!QueryAccountBurnsResponse_Type
<1>2. /\ Latest(a.Amount, b.Amount, <<>>) \in Strings
  BY <1>1, MergedFields
<1>3. Merged("burn.QueryAccountBurnsResponse", a, b) = [Amount |-> Latest(a.Amount, b.Amount, <<>>)]
  BY Zenon DEF Merged
<1>. QED  BY <1>2, <1>3, BurnOperators DEF B!QueryAccountBurnsResponse_Type

LEMMA ValidatorParamsMerged ==
  ASSUME NEW a \in V!Params_Type, NEW b \in V!Params_Type
  PROVE  MergedValidatorParams(a, b) \in V!Params_Type
<1>1. /\ a.ValidatorRegistrationBurn \in Coin_Type /\ b.ValidatorRegistrationBurn \in Coin_Type
      /\ a.ValidatorMinSelfDelegation \in Coin_Type /\ b.ValidatorMinSelfDelegation \in Coin_Type
  BY ValidatorOperators DEF V!Params_Type
<1>2. /\ MergedCoin(a.ValidatorRegistrationBurn, b.ValidatorRegistrationBurn) \in Coin_Type
      /\ MergedCoin(a.ValidatorMinSelfDelegation, b.ValidatorMinSelfDelegation) \in Coin_Type
  BY <1>1, CoinMerged
<1>3. MergedValidatorParams(a, b) = [ValidatorRegistrationBurn |-> MergedCoin(a.ValidatorRegistrationBurn, b.ValidatorRegistrationBurn), ValidatorMinSelfDelegation |-> MergedCoin(a.ValidatorMinSelfDelegation, b.ValidatorMinSelfDelegation)]
  BY DEF MergedValidatorParams
<1>. QED  BY <1>2, <1>3, ValidatorOperators DEF V!Params_Type

LEMMA ValidatorGenesisStateMerged ==
  ASSUME NEW a \in V!GenesisState_Type, NEW b \in V!GenesisState_Type
  PROVE  Merged("validator.GenesisState", a, b) \in V!GenesisState_Type
<1>1. /\ a.Params \in V!Params_Type /\ b.Params \in V!Params_Type
  BY ValidatorOperators DEF V!GenesisState_Type
<1>2. /\ MergedValidatorParams(a.Params, b.Params) \in V!Params_Type
  BY <1>1, ValidatorParamsMerged
<1>3. Merged("validator.GenesisState", a, b) = [Params |-> MergedValidatorParams(a.Params, b.Params)]
  BY Zenon DEF Merged
<1>. QED  BY <1>2, <1>3, ValidatorOperators DEF V!GenesisState_Type

LEMMA MsgRegisterValidatorMerged ==
  ASSUME NEW a \in V!MsgRegisterValidator_Type, NEW b \in V!MsgRegisterValidator_Type
  PROVE  Merged("validator.MsgRegisterValidator", a, b) \in V!MsgRegisterValidator_Type
<1>1. /\ a.Sender \in Strings /\ b.Sender \in Strings
      /\ a.CreateValidator \in MsgCreateValidator_Type /\ b.CreateValidator \in MsgCreateValidator_Type
      /\ a.Burn \in Coin_Type /\ b.Burn \in Coin_Type
  BY ValidatorOperators DEF V!MsgRegisterValidator_Type
<1>2. /\ Latest(a.Sender, b.Sender, <<>>) \in Strings
      /\ MergedCreateValidator(a.CreateValidator, b.CreateValidator) \in MsgCreateValidator_Type
      /\ MergedCoin(a.Burn, b.Burn) \in Coin_Type
  BY <1>1, MergedFields, CoinMerged, MsgCreateValidatorMerged
<1>3. Merged("validator.MsgRegisterValidator", a, b) = [Sender |-> Latest(a.Sender, b.Sender, <<>>), CreateValidator |-> MergedCreateValidator(a.CreateValidator, b.CreateValidator), Burn |-> MergedCoin(a.Burn, b.Burn)]
  BY Zenon DEF Merged
<1>. QED  BY <1>2, <1>3, ValidatorOperators DEF V!MsgRegisterValidator_Type

LEMMA ValidatorMsgUpdateParamsMerged ==
  ASSUME NEW a \in V!MsgUpdateParams_Type, NEW b \in V!MsgUpdateParams_Type
  PROVE  Merged("validator.MsgUpdateParams", a, b) \in V!MsgUpdateParams_Type
<1>1. /\ a.Authority \in Strings /\ b.Authority \in Strings
      /\ a.Params \in V!Params_Type /\ b.Params \in V!Params_Type
  BY ValidatorOperators DEF V!MsgUpdateParams_Type
<1>2. /\ Latest(a.Authority, b.Authority, <<>>) \in Strings
      /\ MergedValidatorParams(a.Params, b.Params) \in V!Params_Type
  BY <1>1, MergedFields, ValidatorParamsMerged
<1>3. Merged("validator.MsgUpdateParams", a, b) = [Authority |-> Latest(a.Authority, b.Authority, <<>>), Params |-> MergedValidatorParams(a.Params, b.Params)]
  BY Zenon DEF Merged
<1>. QED  BY <1>2, <1>3, ValidatorOperators DEF V!MsgUpdateParams_Type

LEMMA ValidatorQueryParamsResponseMerged ==
  ASSUME NEW a \in V!QueryParamsResponse_Type, NEW b \in V!QueryParamsResponse_Type
  PROVE  Merged("validator.QueryParamsResponse", a, b) \in V!QueryParamsResponse_Type
<1>1. /\ a.Params \in V!Params_Type /\ b.Params \in V!Params_Type
  BY ValidatorOperators DEF V!QueryParamsResponse_Type
<1>2. /\ MergedValidatorParams(a.Params, b.Params) \in V!Params_Type
  BY <1>1, ValidatorParamsMerged
<1>3. Merged("validator.QueryParamsResponse", a, b) = [Params |-> MergedValidatorParams(a.Params, b.Params)]
  BY Zenon DEF Merged
<1>. QED  BY <1>2, <1>3, ValidatorOperators DEF V!QueryParamsResponse_Type

-----------------------------------------------------------------------------
(* What a message's Marshal writes, its Unmarshal reads: every field       *)
(* becomes the merged one.                                                 *)

LEMMA CoinWrites0 ==
  ASSUME NEW dAtA, NEW T, NEW after, Loops0(Coin_Unmarshal, Coin_Type, dAtA, T, after),
         NEW a \in Coin_Type, NEW b \in Coin_Type
  PROVE  Writes(after, dAtA, a, Coin_Marshal(b), MergedCoin(a, b))
<1>1. /\ a.Denom \in Strings /\ b.Denom \in Strings
      /\ a.Amount \in Numbers /\ b.Amount \in Numbers
      /\ a = [Denom |-> a.Denom, Amount |-> a.Amount]
  BY DEF Coin_Type
<1>2. PICK v1 : v1 = Latest(a.Denom, b.Denom, <<>>)
  OBVIOUS
<1>3. PICK v2 : v2 = Written(b.Amount)
  OBVIOUS
<1>4. /\ v1 \in Strings
      /\ v2 \in Numbers
  BY <1>1, <1>2, <1>3, MergedFields
<1>5. PICK x0 : x0 = [Denom |-> a.Denom, Amount |-> a.Amount]
  OBVIOUS
<1>6. PICK x1 : x1 = [Denom |-> v1, Amount |-> a.Amount]
  OBVIOUS
<1>7. PICK x2 : x2 = [Denom |-> v1, Amount |-> v2]
  OBVIOUS
<1>8. /\ x0 \in Coin_Type
      /\ x1 \in Coin_Type
  BY <1>1, <1>4, <1>5, <1>6 DEF Coin_Type
<1>9. Writes(after, dAtA, x2, <<>>, x2)
  BY WritesNothing
<1>10. /\ 1 \in DOMAIN Coin_Unmarshal /\ Coin_Unmarshal[1] = String("Denom")
       /\ 2 \in DOMAIN Coin_Unmarshal /\ Coin_Unmarshal[2] = Number("Amount")
  <2>1. Coin_Unmarshal = <<String("Denom"), Number("Amount")>>
    BY DEF Coin_Unmarshal
  <2>. QED  BY <2>1
<1>11. Writes(after, dAtA, x1, PutBytes(2, Number_Marshal(b.Amount), <<>>), x2)
  <2>1. x2 = With(x1, "Amount", Normal(b.Amount))
    BY <1>1, <1>3, <1>6, <1>7, MergedFields DEF With
  <2>. QED  BY <1>1, <1>8, <1>10, <1>9, <2>1, NumberWrites0
<1>12. Writes(after, dAtA, x0, PutString(1, b.Denom, PutBytes(2, Number_Marshal(b.Amount), <<>>)), x2)
  <2>1. PICK s \in Strings : s = b.Denom
    BY <1>1
  <2>2. x1 = (IF Len(s) > 0 THEN With(x0, "Denom", s) ELSE x0)
    BY <1>1, <1>2, <1>5, <1>6, <2>1, MergedFields DEF With
  <2>3. Writes(after, dAtA, x0, PutString(1, s, PutBytes(2, Number_Marshal(b.Amount), <<>>)), x2)
    BY <1>8, <1>10, <1>11, <2>2, StringWrites0
  <2>. QED  BY <2>1, <2>3
<1>13. Coin_Marshal(b) = PutString(1, b.Denom, PutBytes(2, Number_Marshal(b.Amount), <<>>))
  BY DEF Coin_Marshal
<1>14. MergedCoin(a, b) = x2
  <2>1. MergedCoin(a, b) = [Denom |-> Latest(a.Denom, b.Denom, <<>>), Amount |-> Written(b.Amount)]
    BY DEF MergedCoin
  <2>. QED  BY <2>1, <1>2, <1>3, <1>7
<1>. QED  BY <1>1, <1>5, <1>12, <1>13, <1>14

LEMMA CoinReads0 ==
  ASSUME NEW a \in Coin_Type, NEW b \in Coin_Type, Coin_Marshal(b) \in Buffers
  PROVE  Unmarshal0(Coin_Unmarshal, a, Coin_Marshal(b)) = [st |-> "ok", m |-> MergedCoin(a, b)]
<1>1. PICK dAtA \in Buffers : dAtA = Coin_Marshal(b)
  OBVIOUS
<1>2. PICK out : out = Unmarshal0(Coin_Unmarshal, a, dAtA)
  OBVIOUS
<1>3. PICK T, after : /\ Switches(decodeScalar, Coin_Unmarshal, Coin_Type, dAtA, T)
                      /\ IsUnmarshal(T, Coin_Type, a, dAtA, after, out)
  BY <1>2, CoinDecodes0, Unmarshal0Runs
<1>4. Loops0(Coin_Unmarshal, Coin_Type, dAtA, T, after)
  BY <1>3 DEF Loops0, Loops
<1>5. Writes(after, dAtA, a, dAtA, MergedCoin(a, b))
  BY <1>1, <1>4, CoinWrites0
<1>. QED  BY <1>1, <1>2, <1>3, <1>5, WrittenIsRead

LEMMA CoinWrites1 ==
  ASSUME NEW dAtA, NEW T, NEW after, Loops1(Coin_Unmarshal, Coin_Type, dAtA, T, after),
         NEW a \in Coin_Type, NEW b \in Coin_Type
  PROVE  Writes(after, dAtA, a, Coin_Marshal(b), MergedCoin(a, b))
<1>1. /\ a.Denom \in Strings /\ b.Denom \in Strings
      /\ a.Amount \in Numbers /\ b.Amount \in Numbers
      /\ a = [Denom |-> a.Denom, Amount |-> a.Amount]
  BY DEF Coin_Type
<1>2. PICK v1 : v1 = Latest(a.Denom, b.Denom, <<>>)
  OBVIOUS
<1>3. PICK v2 : v2 = Written(b.Amount)
  OBVIOUS
<1>4. /\ v1 \in Strings
      /\ v2 \in Numbers
  BY <1>1, <1>2, <1>3, MergedFields
<1>5. PICK x0 : x0 = [Denom |-> a.Denom, Amount |-> a.Amount]
  OBVIOUS
<1>6. PICK x1 : x1 = [Denom |-> v1, Amount |-> a.Amount]
  OBVIOUS
<1>7. PICK x2 : x2 = [Denom |-> v1, Amount |-> v2]
  OBVIOUS
<1>8. /\ x0 \in Coin_Type
      /\ x1 \in Coin_Type
  BY <1>1, <1>4, <1>5, <1>6 DEF Coin_Type
<1>9. Writes(after, dAtA, x2, <<>>, x2)
  BY WritesNothing
<1>10. /\ 1 \in DOMAIN Coin_Unmarshal /\ Coin_Unmarshal[1] = String("Denom")
       /\ 2 \in DOMAIN Coin_Unmarshal /\ Coin_Unmarshal[2] = Number("Amount")
  <2>1. Coin_Unmarshal = <<String("Denom"), Number("Amount")>>
    BY DEF Coin_Unmarshal
  <2>. QED  BY <2>1
<1>11. Writes(after, dAtA, x1, PutBytes(2, Number_Marshal(b.Amount), <<>>), x2)
  <2>1. x2 = With(x1, "Amount", Normal(b.Amount))
    BY <1>1, <1>3, <1>6, <1>7, MergedFields DEF With
  <2>. QED  BY <1>1, <1>8, <1>10, <1>9, <2>1, NumberWrites1
<1>12. Writes(after, dAtA, x0, PutString(1, b.Denom, PutBytes(2, Number_Marshal(b.Amount), <<>>)), x2)
  <2>1. PICK s \in Strings : s = b.Denom
    BY <1>1
  <2>2. x1 = (IF Len(s) > 0 THEN With(x0, "Denom", s) ELSE x0)
    BY <1>1, <1>2, <1>5, <1>6, <2>1, MergedFields DEF With
  <2>3. Writes(after, dAtA, x0, PutString(1, s, PutBytes(2, Number_Marshal(b.Amount), <<>>)), x2)
    BY <1>8, <1>10, <1>11, <2>2, StringWrites1
  <2>. QED  BY <2>1, <2>3
<1>13. Coin_Marshal(b) = PutString(1, b.Denom, PutBytes(2, Number_Marshal(b.Amount), <<>>))
  BY DEF Coin_Marshal
<1>14. MergedCoin(a, b) = x2
  <2>1. MergedCoin(a, b) = [Denom |-> Latest(a.Denom, b.Denom, <<>>), Amount |-> Written(b.Amount)]
    BY DEF MergedCoin
  <2>. QED  BY <2>1, <1>2, <1>3, <1>7
<1>. QED  BY <1>1, <1>5, <1>12, <1>13, <1>14

LEMMA CoinReads1 ==
  ASSUME NEW a \in Coin_Type, NEW b \in Coin_Type, Coin_Marshal(b) \in Buffers
  PROVE  Unmarshal1(Coin_Unmarshal, a, Coin_Marshal(b)) = [st |-> "ok", m |-> MergedCoin(a, b)]
<1>1. PICK dAtA \in Buffers : dAtA = Coin_Marshal(b)
  OBVIOUS
<1>2. PICK out : out = Unmarshal1(Coin_Unmarshal, a, dAtA)
  OBVIOUS
<1>3. PICK T, after : /\ Switches(decodeField1, Coin_Unmarshal, Coin_Type, dAtA, T)
                      /\ IsUnmarshal(T, Coin_Type, a, dAtA, after, out)
  BY <1>2, CoinDecodes1, Unmarshal1Runs
<1>4. Loops1(Coin_Unmarshal, Coin_Type, dAtA, T, after)
  BY <1>3 DEF Loops1, Loops
<1>5. Writes(after, dAtA, a, dAtA, MergedCoin(a, b))
  BY <1>1, <1>4, CoinWrites1
<1>. QED  BY <1>1, <1>2, <1>3, <1>5, WrittenIsRead

LEMMA MsgCreateValidatorWrites1 ==
  ASSUME NEW dAtA, NEW T, NEW after, Loops1(MsgCreateValidator_Unmarshal, MsgCreateValidator_Type, dAtA, T, after),
         NEW a \in MsgCreateValidator_Type, NEW b \in MsgCreateValidator_Type
  PROVE  Writes(after, dAtA, a, MsgCreateValidator_Marshal(b), MergedCreateValidator(a, b))
<1>1. /\ a.ValidatorAddress \in Strings /\ b.ValidatorAddress \in Strings
      /\ a.Value \in Coin_Type /\ b.Value \in Coin_Type
      /\ a = [ValidatorAddress |-> a.ValidatorAddress, Value |-> a.Value]
  BY DEF MsgCreateValidator_Type
<1>2. PICK v1 : v1 = Latest(a.ValidatorAddress, b.ValidatorAddress, <<>>)
  OBVIOUS
<1>3. PICK v2 : v2 = MergedCoin(a.Value, b.Value)
  OBVIOUS
<1>4. /\ v1 \in Strings
      /\ v2 \in Coin_Type
  BY <1>1, <1>2, <1>3, MergedFields, CoinMerged
<1>5. PICK x0 : x0 = [ValidatorAddress |-> a.ValidatorAddress, Value |-> a.Value]
  OBVIOUS
<1>6. PICK x1 : x1 = [ValidatorAddress |-> v1, Value |-> a.Value]
  OBVIOUS
<1>7. PICK x2 : x2 = [ValidatorAddress |-> v1, Value |-> v2]
  OBVIOUS
<1>8. /\ x0 \in MsgCreateValidator_Type
      /\ x1 \in MsgCreateValidator_Type
  BY <1>1, <1>4, <1>5, <1>6 DEF MsgCreateValidator_Type
<1>9. Writes(after, dAtA, x2, <<>>, x2)
  BY WritesNothing
<1>10. /\ 5 \in DOMAIN MsgCreateValidator_Unmarshal /\ MsgCreateValidator_Unmarshal[5] = String("ValidatorAddress")
       /\ 7 \in DOMAIN MsgCreateValidator_Unmarshal /\ MsgCreateValidator_Unmarshal[7] = Message("Value", Coin_Unmarshal)
  BY DEF MsgCreateValidator_Unmarshal
<1>11. Writes(after, dAtA, x1, PutBytes(7, Coin_Marshal(b.Value), <<>>), x2)
  <2>1. x2 = With(x1, "Value", v2) /\ x1["Value"] = a.Value
    BY <1>1, <1>3, <1>6, <1>7 DEF With
  <2>2. PICK bz : bz = Coin_Marshal(b.Value)
    OBVIOUS
  <2>3. bz \in Seq(Byte)
    BY <1>1, <2>2, CoinMeasured DEF Measured
  <2>4. bz \in Buffers => Unmarshal0(Coin_Unmarshal, x1["Value"], bz) = [st |-> "ok", m |-> v2]
    BY <1>1, <1>3, <2>1, <2>2, CoinReads0
  <2>5. Writes(after, dAtA, x1, PutBytes(7, bz, <<>>), x2)
    BY <1>8, <1>10, <1>9, <2>1, <2>3, <2>4, MessageWrites1
  <2>. QED  BY <2>2, <2>5
<1>12. Writes(after, dAtA, x0, PutString(5, b.ValidatorAddress, PutBytes(7, Coin_Marshal(b.Value), <<>>)), x2)
  <2>1. PICK s \in Strings : s = b.ValidatorAddress
    BY <1>1
  <2>2. x1 = (IF Len(s) > 0 THEN With(x0, "ValidatorAddress", s) ELSE x0)
    BY <1>1, <1>2, <1>5, <1>6, <2>1, MergedFields DEF With
  <2>3. Writes(after, dAtA, x0, PutString(5, s, PutBytes(7, Coin_Marshal(b.Value), <<>>)), x2)
    BY <1>8, <1>10, <1>11, <2>2, StringWrites1
  <2>. QED  BY <2>1, <2>3
<1>13. MsgCreateValidator_Marshal(b) = PutString(5, b.ValidatorAddress, PutBytes(7, Coin_Marshal(b.Value), <<>>))
  BY DEF MsgCreateValidator_Marshal
<1>14. MergedCreateValidator(a, b) = x2
  <2>1. MergedCreateValidator(a, b) = [ValidatorAddress |-> Latest(a.ValidatorAddress, b.ValidatorAddress, <<>>), Value |-> MergedCoin(a.Value, b.Value)]
    BY DEF MergedCreateValidator
  <2>. QED  BY <2>1, <1>2, <1>3, <1>7
<1>. QED  BY <1>1, <1>5, <1>12, <1>13, <1>14

LEMMA MsgCreateValidatorReads1 ==
  ASSUME NEW a \in MsgCreateValidator_Type, NEW b \in MsgCreateValidator_Type, MsgCreateValidator_Marshal(b) \in Buffers
  PROVE  Unmarshal1(MsgCreateValidator_Unmarshal, a, MsgCreateValidator_Marshal(b)) = [st |-> "ok", m |-> MergedCreateValidator(a, b)]
<1>1. PICK dAtA \in Buffers : dAtA = MsgCreateValidator_Marshal(b)
  OBVIOUS
<1>2. PICK out : out = Unmarshal1(MsgCreateValidator_Unmarshal, a, dAtA)
  OBVIOUS
<1>3. PICK T, after : /\ Switches(decodeField1, MsgCreateValidator_Unmarshal, MsgCreateValidator_Type, dAtA, T)
                      /\ IsUnmarshal(T, MsgCreateValidator_Type, a, dAtA, after, out)
  BY <1>2, MsgCreateValidatorDecodes1, Unmarshal1Runs
<1>4. Loops1(MsgCreateValidator_Unmarshal, MsgCreateValidator_Type, dAtA, T, after)
  BY <1>3 DEF Loops1, Loops
<1>5. Writes(after, dAtA, a, dAtA, MergedCreateValidator(a, b))
  BY <1>1, <1>4, MsgCreateValidatorWrites1
<1>. QED  BY <1>1, <1>2, <1>3, <1>5, WrittenIsRead

LEMMA BurnParamsWrites1 ==
  ASSUME NEW dAtA, NEW T, NEW after, Loops1(B!Params_Unmarshal, B!Params_Type, dAtA, T, after),
         NEW a \in B!Params_Type, NEW b \in B!Params_Type
  PROVE  Writes(after, dAtA, a, B!Params_Marshal(b), MergedBurnParams(a, b))
<1>1. /\ a.FeeBurnPercent \in Numbers /\ b.FeeBurnPercent \in Numbers
      /\ a = [FeeBurnPercent |-> a.FeeBurnPercent]
  BY BurnOperators DEF B!Params_Type
<1>2. PICK v1 : v1 = Written(b.FeeBurnPercent)
  OBVIOUS
<1>3. /\ v1 \in Numbers
  BY <1>1, <1>2, MergedFields
<1>4. PICK x0 : x0 = [FeeBurnPercent |-> a.FeeBurnPercent]
  OBVIOUS
<1>5. PICK x1 : x1 = [FeeBurnPercent |-> v1]
  OBVIOUS
<1>6. /\ x0 \in B!Params_Type
  BY <1>1, <1>3, <1>4, BurnOperators DEF B!Params_Type
<1>7. Writes(after, dAtA, x1, <<>>, x1)
  BY WritesNothing
<1>8. /\ 1 \in DOMAIN B!Params_Unmarshal /\ B!Params_Unmarshal[1] = Number("FeeBurnPercent")
  <2>1. B!Params_Unmarshal = <<Number("FeeBurnPercent")>>
    BY BurnOperators DEF B!Params_Unmarshal
  <2>. QED  BY <2>1
<1>9. Writes(after, dAtA, x0, PutBytes(1, Number_Marshal(b.FeeBurnPercent), <<>>), x1)
  <2>1. x1 = With(x0, "FeeBurnPercent", Normal(b.FeeBurnPercent))
    BY <1>1, <1>2, <1>4, <1>5, MergedFields DEF With
  <2>. QED  BY <1>1, <1>6, <1>8, <1>7, <2>1, NumberWrites1
<1>10. B!Params_Marshal(b) = PutBytes(1, Number_Marshal(b.FeeBurnPercent), <<>>)
  BY BurnOperators DEF B!Params_Marshal
<1>11. MergedBurnParams(a, b) = x1
  <2>1. MergedBurnParams(a, b) = [FeeBurnPercent |-> Written(b.FeeBurnPercent)]
    BY DEF MergedBurnParams
  <2>. QED  BY <2>1, <1>2, <1>5
<1>. QED  BY <1>1, <1>4, <1>9, <1>10, <1>11

LEMMA BurnParamsReads1 ==
  ASSUME NEW a \in B!Params_Type, NEW b \in B!Params_Type, B!Params_Marshal(b) \in Buffers
  PROVE  Unmarshal1(B!Params_Unmarshal, a, B!Params_Marshal(b)) = [st |-> "ok", m |-> MergedBurnParams(a, b)]
<1>1. PICK dAtA \in Buffers : dAtA = B!Params_Marshal(b)
  OBVIOUS
<1>2. PICK out : out = Unmarshal1(B!Params_Unmarshal, a, dAtA)
  OBVIOUS
<1>3. PICK T, after : /\ Switches(decodeField1, B!Params_Unmarshal, B!Params_Type, dAtA, T)
                      /\ IsUnmarshal(T, B!Params_Type, a, dAtA, after, out)
  BY <1>2, BurnParamsDecodes1, Unmarshal1Runs
<1>4. Loops1(B!Params_Unmarshal, B!Params_Type, dAtA, T, after)
  BY <1>3 DEF Loops1, Loops
<1>5. Writes(after, dAtA, a, dAtA, MergedBurnParams(a, b))
  BY <1>1, <1>4, BurnParamsWrites1
<1>. QED  BY <1>1, <1>2, <1>3, <1>5, WrittenIsRead

LEMMA BurnParamsCodes2 ==
  ASSUME NEW dAtA, NEW T, NEW after, Loops2(B!Params_Unmarshal, B!Params_Type, dAtA, T, after),
         NEW a \in B!Params_Type, NEW b \in B!Params_Type
  PROVE  Codes(after, dAtA, a, B!Params_Marshal(b), MergedBurnParams(a, b))
<1>1. /\ a.FeeBurnPercent \in Numbers /\ b.FeeBurnPercent \in Numbers
      /\ a = [FeeBurnPercent |-> a.FeeBurnPercent]
  BY BurnOperators DEF B!Params_Type
<1>2. PICK v1 : v1 = Written(b.FeeBurnPercent)
  OBVIOUS
<1>3. /\ v1 \in Numbers
  BY <1>1, <1>2, MergedFields
<1>4. PICK x0 : x0 = [FeeBurnPercent |-> a.FeeBurnPercent]
  OBVIOUS
<1>5. PICK x1 : x1 = [FeeBurnPercent |-> v1]
  OBVIOUS
<1>6. /\ x0 \in B!Params_Type
  BY <1>1, <1>3, <1>4, BurnOperators DEF B!Params_Type
<1>7. Codes(after, dAtA, x1, <<>>, x1)
  BY CodesNothing
<1>8. /\ 1 \in DOMAIN B!Params_Unmarshal /\ B!Params_Unmarshal[1] = Number("FeeBurnPercent")
  <2>1. B!Params_Unmarshal = <<Number("FeeBurnPercent")>>
    BY BurnOperators DEF B!Params_Unmarshal
  <2>. QED  BY <2>1
<1>9. Codes(after, dAtA, x0, PutBytes(1, Number_Marshal(b.FeeBurnPercent), <<>>), x1)
  <2>1. x1 = With(x0, "FeeBurnPercent", Normal(b.FeeBurnPercent))
    BY <1>1, <1>2, <1>4, <1>5, MergedFields DEF With
  <2>. QED  BY <1>1, <1>6, <1>8, <1>7, <2>1, NumberCodes2
<1>10. B!Params_Marshal(b) = PutBytes(1, Number_Marshal(b.FeeBurnPercent), <<>>)
  BY BurnOperators DEF B!Params_Marshal
<1>11. MergedBurnParams(a, b) = x1
  <2>1. MergedBurnParams(a, b) = [FeeBurnPercent |-> Written(b.FeeBurnPercent)]
    BY DEF MergedBurnParams
  <2>. QED  BY <2>1, <1>2, <1>5
<1>. QED  BY <1>1, <1>4, <1>9, <1>10, <1>11

LEMMA AccountBurnRecordWrites1 ==
  ASSUME NEW dAtA, NEW T, NEW after, Loops1(B!AccountBurnRecord_Unmarshal, B!AccountBurnRecord_Type, dAtA, T, after),
         NEW a \in B!AccountBurnRecord_Type, NEW b \in B!AccountBurnRecord_Type
  PROVE  Writes(after, dAtA, a, B!AccountBurnRecord_Marshal(b), MergedRecord(a, b))
<1>1. /\ a.Address \in Strings /\ b.Address \in Strings
      /\ a.Total \in Numbers /\ b.Total \in Numbers
      /\ a = [Address |-> a.Address, Total |-> a.Total]
  BY BurnOperators DEF B!AccountBurnRecord_Type
<1>2. PICK v1 : v1 = Latest(a.Address, b.Address, <<>>)
  OBVIOUS
<1>3. PICK v2 : v2 = Written(b.Total)
  OBVIOUS
<1>4. /\ v1 \in Strings
      /\ v2 \in Numbers
  BY <1>1, <1>2, <1>3, MergedFields
<1>5. PICK x0 : x0 = [Address |-> a.Address, Total |-> a.Total]
  OBVIOUS
<1>6. PICK x1 : x1 = [Address |-> v1, Total |-> a.Total]
  OBVIOUS
<1>7. PICK x2 : x2 = [Address |-> v1, Total |-> v2]
  OBVIOUS
<1>8. /\ x0 \in B!AccountBurnRecord_Type
      /\ x1 \in B!AccountBurnRecord_Type
  BY <1>1, <1>4, <1>5, <1>6, BurnOperators DEF B!AccountBurnRecord_Type
<1>9. Writes(after, dAtA, x2, <<>>, x2)
  BY WritesNothing
<1>10. /\ 1 \in DOMAIN B!AccountBurnRecord_Unmarshal /\ B!AccountBurnRecord_Unmarshal[1] = String("Address")
       /\ 2 \in DOMAIN B!AccountBurnRecord_Unmarshal /\ B!AccountBurnRecord_Unmarshal[2] = Number("Total")
  <2>1. B!AccountBurnRecord_Unmarshal = <<String("Address"), Number("Total")>>
    BY BurnOperators DEF B!AccountBurnRecord_Unmarshal
  <2>. QED  BY <2>1
<1>11. Writes(after, dAtA, x1, PutBytes(2, Number_Marshal(b.Total), <<>>), x2)
  <2>1. x2 = With(x1, "Total", Normal(b.Total))
    BY <1>1, <1>3, <1>6, <1>7, MergedFields DEF With
  <2>. QED  BY <1>1, <1>8, <1>10, <1>9, <2>1, NumberWrites1
<1>12. Writes(after, dAtA, x0, PutString(1, b.Address, PutBytes(2, Number_Marshal(b.Total), <<>>)), x2)
  <2>1. PICK s \in Strings : s = b.Address
    BY <1>1
  <2>2. x1 = (IF Len(s) > 0 THEN With(x0, "Address", s) ELSE x0)
    BY <1>1, <1>2, <1>5, <1>6, <2>1, MergedFields DEF With
  <2>3. Writes(after, dAtA, x0, PutString(1, s, PutBytes(2, Number_Marshal(b.Total), <<>>)), x2)
    BY <1>8, <1>10, <1>11, <2>2, StringWrites1
  <2>. QED  BY <2>1, <2>3
<1>13. B!AccountBurnRecord_Marshal(b) = PutString(1, b.Address, PutBytes(2, Number_Marshal(b.Total), <<>>))
  BY BurnOperators DEF B!AccountBurnRecord_Marshal
<1>14. MergedRecord(a, b) = x2
  <2>1. MergedRecord(a, b) = [Address |-> Latest(a.Address, b.Address, <<>>), Total |-> Written(b.Total)]
    BY DEF MergedRecord
  <2>. QED  BY <2>1, <1>2, <1>3, <1>7
<1>. QED  BY <1>1, <1>5, <1>12, <1>13, <1>14

LEMMA AccountBurnRecordReads1 ==
  ASSUME NEW a \in B!AccountBurnRecord_Type, NEW b \in B!AccountBurnRecord_Type, B!AccountBurnRecord_Marshal(b) \in Buffers
  PROVE  Unmarshal1(B!AccountBurnRecord_Unmarshal, a, B!AccountBurnRecord_Marshal(b)) = [st |-> "ok", m |-> MergedRecord(a, b)]
<1>1. PICK dAtA \in Buffers : dAtA = B!AccountBurnRecord_Marshal(b)
  OBVIOUS
<1>2. PICK out : out = Unmarshal1(B!AccountBurnRecord_Unmarshal, a, dAtA)
  OBVIOUS
<1>3. PICK T, after : /\ Switches(decodeField1, B!AccountBurnRecord_Unmarshal, B!AccountBurnRecord_Type, dAtA, T)
                      /\ IsUnmarshal(T, B!AccountBurnRecord_Type, a, dAtA, after, out)
  BY <1>2, AccountBurnRecordDecodes1, Unmarshal1Runs
<1>4. Loops1(B!AccountBurnRecord_Unmarshal, B!AccountBurnRecord_Type, dAtA, T, after)
  BY <1>3 DEF Loops1, Loops
<1>5. Writes(after, dAtA, a, dAtA, MergedRecord(a, b))
  BY <1>1, <1>4, AccountBurnRecordWrites1
<1>. QED  BY <1>1, <1>2, <1>3, <1>5, WrittenIsRead

LEMMA AccountBurnRecordCodes2 ==
  ASSUME NEW dAtA, NEW T, NEW after, Loops2(B!AccountBurnRecord_Unmarshal, B!AccountBurnRecord_Type, dAtA, T, after),
         NEW a \in B!AccountBurnRecord_Type, NEW b \in B!AccountBurnRecord_Type
  PROVE  Codes(after, dAtA, a, B!AccountBurnRecord_Marshal(b), MergedRecord(a, b))
<1>1. /\ a.Address \in Strings /\ b.Address \in Strings
      /\ a.Total \in Numbers /\ b.Total \in Numbers
      /\ a = [Address |-> a.Address, Total |-> a.Total]
  BY BurnOperators DEF B!AccountBurnRecord_Type
<1>2. PICK v1 : v1 = Latest(a.Address, b.Address, <<>>)
  OBVIOUS
<1>3. PICK v2 : v2 = Written(b.Total)
  OBVIOUS
<1>4. /\ v1 \in Strings
      /\ v2 \in Numbers
  BY <1>1, <1>2, <1>3, MergedFields
<1>5. PICK x0 : x0 = [Address |-> a.Address, Total |-> a.Total]
  OBVIOUS
<1>6. PICK x1 : x1 = [Address |-> v1, Total |-> a.Total]
  OBVIOUS
<1>7. PICK x2 : x2 = [Address |-> v1, Total |-> v2]
  OBVIOUS
<1>8. /\ x0 \in B!AccountBurnRecord_Type
      /\ x1 \in B!AccountBurnRecord_Type
  BY <1>1, <1>4, <1>5, <1>6, BurnOperators DEF B!AccountBurnRecord_Type
<1>9. x1["Address"] = x2["Address"]
  BY <1>6, <1>7
<1>10. Codes(after, dAtA, x2, <<>>, x2)
  BY CodesNothing
<1>11. /\ 1 \in DOMAIN B!AccountBurnRecord_Unmarshal /\ B!AccountBurnRecord_Unmarshal[1] = String("Address")
       /\ 2 \in DOMAIN B!AccountBurnRecord_Unmarshal /\ B!AccountBurnRecord_Unmarshal[2] = Number("Total")
  <2>1. B!AccountBurnRecord_Unmarshal = <<String("Address"), Number("Total")>>
    BY BurnOperators DEF B!AccountBurnRecord_Unmarshal
  <2>. QED  BY <2>1
<1>12. Codes(after, dAtA, x1, PutBytes(2, Number_Marshal(b.Total), <<>>), x2)
  <2>1. x2 = With(x1, "Total", Normal(b.Total))
    BY <1>1, <1>3, <1>6, <1>7, MergedFields DEF With
  <2>. QED  BY <1>1, <1>8, <1>11, <1>10, <2>1, NumberCodes2
<1>13. Codes(after, dAtA, x0, PutString(1, b.Address, PutBytes(2, Number_Marshal(b.Total), <<>>)), x2)
  <2>1. PICK s \in Strings : s = b.Address
    BY <1>1
  <2>2. x1 = (IF Len(s) > 0 THEN With(x0, "Address", s) ELSE x0)
    BY <1>1, <1>2, <1>5, <1>6, <2>1, MergedFields DEF With
  <2>3. Codes(after, dAtA, x0, PutString(1, s, PutBytes(2, Number_Marshal(b.Total), <<>>)), x2)
    BY <1>8, <1>11, <1>12, <1>9, <2>2, StringCodes2
  <2>. QED  BY <2>1, <2>3
<1>14. B!AccountBurnRecord_Marshal(b) = PutString(1, b.Address, PutBytes(2, Number_Marshal(b.Total), <<>>))
  BY BurnOperators DEF B!AccountBurnRecord_Marshal
<1>15. MergedRecord(a, b) = x2
  <2>1. MergedRecord(a, b) = [Address |-> Latest(a.Address, b.Address, <<>>), Total |-> Written(b.Total)]
    BY DEF MergedRecord
  <2>. QED  BY <2>1, <1>2, <1>3, <1>7
<1>. QED  BY <1>1, <1>5, <1>13, <1>14, <1>15

LEMMA BurnMsgUpdateParamsCodes2 ==
  ASSUME NEW dAtA, NEW T, NEW after, Loops2(B!MsgUpdateParams_Unmarshal, B!MsgUpdateParams_Type, dAtA, T, after),
         NEW a \in B!MsgUpdateParams_Type, NEW b \in B!MsgUpdateParams_Type
  PROVE  Codes(after, dAtA, a, B!MsgUpdateParams_Marshal(b), Merged("burn.MsgUpdateParams", a, b))
<1>1. /\ a.Authority \in Strings /\ b.Authority \in Strings
      /\ a.Params \in B!Params_Type /\ b.Params \in B!Params_Type
      /\ a = [Authority |-> a.Authority, Params |-> a.Params]
  BY BurnOperators DEF B!MsgUpdateParams_Type
<1>2. PICK v1 : v1 = Latest(a.Authority, b.Authority, <<>>)
  OBVIOUS
<1>3. PICK v2 : v2 = MergedBurnParams(a.Params, b.Params)
  OBVIOUS
<1>4. /\ v1 \in Strings
      /\ v2 \in B!Params_Type
  BY <1>1, <1>2, <1>3, MergedFields, BurnParamsMerged
<1>5. PICK x0 : x0 = [Authority |-> a.Authority, Params |-> a.Params]
  OBVIOUS
<1>6. PICK x1 : x1 = [Authority |-> v1, Params |-> a.Params]
  OBVIOUS
<1>7. PICK x2 : x2 = [Authority |-> v1, Params |-> v2]
  OBVIOUS
<1>8. /\ x0 \in B!MsgUpdateParams_Type
      /\ x1 \in B!MsgUpdateParams_Type
  BY <1>1, <1>4, <1>5, <1>6, BurnOperators DEF B!MsgUpdateParams_Type
<1>9. x1["Authority"] = x2["Authority"]
  BY <1>6, <1>7
<1>10. Codes(after, dAtA, x2, <<>>, x2)
  BY CodesNothing
<1>11. /\ 1 \in DOMAIN B!MsgUpdateParams_Unmarshal /\ B!MsgUpdateParams_Unmarshal[1] = String("Authority")
       /\ 2 \in DOMAIN B!MsgUpdateParams_Unmarshal /\ B!MsgUpdateParams_Unmarshal[2] = Message("Params", B!Params_Unmarshal)
  <2>1. B!MsgUpdateParams_Unmarshal = <<String("Authority"), Message("Params", B!Params_Unmarshal)>>
    BY BurnOperators DEF B!MsgUpdateParams_Unmarshal
  <2>. QED  BY <2>1
<1>12. Codes(after, dAtA, x1, PutBytes(2, B!Params_Marshal(b.Params), <<>>), x2)
  <2>1. x2 = With(x1, "Params", v2) /\ x1["Params"] = a.Params
    BY <1>1, <1>3, <1>6, <1>7 DEF With
  <2>2. PICK bz : bz = B!Params_Marshal(b.Params)
    OBVIOUS
  <2>3. bz \in Seq(Byte)
    BY <1>1, <2>2, BurnParamsMeasured DEF Measured
  <2>4. bz \in Buffers => Unmarshal1(B!Params_Unmarshal, x1["Params"], bz) = [st |-> "ok", m |-> v2]
    BY <1>1, <1>3, <2>1, <2>2, BurnParamsReads1
  <2>5. Codes(after, dAtA, x1, PutBytes(2, bz, <<>>), x2)
    BY <1>8, <1>11, <1>10, <2>1, <2>3, <2>4, MessageCodes2
  <2>. QED  BY <2>2, <2>5
<1>13. Codes(after, dAtA, x0, PutString(1, b.Authority, PutBytes(2, B!Params_Marshal(b.Params), <<>>)), x2)
  <2>1. PICK s \in Strings : s = b.Authority
    BY <1>1
  <2>2. x1 = (IF Len(s) > 0 THEN With(x0, "Authority", s) ELSE x0)
    BY <1>1, <1>2, <1>5, <1>6, <2>1, MergedFields DEF With
  <2>3. Codes(after, dAtA, x0, PutString(1, s, PutBytes(2, B!Params_Marshal(b.Params), <<>>)), x2)
    BY <1>8, <1>11, <1>12, <1>9, <2>2, StringCodes2
  <2>. QED  BY <2>1, <2>3
<1>14. B!MsgUpdateParams_Marshal(b) = PutString(1, b.Authority, PutBytes(2, B!Params_Marshal(b.Params), <<>>))
  BY BurnOperators DEF B!MsgUpdateParams_Marshal
<1>15. Merged("burn.MsgUpdateParams", a, b) = x2
  <2>1. Merged("burn.MsgUpdateParams", a, b) = [Authority |-> Latest(a.Authority, b.Authority, <<>>), Params |-> MergedBurnParams(a.Params, b.Params)]
    BY Zenon DEF Merged
  <2>. QED  BY <2>1, <1>2, <1>3, <1>7
<1>. QED  BY <1>1, <1>5, <1>13, <1>14, <1>15

LEMMA MsgBurnCodes2 ==
  ASSUME NEW dAtA, NEW T, NEW after, Loops2(B!MsgBurn_Unmarshal, B!MsgBurn_Type, dAtA, T, after),
         NEW a \in B!MsgBurn_Type, NEW b \in B!MsgBurn_Type
  PROVE  Codes(after, dAtA, a, B!MsgBurn_Marshal(b), Merged("burn.MsgBurn", a, b))
<1>1. /\ a.FromAddress \in Strings /\ b.FromAddress \in Strings
      /\ a.Amount \in Coin_Type /\ b.Amount \in Coin_Type
      /\ a = [FromAddress |-> a.FromAddress, Amount |-> a.Amount]
  BY BurnOperators DEF B!MsgBurn_Type
<1>2. PICK v1 : v1 = Latest(a.FromAddress, b.FromAddress, <<>>)
  OBVIOUS
<1>3. PICK v2 : v2 = MergedCoin(a.Amount, b.Amount)
  OBVIOUS
<1>4. /\ v1 \in Strings
      /\ v2 \in Coin_Type
  BY <1>1, <1>2, <1>3, MergedFields, CoinMerged
<1>5. PICK x0 : x0 = [FromAddress |-> a.FromAddress, Amount |-> a.Amount]
  OBVIOUS
<1>6. PICK x1 : x1 = [FromAddress |-> v1, Amount |-> a.Amount]
  OBVIOUS
<1>7. PICK x2 : x2 = [FromAddress |-> v1, Amount |-> v2]
  OBVIOUS
<1>8. /\ x0 \in B!MsgBurn_Type
      /\ x1 \in B!MsgBurn_Type
  BY <1>1, <1>4, <1>5, <1>6, BurnOperators DEF B!MsgBurn_Type
<1>9. x1["FromAddress"] = x2["FromAddress"]
  BY <1>6, <1>7
<1>10. Codes(after, dAtA, x2, <<>>, x2)
  BY CodesNothing
<1>11. /\ 1 \in DOMAIN B!MsgBurn_Unmarshal /\ B!MsgBurn_Unmarshal[1] = String("FromAddress")
       /\ 2 \in DOMAIN B!MsgBurn_Unmarshal /\ B!MsgBurn_Unmarshal[2] = Message("Amount", Coin_Unmarshal)
  <2>1. B!MsgBurn_Unmarshal = <<String("FromAddress"), Message("Amount", Coin_Unmarshal)>>
    BY BurnOperators DEF B!MsgBurn_Unmarshal
  <2>. QED  BY <2>1
<1>12. Codes(after, dAtA, x1, PutBytes(2, Coin_Marshal(b.Amount), <<>>), x2)
  <2>1. x2 = With(x1, "Amount", v2) /\ x1["Amount"] = a.Amount
    BY <1>1, <1>3, <1>6, <1>7 DEF With
  <2>2. PICK bz : bz = Coin_Marshal(b.Amount)
    OBVIOUS
  <2>3. bz \in Seq(Byte)
    BY <1>1, <2>2, CoinMeasured DEF Measured
  <2>4. bz \in Buffers => Unmarshal1(Coin_Unmarshal, x1["Amount"], bz) = [st |-> "ok", m |-> v2]
    BY <1>1, <1>3, <2>1, <2>2, CoinReads1
  <2>5. Codes(after, dAtA, x1, PutBytes(2, bz, <<>>), x2)
    BY <1>8, <1>11, <1>10, <2>1, <2>3, <2>4, MessageCodes2
  <2>. QED  BY <2>2, <2>5
<1>13. Codes(after, dAtA, x0, PutString(1, b.FromAddress, PutBytes(2, Coin_Marshal(b.Amount), <<>>)), x2)
  <2>1. PICK s \in Strings : s = b.FromAddress
    BY <1>1
  <2>2. x1 = (IF Len(s) > 0 THEN With(x0, "FromAddress", s) ELSE x0)
    BY <1>1, <1>2, <1>5, <1>6, <2>1, MergedFields DEF With
  <2>3. Codes(after, dAtA, x0, PutString(1, s, PutBytes(2, Coin_Marshal(b.Amount), <<>>)), x2)
    BY <1>8, <1>11, <1>12, <1>9, <2>2, StringCodes2
  <2>. QED  BY <2>1, <2>3
<1>14. B!MsgBurn_Marshal(b) = PutString(1, b.FromAddress, PutBytes(2, Coin_Marshal(b.Amount), <<>>))
  BY BurnOperators DEF B!MsgBurn_Marshal
<1>15. Merged("burn.MsgBurn", a, b) = x2
  <2>1. Merged("burn.MsgBurn", a, b) = [FromAddress |-> Latest(a.FromAddress, b.FromAddress, <<>>), Amount |-> MergedCoin(a.Amount, b.Amount)]
    BY Zenon DEF Merged
  <2>. QED  BY <2>1, <1>2, <1>3, <1>7
<1>. QED  BY <1>1, <1>5, <1>13, <1>14, <1>15

LEMMA BurnQueryParamsResponseCodes2 ==
  ASSUME NEW dAtA, NEW T, NEW after, Loops2(B!QueryParamsResponse_Unmarshal, B!QueryParamsResponse_Type, dAtA, T, after),
         NEW a \in B!QueryParamsResponse_Type, NEW b \in B!QueryParamsResponse_Type
  PROVE  Codes(after, dAtA, a, B!QueryParamsResponse_Marshal(b), Merged("burn.QueryParamsResponse", a, b))
<1>1. /\ a.Params \in B!Params_Type /\ b.Params \in B!Params_Type
      /\ a = [Params |-> a.Params]
  BY BurnOperators DEF B!QueryParamsResponse_Type
<1>2. PICK v1 : v1 = MergedBurnParams(a.Params, b.Params)
  OBVIOUS
<1>3. /\ v1 \in B!Params_Type
  BY <1>1, <1>2, BurnParamsMerged
<1>4. PICK x0 : x0 = [Params |-> a.Params]
  OBVIOUS
<1>5. PICK x1 : x1 = [Params |-> v1]
  OBVIOUS
<1>6. /\ x0 \in B!QueryParamsResponse_Type
  BY <1>1, <1>3, <1>4, BurnOperators DEF B!QueryParamsResponse_Type
<1>7. Codes(after, dAtA, x1, <<>>, x1)
  BY CodesNothing
<1>8. /\ 1 \in DOMAIN B!QueryParamsResponse_Unmarshal /\ B!QueryParamsResponse_Unmarshal[1] = Message("Params", B!Params_Unmarshal)
  <2>1. B!QueryParamsResponse_Unmarshal = <<Message("Params", B!Params_Unmarshal)>>
    BY BurnOperators DEF B!QueryParamsResponse_Unmarshal
  <2>. QED  BY <2>1
<1>9. Codes(after, dAtA, x0, PutBytes(1, B!Params_Marshal(b.Params), <<>>), x1)
  <2>1. x1 = With(x0, "Params", v1) /\ x0["Params"] = a.Params
    BY <1>1, <1>2, <1>4, <1>5 DEF With
  <2>2. PICK bz : bz = B!Params_Marshal(b.Params)
    OBVIOUS
  <2>3. bz \in Seq(Byte)
    BY <1>1, <2>2, BurnParamsMeasured DEF Measured
  <2>4. bz \in Buffers => Unmarshal1(B!Params_Unmarshal, x0["Params"], bz) = [st |-> "ok", m |-> v1]
    BY <1>1, <1>2, <2>1, <2>2, BurnParamsReads1
  <2>5. Codes(after, dAtA, x0, PutBytes(1, bz, <<>>), x1)
    BY <1>6, <1>8, <1>7, <2>1, <2>3, <2>4, MessageCodes2
  <2>. QED  BY <2>2, <2>5
<1>10. B!QueryParamsResponse_Marshal(b) = PutBytes(1, B!Params_Marshal(b.Params), <<>>)
  BY BurnOperators DEF B!QueryParamsResponse_Marshal
<1>11. Merged("burn.QueryParamsResponse", a, b) = x1
  <2>1. Merged("burn.QueryParamsResponse", a, b) = [Params |-> MergedBurnParams(a.Params, b.Params)]
    BY Zenon DEF Merged
  <2>. QED  BY <2>1, <1>2, <1>5
<1>. QED  BY <1>1, <1>4, <1>9, <1>10, <1>11

LEMMA QueryBurnStatsResponseCodes2 ==
  ASSUME NEW dAtA, NEW T, NEW after, Loops2(B!QueryBurnStatsResponse_Unmarshal, B!QueryBurnStatsResponse_Type, dAtA, T, after),
         NEW a \in B!QueryBurnStatsResponse_Type, NEW b \in B!QueryBurnStatsResponse_Type
  PROVE  Codes(after, dAtA, a, B!QueryBurnStatsResponse_Marshal(b), Merged("burn.QueryBurnStatsResponse", a, b))
<1>1. /\ a.TotalBurns \in Word /\ b.TotalBurns \in Word
      /\ a.TotalBurned \in Strings /\ b.TotalBurned \in Strings
      /\ a = [TotalBurns |-> a.TotalBurns, TotalBurned |-> a.TotalBurned]
  BY BurnOperators DEF B!QueryBurnStatsResponse_Type
<1>2. PICK v1 : v1 = Latest(a.TotalBurns, b.TotalBurns, 0)
  OBVIOUS
<1>3. PICK v2 : v2 = Latest(a.TotalBurned, b.TotalBurned, <<>>)
  OBVIOUS
<1>4. /\ v1 \in Word
      /\ v2 \in Strings
  BY <1>1, <1>2, <1>3, MergedFields
<1>5. PICK x0 : x0 = [TotalBurns |-> a.TotalBurns, TotalBurned |-> a.TotalBurned]
  OBVIOUS
<1>6. PICK x1 : x1 = [TotalBurns |-> v1, TotalBurned |-> a.TotalBurned]
  OBVIOUS
<1>7. PICK x2 : x2 = [TotalBurns |-> v1, TotalBurned |-> v2]
  OBVIOUS
<1>8. /\ x0 \in B!QueryBurnStatsResponse_Type
      /\ x1 \in B!QueryBurnStatsResponse_Type
  BY <1>1, <1>4, <1>5, <1>6, BurnOperators DEF B!QueryBurnStatsResponse_Type
<1>9. x1["TotalBurns"] = x2["TotalBurns"]
  BY <1>6, <1>7
<1>10. Codes(after, dAtA, x2, <<>>, x2)
  BY CodesNothing
<1>11. /\ 1 \in DOMAIN B!QueryBurnStatsResponse_Unmarshal /\ B!QueryBurnStatsResponse_Unmarshal[1] = Uint64("TotalBurns")
       /\ 2 \in DOMAIN B!QueryBurnStatsResponse_Unmarshal /\ B!QueryBurnStatsResponse_Unmarshal[2] = String("TotalBurned")
  <2>1. B!QueryBurnStatsResponse_Unmarshal = <<Uint64("TotalBurns"), String("TotalBurned")>>
    BY BurnOperators DEF B!QueryBurnStatsResponse_Unmarshal
  <2>. QED  BY <2>1
<1>12. Codes(after, dAtA, x1, PutString(2, b.TotalBurned, <<>>), x2)
  <2>1. PICK s \in Strings : s = b.TotalBurned
    BY <1>1
  <2>2. x2 = (IF Len(s) > 0 THEN With(x1, "TotalBurned", s) ELSE x1)
    BY <1>1, <1>3, <1>6, <1>7, <2>1, MergedFields DEF With
  <2>3. Codes(after, dAtA, x1, PutString(2, s, <<>>), x2)
    BY <1>8, <1>11, <1>10, <2>2, StringCodes2
  <2>. QED  BY <2>1, <2>3
<1>13. Codes(after, dAtA, x0, PutUint64(1, b.TotalBurns, PutString(2, b.TotalBurned, <<>>)), x2)
  <2>1. x1 = (IF b.TotalBurns # 0 THEN With(x0, "TotalBurns", b.TotalBurns) ELSE x0)
    BY <1>1, <1>2, <1>5, <1>6, MergedFields DEF With
  <2>. QED  BY <1>1, <1>8, <1>11, <1>12, <1>9, <2>1, Uint64Codes2
<1>14. B!QueryBurnStatsResponse_Marshal(b) = PutUint64(1, b.TotalBurns, PutString(2, b.TotalBurned, <<>>))
  BY BurnOperators DEF B!QueryBurnStatsResponse_Marshal
<1>15. Merged("burn.QueryBurnStatsResponse", a, b) = x2
  <2>1. Merged("burn.QueryBurnStatsResponse", a, b) = [TotalBurns |-> Latest(a.TotalBurns, b.TotalBurns, 0), TotalBurned |-> Latest(a.TotalBurned, b.TotalBurned, <<>>)]
    BY Zenon DEF Merged
  <2>. QED  BY <2>1, <1>2, <1>3, <1>7
<1>. QED  BY <1>1, <1>5, <1>13, <1>14, <1>15

LEMMA QueryAccountBurnsRequestCodes2 ==
  ASSUME NEW dAtA, NEW T, NEW after, Loops2(B!QueryAccountBurnsRequest_Unmarshal, B!QueryAccountBurnsRequest_Type, dAtA, T, after),
         NEW a \in B!QueryAccountBurnsRequest_Type, NEW b \in B!QueryAccountBurnsRequest_Type
  PROVE  Codes(after, dAtA, a, B!QueryAccountBurnsRequest_Marshal(b), Merged("burn.QueryAccountBurnsRequest", a, b))
<1>1. /\ a.Address \in Strings /\ b.Address \in Strings
      /\ a = [Address |-> a.Address]
  BY BurnOperators DEF B!QueryAccountBurnsRequest_Type
<1>2. PICK v1 : v1 = Latest(a.Address, b.Address, <<>>)
  OBVIOUS
<1>3. /\ v1 \in Strings
  BY <1>1, <1>2, MergedFields
<1>4. PICK x0 : x0 = [Address |-> a.Address]
  OBVIOUS
<1>5. PICK x1 : x1 = [Address |-> v1]
  OBVIOUS
<1>6. /\ x0 \in B!QueryAccountBurnsRequest_Type
  BY <1>1, <1>3, <1>4, BurnOperators DEF B!QueryAccountBurnsRequest_Type
<1>7. Codes(after, dAtA, x1, <<>>, x1)
  BY CodesNothing
<1>8. /\ 1 \in DOMAIN B!QueryAccountBurnsRequest_Unmarshal /\ B!QueryAccountBurnsRequest_Unmarshal[1] = String("Address")
  <2>1. B!QueryAccountBurnsRequest_Unmarshal = <<String("Address")>>
    BY BurnOperators DEF B!QueryAccountBurnsRequest_Unmarshal
  <2>. QED  BY <2>1
<1>9. Codes(after, dAtA, x0, PutString(1, b.Address, <<>>), x1)
  <2>1. PICK s \in Strings : s = b.Address
    BY <1>1
  <2>2. x1 = (IF Len(s) > 0 THEN With(x0, "Address", s) ELSE x0)
    BY <1>1, <1>2, <1>4, <1>5, <2>1, MergedFields DEF With
  <2>3. Codes(after, dAtA, x0, PutString(1, s, <<>>), x1)
    BY <1>6, <1>8, <1>7, <2>2, StringCodes2
  <2>. QED  BY <2>1, <2>3
<1>10. B!QueryAccountBurnsRequest_Marshal(b) = PutString(1, b.Address, <<>>)
  BY BurnOperators DEF B!QueryAccountBurnsRequest_Marshal
<1>11. Merged("burn.QueryAccountBurnsRequest", a, b) = x1
  <2>1. Merged("burn.QueryAccountBurnsRequest", a, b) = [Address |-> Latest(a.Address, b.Address, <<>>)]
    BY Zenon DEF Merged
  <2>. QED  BY <2>1, <1>2, <1>5
<1>. QED  BY <1>1, <1>4, <1>9, <1>10, <1>11

LEMMA QueryAccountBurnsResponseCodes2 ==
  ASSUME NEW dAtA, NEW T, NEW after, Loops2(B!QueryAccountBurnsResponse_Unmarshal, B!QueryAccountBurnsResponse_Type, dAtA, T, after),
         NEW a \in B!QueryAccountBurnsResponse_Type, NEW b \in B!QueryAccountBurnsResponse_Type
  PROVE  Codes(after, dAtA, a, B!QueryAccountBurnsResponse_Marshal(b), Merged("burn.QueryAccountBurnsResponse", a, b))
<1>1. /\ a.Amount \in Strings /\ b.Amount \in Strings
      /\ a = [Amount |-> a.Amount]
  BY BurnOperators DEF B!QueryAccountBurnsResponse_Type
<1>2. PICK v1 : v1 = Latest(a.Amount, b.Amount, <<>>)
  OBVIOUS
<1>3. /\ v1 \in Strings
  BY <1>1, <1>2, MergedFields
<1>4. PICK x0 : x0 = [Amount |-> a.Amount]
  OBVIOUS
<1>5. PICK x1 : x1 = [Amount |-> v1]
  OBVIOUS
<1>6. /\ x0 \in B!QueryAccountBurnsResponse_Type
  BY <1>1, <1>3, <1>4, BurnOperators DEF B!QueryAccountBurnsResponse_Type
<1>7. Codes(after, dAtA, x1, <<>>, x1)
  BY CodesNothing
<1>8. /\ 1 \in DOMAIN B!QueryAccountBurnsResponse_Unmarshal /\ B!QueryAccountBurnsResponse_Unmarshal[1] = String("Amount")
  <2>1. B!QueryAccountBurnsResponse_Unmarshal = <<String("Amount")>>
    BY BurnOperators DEF B!QueryAccountBurnsResponse_Unmarshal
  <2>. QED  BY <2>1
<1>9. Codes(after, dAtA, x0, PutString(1, b.Amount, <<>>), x1)
  <2>1. PICK s \in Strings : s = b.Amount
    BY <1>1
  <2>2. x1 = (IF Len(s) > 0 THEN With(x0, "Amount", s) ELSE x0)
    BY <1>1, <1>2, <1>4, <1>5, <2>1, MergedFields DEF With
  <2>3. Codes(after, dAtA, x0, PutString(1, s, <<>>), x1)
    BY <1>6, <1>8, <1>7, <2>2, StringCodes2
  <2>. QED  BY <2>1, <2>3
<1>10. B!QueryAccountBurnsResponse_Marshal(b) = PutString(1, b.Amount, <<>>)
  BY BurnOperators DEF B!QueryAccountBurnsResponse_Marshal
<1>11. Merged("burn.QueryAccountBurnsResponse", a, b) = x1
  <2>1. Merged("burn.QueryAccountBurnsResponse", a, b) = [Amount |-> Latest(a.Amount, b.Amount, <<>>)]
    BY Zenon DEF Merged
  <2>. QED  BY <2>1, <1>2, <1>5
<1>. QED  BY <1>1, <1>4, <1>9, <1>10, <1>11

LEMMA ValidatorParamsWrites1 ==
  ASSUME NEW dAtA, NEW T, NEW after, Loops1(V!Params_Unmarshal, V!Params_Type, dAtA, T, after),
         NEW a \in V!Params_Type, NEW b \in V!Params_Type
  PROVE  Writes(after, dAtA, a, V!Params_Marshal(b), MergedValidatorParams(a, b))
<1>1. /\ a.ValidatorRegistrationBurn \in Coin_Type /\ b.ValidatorRegistrationBurn \in Coin_Type
      /\ a.ValidatorMinSelfDelegation \in Coin_Type /\ b.ValidatorMinSelfDelegation \in Coin_Type
      /\ a = [ValidatorRegistrationBurn |-> a.ValidatorRegistrationBurn, ValidatorMinSelfDelegation |-> a.ValidatorMinSelfDelegation]
  BY ValidatorOperators DEF V!Params_Type
<1>2. PICK v1 : v1 = MergedCoin(a.ValidatorRegistrationBurn, b.ValidatorRegistrationBurn)
  OBVIOUS
<1>3. PICK v2 : v2 = MergedCoin(a.ValidatorMinSelfDelegation, b.ValidatorMinSelfDelegation)
  OBVIOUS
<1>4. /\ v1 \in Coin_Type
      /\ v2 \in Coin_Type
  BY <1>1, <1>2, <1>3, CoinMerged
<1>5. PICK x0 : x0 = [ValidatorRegistrationBurn |-> a.ValidatorRegistrationBurn, ValidatorMinSelfDelegation |-> a.ValidatorMinSelfDelegation]
  OBVIOUS
<1>6. PICK x1 : x1 = [ValidatorRegistrationBurn |-> v1, ValidatorMinSelfDelegation |-> a.ValidatorMinSelfDelegation]
  OBVIOUS
<1>7. PICK x2 : x2 = [ValidatorRegistrationBurn |-> v1, ValidatorMinSelfDelegation |-> v2]
  OBVIOUS
<1>8. /\ x0 \in V!Params_Type
      /\ x1 \in V!Params_Type
  BY <1>1, <1>4, <1>5, <1>6, ValidatorOperators DEF V!Params_Type
<1>9. Writes(after, dAtA, x2, <<>>, x2)
  BY WritesNothing
<1>10. /\ 1 \in DOMAIN V!Params_Unmarshal /\ V!Params_Unmarshal[1] = Message("ValidatorRegistrationBurn", Coin_Unmarshal)
       /\ 2 \in DOMAIN V!Params_Unmarshal /\ V!Params_Unmarshal[2] = Message("ValidatorMinSelfDelegation", Coin_Unmarshal)
  <2>1. V!Params_Unmarshal = <<Message("ValidatorRegistrationBurn", Coin_Unmarshal), Message("ValidatorMinSelfDelegation", Coin_Unmarshal)>>
    BY ValidatorOperators DEF V!Params_Unmarshal
  <2>. QED  BY <2>1
<1>11. Writes(after, dAtA, x1, PutBytes(2, Coin_Marshal(b.ValidatorMinSelfDelegation), <<>>), x2)
  <2>1. x2 = With(x1, "ValidatorMinSelfDelegation", v2) /\ x1["ValidatorMinSelfDelegation"] = a.ValidatorMinSelfDelegation
    BY <1>1, <1>3, <1>6, <1>7 DEF With
  <2>2. PICK bz : bz = Coin_Marshal(b.ValidatorMinSelfDelegation)
    OBVIOUS
  <2>3. bz \in Seq(Byte)
    BY <1>1, <2>2, CoinMeasured DEF Measured
  <2>4. bz \in Buffers => Unmarshal0(Coin_Unmarshal, x1["ValidatorMinSelfDelegation"], bz) = [st |-> "ok", m |-> v2]
    BY <1>1, <1>3, <2>1, <2>2, CoinReads0
  <2>5. Writes(after, dAtA, x1, PutBytes(2, bz, <<>>), x2)
    BY <1>8, <1>10, <1>9, <2>1, <2>3, <2>4, MessageWrites1
  <2>. QED  BY <2>2, <2>5
<1>12. Writes(after, dAtA, x0, PutBytes(1, Coin_Marshal(b.ValidatorRegistrationBurn), PutBytes(2, Coin_Marshal(b.ValidatorMinSelfDelegation), <<>>)), x2)
  <2>1. x1 = With(x0, "ValidatorRegistrationBurn", v1) /\ x0["ValidatorRegistrationBurn"] = a.ValidatorRegistrationBurn
    BY <1>1, <1>2, <1>5, <1>6 DEF With
  <2>2. PICK bz : bz = Coin_Marshal(b.ValidatorRegistrationBurn)
    OBVIOUS
  <2>3. bz \in Seq(Byte)
    BY <1>1, <2>2, CoinMeasured DEF Measured
  <2>4. bz \in Buffers => Unmarshal0(Coin_Unmarshal, x0["ValidatorRegistrationBurn"], bz) = [st |-> "ok", m |-> v1]
    BY <1>1, <1>2, <2>1, <2>2, CoinReads0
  <2>5. Writes(after, dAtA, x0, PutBytes(1, bz, PutBytes(2, Coin_Marshal(b.ValidatorMinSelfDelegation), <<>>)), x2)
    BY <1>8, <1>10, <1>11, <2>1, <2>3, <2>4, MessageWrites1
  <2>. QED  BY <2>2, <2>5
<1>13. V!Params_Marshal(b) = PutBytes(1, Coin_Marshal(b.ValidatorRegistrationBurn), PutBytes(2, Coin_Marshal(b.ValidatorMinSelfDelegation), <<>>))
  BY ValidatorOperators DEF V!Params_Marshal
<1>14. MergedValidatorParams(a, b) = x2
  <2>1. MergedValidatorParams(a, b) = [ValidatorRegistrationBurn |-> MergedCoin(a.ValidatorRegistrationBurn, b.ValidatorRegistrationBurn), ValidatorMinSelfDelegation |-> MergedCoin(a.ValidatorMinSelfDelegation, b.ValidatorMinSelfDelegation)]
    BY DEF MergedValidatorParams
  <2>. QED  BY <2>1, <1>2, <1>3, <1>7
<1>. QED  BY <1>1, <1>5, <1>12, <1>13, <1>14

LEMMA ValidatorParamsReads1 ==
  ASSUME NEW a \in V!Params_Type, NEW b \in V!Params_Type, V!Params_Marshal(b) \in Buffers
  PROVE  Unmarshal1(V!Params_Unmarshal, a, V!Params_Marshal(b)) = [st |-> "ok", m |-> MergedValidatorParams(a, b)]
<1>1. PICK dAtA \in Buffers : dAtA = V!Params_Marshal(b)
  OBVIOUS
<1>2. PICK out : out = Unmarshal1(V!Params_Unmarshal, a, dAtA)
  OBVIOUS
<1>3. PICK T, after : /\ Switches(decodeField1, V!Params_Unmarshal, V!Params_Type, dAtA, T)
                      /\ IsUnmarshal(T, V!Params_Type, a, dAtA, after, out)
  BY <1>2, ValidatorParamsDecodes1, Unmarshal1Runs
<1>4. Loops1(V!Params_Unmarshal, V!Params_Type, dAtA, T, after)
  BY <1>3 DEF Loops1, Loops
<1>5. Writes(after, dAtA, a, dAtA, MergedValidatorParams(a, b))
  BY <1>1, <1>4, ValidatorParamsWrites1
<1>. QED  BY <1>1, <1>2, <1>3, <1>5, WrittenIsRead

LEMMA ValidatorParamsCodes2 ==
  ASSUME NEW dAtA, NEW T, NEW after, Loops2(V!Params_Unmarshal, V!Params_Type, dAtA, T, after),
         NEW a \in V!Params_Type, NEW b \in V!Params_Type
  PROVE  Codes(after, dAtA, a, V!Params_Marshal(b), MergedValidatorParams(a, b))
<1>1. /\ a.ValidatorRegistrationBurn \in Coin_Type /\ b.ValidatorRegistrationBurn \in Coin_Type
      /\ a.ValidatorMinSelfDelegation \in Coin_Type /\ b.ValidatorMinSelfDelegation \in Coin_Type
      /\ a = [ValidatorRegistrationBurn |-> a.ValidatorRegistrationBurn, ValidatorMinSelfDelegation |-> a.ValidatorMinSelfDelegation]
  BY ValidatorOperators DEF V!Params_Type
<1>2. PICK v1 : v1 = MergedCoin(a.ValidatorRegistrationBurn, b.ValidatorRegistrationBurn)
  OBVIOUS
<1>3. PICK v2 : v2 = MergedCoin(a.ValidatorMinSelfDelegation, b.ValidatorMinSelfDelegation)
  OBVIOUS
<1>4. /\ v1 \in Coin_Type
      /\ v2 \in Coin_Type
  BY <1>1, <1>2, <1>3, CoinMerged
<1>5. PICK x0 : x0 = [ValidatorRegistrationBurn |-> a.ValidatorRegistrationBurn, ValidatorMinSelfDelegation |-> a.ValidatorMinSelfDelegation]
  OBVIOUS
<1>6. PICK x1 : x1 = [ValidatorRegistrationBurn |-> v1, ValidatorMinSelfDelegation |-> a.ValidatorMinSelfDelegation]
  OBVIOUS
<1>7. PICK x2 : x2 = [ValidatorRegistrationBurn |-> v1, ValidatorMinSelfDelegation |-> v2]
  OBVIOUS
<1>8. /\ x0 \in V!Params_Type
      /\ x1 \in V!Params_Type
  BY <1>1, <1>4, <1>5, <1>6, ValidatorOperators DEF V!Params_Type
<1>9. x1["ValidatorRegistrationBurn"] = x2["ValidatorRegistrationBurn"]
  BY <1>6, <1>7
<1>10. Codes(after, dAtA, x2, <<>>, x2)
  BY CodesNothing
<1>11. /\ 1 \in DOMAIN V!Params_Unmarshal /\ V!Params_Unmarshal[1] = Message("ValidatorRegistrationBurn", Coin_Unmarshal)
       /\ 2 \in DOMAIN V!Params_Unmarshal /\ V!Params_Unmarshal[2] = Message("ValidatorMinSelfDelegation", Coin_Unmarshal)
  <2>1. V!Params_Unmarshal = <<Message("ValidatorRegistrationBurn", Coin_Unmarshal), Message("ValidatorMinSelfDelegation", Coin_Unmarshal)>>
    BY ValidatorOperators DEF V!Params_Unmarshal
  <2>. QED  BY <2>1
<1>12. Codes(after, dAtA, x1, PutBytes(2, Coin_Marshal(b.ValidatorMinSelfDelegation), <<>>), x2)
  <2>1. x2 = With(x1, "ValidatorMinSelfDelegation", v2) /\ x1["ValidatorMinSelfDelegation"] = a.ValidatorMinSelfDelegation
    BY <1>1, <1>3, <1>6, <1>7 DEF With
  <2>2. PICK bz : bz = Coin_Marshal(b.ValidatorMinSelfDelegation)
    OBVIOUS
  <2>3. bz \in Seq(Byte)
    BY <1>1, <2>2, CoinMeasured DEF Measured
  <2>4. bz \in Buffers => Unmarshal1(Coin_Unmarshal, x1["ValidatorMinSelfDelegation"], bz) = [st |-> "ok", m |-> v2]
    BY <1>1, <1>3, <2>1, <2>2, CoinReads1
  <2>5. Codes(after, dAtA, x1, PutBytes(2, bz, <<>>), x2)
    BY <1>8, <1>11, <1>10, <2>1, <2>3, <2>4, MessageCodes2
  <2>. QED  BY <2>2, <2>5
<1>13. Codes(after, dAtA, x0, PutBytes(1, Coin_Marshal(b.ValidatorRegistrationBurn), PutBytes(2, Coin_Marshal(b.ValidatorMinSelfDelegation), <<>>)), x2)
  <2>1. x1 = With(x0, "ValidatorRegistrationBurn", v1) /\ x0["ValidatorRegistrationBurn"] = a.ValidatorRegistrationBurn
    BY <1>1, <1>2, <1>5, <1>6 DEF With
  <2>2. PICK bz : bz = Coin_Marshal(b.ValidatorRegistrationBurn)
    OBVIOUS
  <2>3. bz \in Seq(Byte)
    BY <1>1, <2>2, CoinMeasured DEF Measured
  <2>4. bz \in Buffers => Unmarshal1(Coin_Unmarshal, x0["ValidatorRegistrationBurn"], bz) = [st |-> "ok", m |-> v1]
    BY <1>1, <1>2, <2>1, <2>2, CoinReads1
  <2>5. Codes(after, dAtA, x0, PutBytes(1, bz, PutBytes(2, Coin_Marshal(b.ValidatorMinSelfDelegation), <<>>)), x2)
    BY <1>8, <1>11, <1>12, <1>9, <2>1, <2>3, <2>4, MessageCodes2
  <2>. QED  BY <2>2, <2>5
<1>14. V!Params_Marshal(b) = PutBytes(1, Coin_Marshal(b.ValidatorRegistrationBurn), PutBytes(2, Coin_Marshal(b.ValidatorMinSelfDelegation), <<>>))
  BY ValidatorOperators DEF V!Params_Marshal
<1>15. MergedValidatorParams(a, b) = x2
  <2>1. MergedValidatorParams(a, b) = [ValidatorRegistrationBurn |-> MergedCoin(a.ValidatorRegistrationBurn, b.ValidatorRegistrationBurn), ValidatorMinSelfDelegation |-> MergedCoin(a.ValidatorMinSelfDelegation, b.ValidatorMinSelfDelegation)]
    BY DEF MergedValidatorParams
  <2>. QED  BY <2>1, <1>2, <1>3, <1>7
<1>. QED  BY <1>1, <1>5, <1>13, <1>14, <1>15

LEMMA ValidatorGenesisStateCodes2 ==
  ASSUME NEW dAtA, NEW T, NEW after, Loops2(V!GenesisState_Unmarshal, V!GenesisState_Type, dAtA, T, after),
         NEW a \in V!GenesisState_Type, NEW b \in V!GenesisState_Type
  PROVE  Codes(after, dAtA, a, V!GenesisState_Marshal(b), Merged("validator.GenesisState", a, b))
<1>1. /\ a.Params \in V!Params_Type /\ b.Params \in V!Params_Type
      /\ a = [Params |-> a.Params]
  BY ValidatorOperators DEF V!GenesisState_Type
<1>2. PICK v1 : v1 = MergedValidatorParams(a.Params, b.Params)
  OBVIOUS
<1>3. /\ v1 \in V!Params_Type
  BY <1>1, <1>2, ValidatorParamsMerged
<1>4. PICK x0 : x0 = [Params |-> a.Params]
  OBVIOUS
<1>5. PICK x1 : x1 = [Params |-> v1]
  OBVIOUS
<1>6. /\ x0 \in V!GenesisState_Type
  BY <1>1, <1>3, <1>4, ValidatorOperators DEF V!GenesisState_Type
<1>7. Codes(after, dAtA, x1, <<>>, x1)
  BY CodesNothing
<1>8. /\ 1 \in DOMAIN V!GenesisState_Unmarshal /\ V!GenesisState_Unmarshal[1] = Message("Params", V!Params_Unmarshal)
  <2>1. V!GenesisState_Unmarshal = <<Message("Params", V!Params_Unmarshal)>>
    BY ValidatorOperators DEF V!GenesisState_Unmarshal
  <2>. QED  BY <2>1
<1>9. Codes(after, dAtA, x0, PutBytes(1, V!Params_Marshal(b.Params), <<>>), x1)
  <2>1. x1 = With(x0, "Params", v1) /\ x0["Params"] = a.Params
    BY <1>1, <1>2, <1>4, <1>5 DEF With
  <2>2. PICK bz : bz = V!Params_Marshal(b.Params)
    OBVIOUS
  <2>3. bz \in Seq(Byte)
    BY <1>1, <2>2, ValidatorParamsMeasured DEF Measured
  <2>4. bz \in Buffers => Unmarshal1(V!Params_Unmarshal, x0["Params"], bz) = [st |-> "ok", m |-> v1]
    BY <1>1, <1>2, <2>1, <2>2, ValidatorParamsReads1
  <2>5. Codes(after, dAtA, x0, PutBytes(1, bz, <<>>), x1)
    BY <1>6, <1>8, <1>7, <2>1, <2>3, <2>4, MessageCodes2
  <2>. QED  BY <2>2, <2>5
<1>10. V!GenesisState_Marshal(b) = PutBytes(1, V!Params_Marshal(b.Params), <<>>)
  BY ValidatorOperators DEF V!GenesisState_Marshal
<1>11. Merged("validator.GenesisState", a, b) = x1
  <2>1. Merged("validator.GenesisState", a, b) = [Params |-> MergedValidatorParams(a.Params, b.Params)]
    BY Zenon DEF Merged
  <2>. QED  BY <2>1, <1>2, <1>5
<1>. QED  BY <1>1, <1>4, <1>9, <1>10, <1>11

LEMMA MsgRegisterValidatorCodes2 ==
  ASSUME NEW dAtA, NEW T, NEW after, Loops2(V!MsgRegisterValidator_Unmarshal, V!MsgRegisterValidator_Type, dAtA, T, after),
         NEW a \in V!MsgRegisterValidator_Type, NEW b \in V!MsgRegisterValidator_Type
  PROVE  Codes(after, dAtA, a, V!MsgRegisterValidator_Marshal(b), Merged("validator.MsgRegisterValidator", a, b))
<1>1. /\ a.Sender \in Strings /\ b.Sender \in Strings
      /\ a.CreateValidator \in MsgCreateValidator_Type /\ b.CreateValidator \in MsgCreateValidator_Type
      /\ a.Burn \in Coin_Type /\ b.Burn \in Coin_Type
      /\ a = [Sender |-> a.Sender, CreateValidator |-> a.CreateValidator, Burn |-> a.Burn]
  BY ValidatorOperators DEF V!MsgRegisterValidator_Type
<1>2. PICK v1 : v1 = Latest(a.Sender, b.Sender, <<>>)
  OBVIOUS
<1>3. PICK v2 : v2 = MergedCreateValidator(a.CreateValidator, b.CreateValidator)
  OBVIOUS
<1>4. PICK v3 : v3 = MergedCoin(a.Burn, b.Burn)
  OBVIOUS
<1>5. /\ v1 \in Strings
      /\ v2 \in MsgCreateValidator_Type
      /\ v3 \in Coin_Type
  BY <1>1, <1>2, <1>3, <1>4, MergedFields, CoinMerged, MsgCreateValidatorMerged
<1>6. PICK x0 : x0 = [Sender |-> a.Sender, CreateValidator |-> a.CreateValidator, Burn |-> a.Burn]
  OBVIOUS
<1>7. PICK x1 : x1 = [Sender |-> v1, CreateValidator |-> a.CreateValidator, Burn |-> a.Burn]
  OBVIOUS
<1>8. PICK x2 : x2 = [Sender |-> v1, CreateValidator |-> v2, Burn |-> a.Burn]
  OBVIOUS
<1>9. PICK x3 : x3 = [Sender |-> v1, CreateValidator |-> v2, Burn |-> v3]
  OBVIOUS
<1>10. /\ x0 \in V!MsgRegisterValidator_Type
       /\ x1 \in V!MsgRegisterValidator_Type
       /\ x2 \in V!MsgRegisterValidator_Type
  BY <1>1, <1>5, <1>6, <1>7, <1>8, ValidatorOperators DEF V!MsgRegisterValidator_Type
<1>11. /\ x1["Sender"] = x3["Sender"]
       /\ x2["CreateValidator"] = x3["CreateValidator"]
  BY <1>7, <1>8, <1>9
<1>12. Codes(after, dAtA, x3, <<>>, x3)
  BY CodesNothing
<1>13. /\ 1 \in DOMAIN V!MsgRegisterValidator_Unmarshal /\ V!MsgRegisterValidator_Unmarshal[1] = String("Sender")
       /\ 2 \in DOMAIN V!MsgRegisterValidator_Unmarshal /\ V!MsgRegisterValidator_Unmarshal[2] = Message("CreateValidator", MsgCreateValidator_Unmarshal)
       /\ 3 \in DOMAIN V!MsgRegisterValidator_Unmarshal /\ V!MsgRegisterValidator_Unmarshal[3] = Message("Burn", Coin_Unmarshal)
  <2>1. V!MsgRegisterValidator_Unmarshal = <<String("Sender"), Message("CreateValidator", MsgCreateValidator_Unmarshal), Message("Burn", Coin_Unmarshal)>>
    BY ValidatorOperators DEF V!MsgRegisterValidator_Unmarshal
  <2>. QED  BY <2>1
<1>14. Codes(after, dAtA, x2, PutBytes(3, Coin_Marshal(b.Burn), <<>>), x3)
  <2>1. x3 = With(x2, "Burn", v3) /\ x2["Burn"] = a.Burn
    BY <1>1, <1>4, <1>8, <1>9 DEF With
  <2>2. PICK bz : bz = Coin_Marshal(b.Burn)
    OBVIOUS
  <2>3. bz \in Seq(Byte)
    BY <1>1, <2>2, CoinMeasured DEF Measured
  <2>4. bz \in Buffers => Unmarshal1(Coin_Unmarshal, x2["Burn"], bz) = [st |-> "ok", m |-> v3]
    BY <1>1, <1>4, <2>1, <2>2, CoinReads1
  <2>5. Codes(after, dAtA, x2, PutBytes(3, bz, <<>>), x3)
    BY <1>10, <1>13, <1>12, <2>1, <2>3, <2>4, MessageCodes2
  <2>. QED  BY <2>2, <2>5
<1>15. Codes(after, dAtA, x1, PutBytes(2, MsgCreateValidator_Marshal(b.CreateValidator), PutBytes(3, Coin_Marshal(b.Burn), <<>>)), x3)
  <2>1. x2 = With(x1, "CreateValidator", v2) /\ x1["CreateValidator"] = a.CreateValidator
    BY <1>1, <1>3, <1>7, <1>8 DEF With
  <2>2. PICK bz : bz = MsgCreateValidator_Marshal(b.CreateValidator)
    OBVIOUS
  <2>3. bz \in Seq(Byte)
    BY <1>1, <2>2, MsgCreateValidatorMeasured DEF Measured
  <2>4. bz \in Buffers => Unmarshal1(MsgCreateValidator_Unmarshal, x1["CreateValidator"], bz) = [st |-> "ok", m |-> v2]
    BY <1>1, <1>3, <2>1, <2>2, MsgCreateValidatorReads1
  <2>5. Codes(after, dAtA, x1, PutBytes(2, bz, PutBytes(3, Coin_Marshal(b.Burn), <<>>)), x3)
    BY <1>10, <1>13, <1>14, <1>11, <2>1, <2>3, <2>4, MessageCodes2
  <2>. QED  BY <2>2, <2>5
<1>16. Codes(after, dAtA, x0, PutString(1, b.Sender, PutBytes(2, MsgCreateValidator_Marshal(b.CreateValidator), PutBytes(3, Coin_Marshal(b.Burn), <<>>))), x3)
  <2>1. PICK s \in Strings : s = b.Sender
    BY <1>1
  <2>2. x1 = (IF Len(s) > 0 THEN With(x0, "Sender", s) ELSE x0)
    BY <1>1, <1>2, <1>6, <1>7, <2>1, MergedFields DEF With
  <2>3. Codes(after, dAtA, x0, PutString(1, s, PutBytes(2, MsgCreateValidator_Marshal(b.CreateValidator), PutBytes(3, Coin_Marshal(b.Burn), <<>>))), x3)
    BY <1>10, <1>13, <1>15, <1>11, <2>2, StringCodes2
  <2>. QED  BY <2>1, <2>3
<1>17. V!MsgRegisterValidator_Marshal(b) = PutString(1, b.Sender, PutBytes(2, MsgCreateValidator_Marshal(b.CreateValidator), PutBytes(3, Coin_Marshal(b.Burn), <<>>)))
  BY ValidatorOperators DEF V!MsgRegisterValidator_Marshal
<1>18. Merged("validator.MsgRegisterValidator", a, b) = x3
  <2>1. Merged("validator.MsgRegisterValidator", a, b) = [Sender |-> Latest(a.Sender, b.Sender, <<>>), CreateValidator |-> MergedCreateValidator(a.CreateValidator, b.CreateValidator), Burn |-> MergedCoin(a.Burn, b.Burn)]
    BY Zenon DEF Merged
  <2>. QED  BY <2>1, <1>2, <1>3, <1>4, <1>9
<1>. QED  BY <1>1, <1>6, <1>16, <1>17, <1>18

LEMMA ValidatorMsgUpdateParamsCodes2 ==
  ASSUME NEW dAtA, NEW T, NEW after, Loops2(V!MsgUpdateParams_Unmarshal, V!MsgUpdateParams_Type, dAtA, T, after),
         NEW a \in V!MsgUpdateParams_Type, NEW b \in V!MsgUpdateParams_Type
  PROVE  Codes(after, dAtA, a, V!MsgUpdateParams_Marshal(b), Merged("validator.MsgUpdateParams", a, b))
<1>1. /\ a.Authority \in Strings /\ b.Authority \in Strings
      /\ a.Params \in V!Params_Type /\ b.Params \in V!Params_Type
      /\ a = [Authority |-> a.Authority, Params |-> a.Params]
  BY ValidatorOperators DEF V!MsgUpdateParams_Type
<1>2. PICK v1 : v1 = Latest(a.Authority, b.Authority, <<>>)
  OBVIOUS
<1>3. PICK v2 : v2 = MergedValidatorParams(a.Params, b.Params)
  OBVIOUS
<1>4. /\ v1 \in Strings
      /\ v2 \in V!Params_Type
  BY <1>1, <1>2, <1>3, MergedFields, ValidatorParamsMerged
<1>5. PICK x0 : x0 = [Authority |-> a.Authority, Params |-> a.Params]
  OBVIOUS
<1>6. PICK x1 : x1 = [Authority |-> v1, Params |-> a.Params]
  OBVIOUS
<1>7. PICK x2 : x2 = [Authority |-> v1, Params |-> v2]
  OBVIOUS
<1>8. /\ x0 \in V!MsgUpdateParams_Type
      /\ x1 \in V!MsgUpdateParams_Type
  BY <1>1, <1>4, <1>5, <1>6, ValidatorOperators DEF V!MsgUpdateParams_Type
<1>9. x1["Authority"] = x2["Authority"]
  BY <1>6, <1>7
<1>10. Codes(after, dAtA, x2, <<>>, x2)
  BY CodesNothing
<1>11. /\ 1 \in DOMAIN V!MsgUpdateParams_Unmarshal /\ V!MsgUpdateParams_Unmarshal[1] = String("Authority")
       /\ 2 \in DOMAIN V!MsgUpdateParams_Unmarshal /\ V!MsgUpdateParams_Unmarshal[2] = Message("Params", V!Params_Unmarshal)
  <2>1. V!MsgUpdateParams_Unmarshal = <<String("Authority"), Message("Params", V!Params_Unmarshal)>>
    BY ValidatorOperators DEF V!MsgUpdateParams_Unmarshal
  <2>. QED  BY <2>1
<1>12. Codes(after, dAtA, x1, PutBytes(2, V!Params_Marshal(b.Params), <<>>), x2)
  <2>1. x2 = With(x1, "Params", v2) /\ x1["Params"] = a.Params
    BY <1>1, <1>3, <1>6, <1>7 DEF With
  <2>2. PICK bz : bz = V!Params_Marshal(b.Params)
    OBVIOUS
  <2>3. bz \in Seq(Byte)
    BY <1>1, <2>2, ValidatorParamsMeasured DEF Measured
  <2>4. bz \in Buffers => Unmarshal1(V!Params_Unmarshal, x1["Params"], bz) = [st |-> "ok", m |-> v2]
    BY <1>1, <1>3, <2>1, <2>2, ValidatorParamsReads1
  <2>5. Codes(after, dAtA, x1, PutBytes(2, bz, <<>>), x2)
    BY <1>8, <1>11, <1>10, <2>1, <2>3, <2>4, MessageCodes2
  <2>. QED  BY <2>2, <2>5
<1>13. Codes(after, dAtA, x0, PutString(1, b.Authority, PutBytes(2, V!Params_Marshal(b.Params), <<>>)), x2)
  <2>1. PICK s \in Strings : s = b.Authority
    BY <1>1
  <2>2. x1 = (IF Len(s) > 0 THEN With(x0, "Authority", s) ELSE x0)
    BY <1>1, <1>2, <1>5, <1>6, <2>1, MergedFields DEF With
  <2>3. Codes(after, dAtA, x0, PutString(1, s, PutBytes(2, V!Params_Marshal(b.Params), <<>>)), x2)
    BY <1>8, <1>11, <1>12, <1>9, <2>2, StringCodes2
  <2>. QED  BY <2>1, <2>3
<1>14. V!MsgUpdateParams_Marshal(b) = PutString(1, b.Authority, PutBytes(2, V!Params_Marshal(b.Params), <<>>))
  BY ValidatorOperators DEF V!MsgUpdateParams_Marshal
<1>15. Merged("validator.MsgUpdateParams", a, b) = x2
  <2>1. Merged("validator.MsgUpdateParams", a, b) = [Authority |-> Latest(a.Authority, b.Authority, <<>>), Params |-> MergedValidatorParams(a.Params, b.Params)]
    BY Zenon DEF Merged
  <2>. QED  BY <2>1, <1>2, <1>3, <1>7
<1>. QED  BY <1>1, <1>5, <1>13, <1>14, <1>15

LEMMA ValidatorQueryParamsResponseCodes2 ==
  ASSUME NEW dAtA, NEW T, NEW after, Loops2(V!QueryParamsResponse_Unmarshal, V!QueryParamsResponse_Type, dAtA, T, after),
         NEW a \in V!QueryParamsResponse_Type, NEW b \in V!QueryParamsResponse_Type
  PROVE  Codes(after, dAtA, a, V!QueryParamsResponse_Marshal(b), Merged("validator.QueryParamsResponse", a, b))
<1>1. /\ a.Params \in V!Params_Type /\ b.Params \in V!Params_Type
      /\ a = [Params |-> a.Params]
  BY ValidatorOperators DEF V!QueryParamsResponse_Type
<1>2. PICK v1 : v1 = MergedValidatorParams(a.Params, b.Params)
  OBVIOUS
<1>3. /\ v1 \in V!Params_Type
  BY <1>1, <1>2, ValidatorParamsMerged
<1>4. PICK x0 : x0 = [Params |-> a.Params]
  OBVIOUS
<1>5. PICK x1 : x1 = [Params |-> v1]
  OBVIOUS
<1>6. /\ x0 \in V!QueryParamsResponse_Type
  BY <1>1, <1>3, <1>4, ValidatorOperators DEF V!QueryParamsResponse_Type
<1>7. Codes(after, dAtA, x1, <<>>, x1)
  BY CodesNothing
<1>8. /\ 1 \in DOMAIN V!QueryParamsResponse_Unmarshal /\ V!QueryParamsResponse_Unmarshal[1] = Message("Params", V!Params_Unmarshal)
  <2>1. V!QueryParamsResponse_Unmarshal = <<Message("Params", V!Params_Unmarshal)>>
    BY ValidatorOperators DEF V!QueryParamsResponse_Unmarshal
  <2>. QED  BY <2>1
<1>9. Codes(after, dAtA, x0, PutBytes(1, V!Params_Marshal(b.Params), <<>>), x1)
  <2>1. x1 = With(x0, "Params", v1) /\ x0["Params"] = a.Params
    BY <1>1, <1>2, <1>4, <1>5 DEF With
  <2>2. PICK bz : bz = V!Params_Marshal(b.Params)
    OBVIOUS
  <2>3. bz \in Seq(Byte)
    BY <1>1, <2>2, ValidatorParamsMeasured DEF Measured
  <2>4. bz \in Buffers => Unmarshal1(V!Params_Unmarshal, x0["Params"], bz) = [st |-> "ok", m |-> v1]
    BY <1>1, <1>2, <2>1, <2>2, ValidatorParamsReads1
  <2>5. Codes(after, dAtA, x0, PutBytes(1, bz, <<>>), x1)
    BY <1>6, <1>8, <1>7, <2>1, <2>3, <2>4, MessageCodes2
  <2>. QED  BY <2>2, <2>5
<1>10. V!QueryParamsResponse_Marshal(b) = PutBytes(1, V!Params_Marshal(b.Params), <<>>)
  BY ValidatorOperators DEF V!QueryParamsResponse_Marshal
<1>11. Merged("validator.QueryParamsResponse", a, b) = x1
  <2>1. Merged("validator.QueryParamsResponse", a, b) = [Params |-> MergedValidatorParams(a.Params, b.Params)]
    BY Zenon DEF Merged
  <2>. QED  BY <2>1, <1>2, <1>5
<1>. QED  BY <1>1, <1>4, <1>9, <1>10, <1>11

LEMMA JoinedPrefix ==
  ASSUME NEW R, NEW a \in Seq(R), NEW rec \in Seq(R), NEW k \in 0..Len(rec)
  PROVE  IsPrefix(a \o SubSeq(rec, 1, k), a \o rec)
<1>1. PICK n \in Nat, l \in Nat : n = Len(a) /\ l = Len(rec)
  OBVIOUS
<1>2. PICK s \in Seq(R) : s = SubSeq(rec, 1, k) /\ Len(s) = k
  <2>1. 0 \in Nat /\ k \in Nat /\ 0 <= k /\ k <= Len(rec) /\ 0 + 1 = 1 /\ k - 0 = k
    BY <1>1
  <2>2. SubSeq(rec, 1, k) \in Seq(R) /\ Len(SubSeq(rec, 1, k)) = k
    BY <2>1, SubSeqFacts
  <2>. QED  BY <2>2
<1>3. \A i \in 1..k : s[i] = rec[i]
  BY <1>2
<1>4. PICK p \in Seq(R), q \in Seq(R) : p = a \o s /\ q = a \o rec /\ Len(p) = n + k /\ Len(q) = n + l
  <2>1. a \o s \in Seq(R) /\ Len(a \o s) = n + k
    BY <1>1, <1>2, Joined
  <2>2. a \o rec \in Seq(R) /\ Len(a \o rec) = n + l
    BY <1>1, Joined
  <2>. QED  BY <2>1, <2>2
<1>5. ASSUME NEW i \in 1..(n + k) PROVE p[i] = q[i]
  <2>1. CASE i <= n
    BY <1>1, <1>2, <1>4, <2>1
  <2>2. CASE ~ (i <= n)
    <3>1. i - n \in 1..k
      BY <2>2
    <3>2. p[i] = s[i - n] /\ q[i] = rec[i - n]
      BY <1>1, <1>2, <1>4, <2>2
    <3>. QED  BY <1>3, <3>1, <3>2
  <2>. QED  BY <2>1, <2>2
<1>6. SubSeq(p, 1, n + k) = SubSeq(q, 1, n + k)
  BY <1>1, <1>4, <1>5
<1>7. n + k <= n + l
  BY <1>1
<1>8. IsPrefix(p, q)
  BY <1>4, <1>6, <1>7 DEF IsPrefix
<1>. QED  BY <1>2, <1>4, <1>8

\* The lists of a genesis state while the records of b are read one after the other.
IsMerging(part, a, b) ==
  /\ part[0] = a /\ part[Len(b)] = MergedRecords(a, b)
  /\ \A k \in 0..Len(b) : part[k] \in Seq(B!AccountBurnRecord_Type)
  /\ \A k \in 0..(Len(b) - 1) :
       part[k + 1] = Append(part[k], MergedRecord(B!AccountBurnRecord_Zero, b[k + 1]))
  /\ \A k \in 0..Len(b) : IsPrefix(part[k], part[Len(b)])

LEMMA RecordsMerged ==
  ASSUME NEW a \in Seq(B!AccountBurnRecord_Type), NEW b \in Seq(B!AccountBurnRecord_Type)
  PROVE  \E part : IsMerging(part, a, b)
<1>. DEFINE R == B!AccountBurnRecord_Type
            rec == [k \in 1..Len(b) |-> MergedRecord(B!AccountBurnRecord_Zero, b[k])]
            part == [k \in 0..Len(b) |-> a \o SubSeq(rec, 1, k)]
<1>1. Len(b) \in Nat /\ a \in Seq(R)
  OBVIOUS
<1>2. ASSUME NEW k \in 1..Len(b) PROVE rec[k] \in R
  <2>1. b[k] \in R /\ B!AccountBurnRecord_Zero \in R
    BY AccountBurnRecordFields
  <2>. QED  BY <2>1, AccountBurnRecordMerged
<1>3. rec \in Seq(R) /\ Len(rec) = Len(b)
  BY <1>1, <1>2, ListType
<1>4. \A k \in 1..Len(b) : rec[k] = MergedRecord(B!AccountBurnRecord_Zero, b[k])
  OBVIOUS
<1>5. MergedRecords(a, b) = a \o rec
  BY DEF MergedRecords
<1>. HIDE DEF rec, R
<1>6. ASSUME NEW k \in 0..Len(b)
      PROVE  SubSeq(rec, 1, k) \in Seq(R) /\ Len(SubSeq(rec, 1, k)) = k
  <2>1. 0 \in Nat /\ k \in Nat /\ 0 <= k /\ k <= Len(rec) /\ 0 + 1 = 1 /\ k - 0 = k
    BY <1>1, <1>3
  <2>. QED  BY <1>3, <2>1, SubSeqFacts
<1>7. part[0] = a
  <2>1. SubSeq(rec, 1, 0) = <<>>
    BY <1>3
  <2>2. a \o <<>> = a
    BY <1>1
  <2>. QED  BY <1>1, <2>1, <2>2
<1>8. part[Len(b)] = MergedRecords(a, b)
  <2>1. SubSeq(rec, 1, Len(b)) = rec
    BY <1>1, <1>3
  <2>2. part[Len(b)] = a \o SubSeq(rec, 1, Len(b))
    BY <1>1
  <2>. QED  BY <1>5, <2>1, <2>2
<1>9. ASSUME NEW k \in 0..Len(b) PROVE part[k] \in Seq(R)
  BY <1>1, <1>6, Joined
<1>10. ASSUME NEW k \in 0..(Len(b) - 1)
       PROVE  part[k + 1] = Append(part[k], rec[k + 1])
  <2>1. k \in 0..Len(b) /\ k + 1 \in 1..Len(b) /\ k + 1 \in 0..Len(b)
    BY <1>1
  <2>2. PICK s \in Seq(R) : s = SubSeq(rec, 1, k)
    BY <1>6, <2>1
  <2>3. SubSeq(rec, 1, k + 1) = Append(s, rec[k + 1])
    BY <1>1, <1>3, <2>2
  <2>4. rec[k + 1] \in R
    BY <1>1, <1>2
  <2>5. a \o Append(s, rec[k + 1]) = Append(a \o s, rec[k + 1])
    BY <1>1, <2>2, <2>4
  <2>6. part[k] = a \o s /\ part[k + 1] = a \o SubSeq(rec, 1, k + 1)
    BY <2>2, <2>1
  <2>. QED  BY <2>3, <2>5, <2>6
<1>11. ASSUME NEW k \in 0..(Len(b) - 1)
       PROVE  part[k + 1] = Append(part[k], MergedRecord(B!AccountBurnRecord_Zero, b[k + 1]))
  <2>1. k + 1 \in 1..Len(b)
    BY <1>1
  <2>. QED  BY <1>4, <1>10, <2>1
<1>12. ASSUME NEW k \in 0..Len(b) PROVE IsPrefix(part[k], part[Len(b)])
  <2>1. part[k] = a \o SubSeq(rec, 1, k) /\ part[Len(b)] = a \o rec
    BY <1>5, <1>8
  <2>2. IsPrefix(a \o SubSeq(rec, 1, k), a \o rec)
    BY <1>1, <1>3, JoinedPrefix
  <2>. QED  BY <2>1, <2>2
<1>. HIDE DEF part
<1>. QED  BY <1>7, <1>8, <1>9, <1>11, <1>12 DEF R, IsMerging

LEMMA BurnGenesisStateMerged ==
  ASSUME NEW a \in B!GenesisState_Type, NEW b \in B!GenesisState_Type
  PROVE  /\ Merged("burn.GenesisState", a, b) =
              [Params |-> MergedBurnParams(a.Params, b.Params), Count |-> Latest(a.Count, b.Count, 0),
               Total |-> Written(b.Total), AccountTotals |-> MergedRecords(a.AccountTotals, b.AccountTotals)]
         /\ Merged("burn.GenesisState", a, b) \in B!GenesisState_Type
<1>1. /\ a.Params \in B!Params_Type /\ b.Params \in B!Params_Type
      /\ a.Count \in Word /\ b.Count \in Word
      /\ a.Total \in Numbers /\ b.Total \in Numbers
      /\ a.AccountTotals \in Seq(B!AccountBurnRecord_Type)
      /\ b.AccountTotals \in Seq(B!AccountBurnRecord_Type)
  BY BurnOperators DEF B!GenesisState_Type
<1>2. /\ MergedBurnParams(a.Params, b.Params) \in B!Params_Type
      /\ Latest(a.Count, b.Count, 0) \in Word
      /\ Written(b.Total) \in Numbers
  BY <1>1, MergedFields, BurnParamsMerged
<1>3. MergedRecords(a.AccountTotals, b.AccountTotals) \in Seq(B!AccountBurnRecord_Type)
  <2>1. PICK u \in Seq(B!AccountBurnRecord_Type), v \in Seq(B!AccountBurnRecord_Type) :
          u = a.AccountTotals /\ v = b.AccountTotals
    BY <1>1
  <2>2. PICK part : IsMerging(part, u, v)
    BY RecordsMerged
  <2>3. Len(v) \in 0..Len(v)
    OBVIOUS
  <2>. QED  BY <2>1, <2>2, <2>3 DEF IsMerging
<1>4. Merged("burn.GenesisState", a, b) =
        [Params |-> MergedBurnParams(a.Params, b.Params), Count |-> Latest(a.Count, b.Count, 0),
         Total |-> Written(b.Total), AccountTotals |-> MergedRecords(a.AccountTotals, b.AccountTotals)]
  BY Zenon DEF Merged
<1>. QED  BY <1>2, <1>3, <1>4, BurnOperators DEF B!GenesisState_Type

\* The records that Marshal has written when the k last of them are in the buffer are
\* those that the loop has left when it has read all but the k last.
LEMMA BurnGenesisStateCodes2 ==
  ASSUME NEW dAtA, NEW T, NEW after,
         Loops2(B!GenesisState_Unmarshal, B!GenesisState_Type, dAtA, T, after),
         NEW a \in B!GenesisState_Type, NEW b \in B!GenesisState_Type
  PROVE  Codes(after, dAtA, a, B!GenesisState_Marshal(b), Merged("burn.GenesisState", a, b))
<1>. DEFINE G == B!GenesisState_Type
            R == B!AccountBurnRecord_Type
            U == B!GenesisState_Unmarshal
<1>1. /\ a.Params \in B!Params_Type /\ b.Params \in B!Params_Type
      /\ a.Count \in Word /\ b.Count \in Word
      /\ a.Total \in Numbers /\ b.Total \in Numbers
      /\ a.AccountTotals \in Seq(R) /\ b.AccountTotals \in Seq(R)
      /\ a = [Params |-> a.Params, Count |-> a.Count, Total |-> a.Total, AccountTotals |-> a.AccountTotals]
  BY BurnOperators DEF B!GenesisState_Type
<1>2. PICK v1 \in B!Params_Type, v2 \in Word, v3 \in Numbers :
        /\ v1 = MergedBurnParams(a.Params, b.Params)
        /\ v2 = Latest(a.Count, b.Count, 0)
        /\ v3 = Written(b.Total)
  BY <1>1, MergedFields, BurnParamsMerged
<1>3. PICK records \in Seq(R), last \in Nat : records = b.AccountTotals /\ last = Len(records)
  BY <1>1
<1>4. PICK part : /\ part[0] = a.AccountTotals
                  /\ part[last] = MergedRecords(a.AccountTotals, b.AccountTotals)
                  /\ \A k \in 0..last : part[k] \in Seq(R)
                  /\ \A k \in 0..(last - 1) :
                       part[k + 1] = Append(part[k], MergedRecord(B!AccountBurnRecord_Zero, records[k + 1]))
                  /\ \A k \in 0..last : IsPrefix(part[k], part[last])
  <2>1. PICK first \in Seq(R) : first = a.AccountTotals
    BY <1>1
  <2>2. PICK part : IsMerging(part, first, records)
    BY <1>3, RecordsMerged
  <2>. QED  BY <1>3, <2>1, <2>2 DEF IsMerging
<1>5. PICK written : IsWritten(b, written)
  BY BurnGenesisStateWritten
<1>. DEFINE y(k) == [Params |-> v1, Count |-> v2, Total |-> v3, AccountTotals |-> part[k]]
<1>6. ASSUME NEW k \in 0..last PROVE y(k) \in G /\ y(k)["AccountTotals"] = part[k]
  <2>1. part[k] \in Seq(R)
    BY <1>4
  <2>. QED  BY <1>2, <2>1, BurnOperators DEF B!GenesisState_Type
<1>7. PICK x0 \in G, x1 \in G, x2 \in G :
        /\ x0 = a
        /\ x1 = [Params |-> v1, Count |-> a.Count, Total |-> a.Total, AccountTotals |-> a.AccountTotals]
        /\ x2 = [Params |-> v1, Count |-> v2, Total |-> a.Total, AccountTotals |-> a.AccountTotals]
  <2>1. [Params |-> v1, Count |-> a.Count, Total |-> a.Total, AccountTotals |-> a.AccountTotals] \in G
    BY <1>1, <1>2, BurnOperators DEF B!GenesisState_Type
  <2>2. [Params |-> v1, Count |-> v2, Total |-> a.Total, AccountTotals |-> a.AccountTotals] \in G
    BY <1>1, <1>2, BurnOperators DEF B!GenesisState_Type
  <2>. QED  BY <2>1, <2>2
<1>8. y(last) = Merged("burn.GenesisState", a, b)
  BY <1>2, <1>4, BurnGenesisStateMerged
<1>9. /\ 1 \in DOMAIN U /\ U[1] = Message("Params", B!Params_Unmarshal)
      /\ 2 \in DOMAIN U /\ U[2] = Uint64("Count")
      /\ 3 \in DOMAIN U /\ U[3] = Number("Total")
      /\ 4 \in DOMAIN U
      /\ U[4] = Repeated("AccountTotals", B!AccountBurnRecord_Unmarshal, B!AccountBurnRecord_Zero)
  <2>1. U = <<Message("Params", B!Params_Unmarshal), Uint64("Count"), Number("Total"),
              Repeated("AccountTotals", B!AccountBurnRecord_Unmarshal, B!AccountBurnRecord_Zero)>>
    BY BurnOperators DEF B!GenesisState_Unmarshal
  <2>. HIDE DEF U
  <2>. QED  BY <2>1
<1>10. Loops2(U, G, dAtA, T, after)
  OBVIOUS
<1>. HIDE DEF G, U
<1>11. \A k \in 0..last : Codes(after, dAtA, y(last - k), written[k], y(last))
  <2>. DEFINE P == {k \in 0..last : Codes(after, dAtA, y(last - k), written[k], y(last))}
  <2>1. 0 \in P
    <3>1. written[0] = <<>> /\ last - 0 = last /\ 0 \in 0..last
      BY <1>3, <1>5 DEF IsWritten
    <3>2. PICK end : end = y(last)
      OBVIOUS
    <3>3. Codes(after, dAtA, end, <<>>, end)
      BY CodesNothing
    <3>. QED  BY <3>1, <3>2, <3>3
  <2>2. ASSUME NEW k \in 0..(last - 1), k \in P PROVE k + 1 \in P
    <3>1. PICK l \in 0..(last - 1) : l = last - (k + 1)
      OBVIOUS
    <3>2. last - k = l + 1 /\ l + 1 \in 1..last /\ l \in 0..last /\ l + 1 \in 0..last /\ k + 1 \in 0..last
      BY <3>1
    <3>3. PICK r \in R : r = records[l + 1]
      BY <1>3, <3>2
    <3>4. PICK bz : bz = B!AccountBurnRecord_Marshal(r)
      OBVIOUS
    <3>5. written[k + 1] = PutBytes(4, bz, written[k])
      BY <1>3, <1>5, <3>2, <3>3, <3>4 DEF IsWritten
    <3>6. bz \in Seq(Byte)
      BY <3>4, AccountBurnRecordMeasured DEF Measured
    <3>7. PICK v : v = MergedRecord(B!AccountBurnRecord_Zero, r)
      OBVIOUS
    <3>8. bz \in Buffers =>
            Unmarshal1(B!AccountBurnRecord_Unmarshal, B!AccountBurnRecord_Zero, bz) = [st |-> "ok", m |-> v]
      BY <3>4, <3>7, AccountBurnRecordFields, AccountBurnRecordReads1
    <3>9. PICK old, mid, new : old \in G /\ old = y(l) /\ mid = y(l + 1) /\ new = y(last)
      BY <1>6, <3>2
    <3>10. IsPrefix(mid["AccountTotals"], new["AccountTotals"])
      <4>1. mid["AccountTotals"] = part[l + 1] /\ new["AccountTotals"] = part[last]
        BY <1>6, <3>2, <3>9
      <4>2. IsPrefix(part[l + 1], part[last])
        BY <1>4, <3>2
      <4>. QED  BY <4>1, <4>2
    <3>11. mid = With(old, "AccountTotals", Append(old["AccountTotals"], v))
      <4>1. part[l + 1] = Append(part[l], v)
        BY <1>4, <3>1, <3>3, <3>7
      <4>2. PICK p, q : p = part[l] /\ q = part[l + 1]
        OBVIOUS
      <4>3. old = [Params |-> v1, Count |-> v2, Total |-> v3, AccountTotals |-> p]
        BY <3>9, <4>2
      <4>4. mid = [Params |-> v1, Count |-> v2, Total |-> v3, AccountTotals |-> q]
        BY <3>9, <4>2
      <4>5. old["AccountTotals"] = p /\ mid = With(old, "AccountTotals", q)
        BY <4>3, <4>4 DEF With
      <4>. QED  BY <4>1, <4>2, <4>5
    <3>12. Codes(after, dAtA, mid, written[k], new)
      BY <2>2, <3>2, <3>9
    <3>13. Codes(after, dAtA, old, PutBytes(4, bz, written[k]), new)
      <4>1. PICK tail : tail = written[k]
        OBVIOUS
      <4>2. Codes(after, dAtA, mid, tail, new)
        BY <3>12, <4>1
      <4>3. Codes(after, dAtA, old, PutBytes(4, bz, tail), new)
        <5>1. /\ 4 \in DOMAIN U /\ 4 \in 1..15
              /\ U[4] = Repeated("AccountTotals", B!AccountBurnRecord_Unmarshal, B!AccountBurnRecord_Zero)
              /\ old \in G
          BY <1>9, <3>9
        <5>. QED  BY <1>10, <3>6, <3>8, <3>11, <3>10, <4>2, <5>1, RepeatedCodes2
      <4>. QED  BY <4>1, <4>3
    <3>. QED  BY <3>1, <3>2, <3>5, <3>9, <3>13
  <2>. HIDE DEF P, y
  <2>3. \A k \in 0..last : k \in P
    BY <2>1, <2>2, CountUp
  <2>. QED  BY <2>3 DEF P
<1>12. PICK x3, new : x3 = y(0) /\ new = y(last)
  OBVIOUS
<1>13. /\ x3["Total"] = new["Total"] /\ x2["Count"] = new["Count"] /\ x1["Params"] = new["Params"]
  BY <1>7, <1>12
<1>14. PICK w : w = written[last]
  OBVIOUS
<1>15. Codes(after, dAtA, x3, w, new)
  <2>1. last \in 0..last /\ last - last = 0
    OBVIOUS
  <2>. HIDE DEF y
  <2>. QED  BY <1>11, <1>12, <1>14, <2>1
<1>16. Codes(after, dAtA, x2, PutBytes(3, Number_Marshal(b.Total), w), new)
  <2>1. x3 = With(x2, "Total", Normal(b.Total))
    BY <1>2, <1>4, <1>7, <1>12, MergedFields DEF With
  <2>. QED  BY <1>1, <1>7, <1>9, <1>15, <1>10, <1>13, <2>1, NumberCodes2
<1>17. Codes(after, dAtA, x1, PutUint64(2, b.Count, PutBytes(3, Number_Marshal(b.Total), w)), new)
  <2>1. x2 = (IF b.Count # 0 THEN With(x1, "Count", b.Count) ELSE x1)
    BY <1>1, <1>2, <1>7, MergedFields DEF With
  <2>2. PICK tail : tail = PutBytes(3, Number_Marshal(b.Total), w)
    OBVIOUS
  <2>3. Codes(after, dAtA, x2, tail, new)
    BY <1>16, <2>2
  <2>4. Codes(after, dAtA, x1, PutUint64(2, b.Count, tail), new)
    <3>1. PICK v \in Word : v = b.Count
      BY <1>1
    <3>2. x2 = (IF v # 0 THEN With(x1, "Count", v) ELSE x1)
      BY <2>1, <3>1
    <3>3. 2 \in DOMAIN U /\ U[2] = Uint64("Count") /\ 2 \in 1..15
      BY <1>9
    <3>4. Codes(after, dAtA, x1, PutUint64(2, v, tail), new)
      BY <1>10, <1>13, <2>3, <3>2, <3>3, Uint64Codes2
    <3>. QED  BY <3>1, <3>4
  <2>. QED  BY <2>2, <2>4
<1>18. Codes(after, dAtA, x0,
         PutBytes(1, B!Params_Marshal(b.Params),
           PutUint64(2, b.Count, PutBytes(3, Number_Marshal(b.Total), w))), new)
  <2>1. x1 = With(x0, "Params", v1) /\ x0["Params"] = a.Params
    <3>1. x0 = [Params |-> a.Params, Count |-> a.Count, Total |-> a.Total, AccountTotals |-> a.AccountTotals]
      BY <1>1, <1>7
    <3>. QED  BY <1>7, <3>1 DEF With
  <2>2. PICK bz : bz = B!Params_Marshal(b.Params)
    OBVIOUS
  <2>3. bz \in Seq(Byte)
    BY <1>1, <2>2, BurnParamsMeasured DEF Measured
  <2>4. bz \in Buffers => Unmarshal1(B!Params_Unmarshal, x0["Params"], bz) = [st |-> "ok", m |-> v1]
    BY <1>1, <1>2, <2>1, <2>2, BurnParamsReads1
  <2>5. Codes(after, dAtA, x0,
          PutBytes(1, bz, PutUint64(2, b.Count, PutBytes(3, Number_Marshal(b.Total), w))), new)
    BY <1>9, <1>17, <1>10, <1>13, <2>1, <2>3, <2>4, MessageCodes2
  <2>. QED  BY <2>2, <2>5
<1>19. B!GenesisState_Marshal(b) =
         PutBytes(1, B!Params_Marshal(b.Params),
           PutUint64(2, b.Count, PutBytes(3, Number_Marshal(b.Total), w)))
  BY <1>3, <1>5, <1>14 DEF IsWritten
<1>. QED  BY <1>7, <1>8, <1>12, <1>18, <1>19

-----------------------------------------------------------------------------
(* Normal forms: a message and what is read of it are encoded the same.    *)

LEMMA NumberNormal ==
  ASSUME NEW v \in Numbers
  PROVE  Number_Marshal(Written(v)) = Number_Marshal(v)
<1>1. CASE v = Nil
  <2>1. Written(v) = <<0>> /\ <<0>> # Nil /\ <<0>>[1] = 0
    BY <1>1 DEF Written, Nil
  <2>2. PICK n : n = Written(v)
    OBVIOUS
  <2>3. n # Nil /\ n[1] = 0
    BY <2>1, <2>2
  <2>4. Number_Marshal(n) = Digits(0)
    BY <2>3 DEF Number_Marshal
  <2>5. Number_Marshal(v) = Digits(0)
    BY <1>1 DEF Number_Marshal
  <2>. QED  BY <2>2, <2>4, <2>5
<1>2. CASE v # Nil
  BY <1>2 DEF Written
<1>. QED  BY <1>1, <1>2

LEMMA StringNormal == \A s : Latest(<<>>, s, <<>>) = s
BY DEF Latest

LEMMA CoinNormal ==
  ASSUME NEW b \in Coin_Type
  PROVE  Coin_Marshal(MergedCoin(Coin_Zero, b)) = Coin_Marshal(b)
<1>1. /\ b.Denom \in Strings
      /\ b.Amount \in Numbers
  BY DEF Coin_Type
<1>2. /\ Coin_Zero.Denom = <<>>
  BY DEF Coin_Zero
<1>3. PICK c : c = MergedCoin(Coin_Zero, b)
  OBVIOUS
<1>4. /\ c.Denom = Latest(Coin_Zero.Denom, b.Denom, <<>>)
      /\ c.Amount = Written(b.Amount)
  BY <1>3 DEF MergedCoin
<1>5. /\ c.Denom = b.Denom
      /\ Number_Marshal(c.Amount) = Number_Marshal(b.Amount)
  BY <1>1, <1>2, <1>4, StringNormal, NumberNormal
<1>. QED  BY <1>3, <1>5 DEF Coin_Marshal

LEMMA MsgCreateValidatorNormal ==
  ASSUME NEW b \in MsgCreateValidator_Type
  PROVE  MsgCreateValidator_Marshal(MergedCreateValidator(MsgCreateValidator_Zero, b)) = MsgCreateValidator_Marshal(b)
<1>1. /\ b.ValidatorAddress \in Strings
      /\ b.Value \in Coin_Type
  BY DEF MsgCreateValidator_Type
<1>2. /\ MsgCreateValidator_Zero.ValidatorAddress = <<>>
      /\ MsgCreateValidator_Zero.Value = Coin_Zero
  BY DEF MsgCreateValidator_Zero
<1>3. PICK c : c = MergedCreateValidator(MsgCreateValidator_Zero, b)
  OBVIOUS
<1>4. /\ c.ValidatorAddress = Latest(MsgCreateValidator_Zero.ValidatorAddress, b.ValidatorAddress, <<>>)
      /\ c.Value = MergedCoin(MsgCreateValidator_Zero.Value, b.Value)
  BY <1>3 DEF MergedCreateValidator
<1>5. /\ c.ValidatorAddress = b.ValidatorAddress
      /\ Coin_Marshal(c.Value) = Coin_Marshal(b.Value)
  BY <1>1, <1>2, <1>4, StringNormal, CoinNormal
<1>. QED  BY <1>3, <1>5 DEF MsgCreateValidator_Marshal

LEMMA BurnParamsNormal ==
  ASSUME NEW b \in B!Params_Type
  PROVE  B!Params_Marshal(MergedBurnParams(B!Params_Zero, b)) = B!Params_Marshal(b)
<1>1. /\ b.FeeBurnPercent \in Numbers
  BY BurnOperators DEF B!Params_Type
<1>2. PICK c : c = MergedBurnParams(B!Params_Zero, b)
  OBVIOUS
<1>3. /\ c.FeeBurnPercent = Written(b.FeeBurnPercent)
  BY <1>2 DEF MergedBurnParams
<1>4. /\ Number_Marshal(c.FeeBurnPercent) = Number_Marshal(b.FeeBurnPercent)
  BY <1>1, <1>3, NumberNormal
<1>. QED  BY <1>2, <1>4, BurnOperators DEF B!Params_Marshal

LEMMA AccountBurnRecordNormal ==
  ASSUME NEW b \in B!AccountBurnRecord_Type
  PROVE  B!AccountBurnRecord_Marshal(MergedRecord(B!AccountBurnRecord_Zero, b)) = B!AccountBurnRecord_Marshal(b)
<1>1. /\ b.Address \in Strings
      /\ b.Total \in Numbers
  BY BurnOperators DEF B!AccountBurnRecord_Type
<1>2. /\ B!AccountBurnRecord_Zero.Address = <<>>
  BY BurnOperators DEF B!AccountBurnRecord_Zero
<1>3. PICK c : c = MergedRecord(B!AccountBurnRecord_Zero, b)
  OBVIOUS
<1>4. /\ c.Address = Latest(B!AccountBurnRecord_Zero.Address, b.Address, <<>>)
      /\ c.Total = Written(b.Total)
  BY <1>3 DEF MergedRecord
<1>5. /\ c.Address = b.Address
      /\ Number_Marshal(c.Total) = Number_Marshal(b.Total)
  BY <1>1, <1>2, <1>4, StringNormal, NumberNormal
<1>. QED  BY <1>3, <1>5, BurnOperators DEF B!AccountBurnRecord_Marshal

LEMMA BurnMsgUpdateParamsNormal ==
  ASSUME NEW b \in B!MsgUpdateParams_Type
  PROVE  B!MsgUpdateParams_Marshal(Merged("burn.MsgUpdateParams", B!MsgUpdateParams_Zero, b)) = B!MsgUpdateParams_Marshal(b)
<1>1. /\ b.Authority \in Strings
      /\ b.Params \in B!Params_Type
  BY BurnOperators DEF B!MsgUpdateParams_Type
<1>2. /\ B!MsgUpdateParams_Zero.Authority = <<>>
      /\ B!MsgUpdateParams_Zero.Params = B!Params_Zero
  BY BurnOperators DEF B!MsgUpdateParams_Zero
<1>3. PICK c : c = Merged("burn.MsgUpdateParams", B!MsgUpdateParams_Zero, b)
  OBVIOUS
<1>4. /\ c.Authority = Latest(B!MsgUpdateParams_Zero.Authority, b.Authority, <<>>)
      /\ c.Params = MergedBurnParams(B!MsgUpdateParams_Zero.Params, b.Params)
  <2>1. Merged("burn.MsgUpdateParams", B!MsgUpdateParams_Zero, b) =
          [Authority |-> Latest(B!MsgUpdateParams_Zero.Authority, b.Authority, <<>>), Params |-> MergedBurnParams(B!MsgUpdateParams_Zero.Params, b.Params)]
    BY Zenon DEF Merged
  <2>. QED  BY <1>3, <2>1
<1>5. /\ c.Authority = b.Authority
      /\ B!Params_Marshal(c.Params) = B!Params_Marshal(b.Params)
  BY <1>1, <1>2, <1>4, StringNormal, BurnParamsNormal
<1>. QED  BY <1>3, <1>5, BurnOperators DEF B!MsgUpdateParams_Marshal

LEMMA MsgBurnNormal ==
  ASSUME NEW b \in B!MsgBurn_Type
  PROVE  B!MsgBurn_Marshal(Merged("burn.MsgBurn", B!MsgBurn_Zero, b)) = B!MsgBurn_Marshal(b)
<1>1. /\ b.FromAddress \in Strings
      /\ b.Amount \in Coin_Type
  BY BurnOperators DEF B!MsgBurn_Type
<1>2. /\ B!MsgBurn_Zero.FromAddress = <<>>
      /\ B!MsgBurn_Zero.Amount = Coin_Zero
  BY BurnOperators DEF B!MsgBurn_Zero
<1>3. PICK c : c = Merged("burn.MsgBurn", B!MsgBurn_Zero, b)
  OBVIOUS
<1>4. /\ c.FromAddress = Latest(B!MsgBurn_Zero.FromAddress, b.FromAddress, <<>>)
      /\ c.Amount = MergedCoin(B!MsgBurn_Zero.Amount, b.Amount)
  <2>1. Merged("burn.MsgBurn", B!MsgBurn_Zero, b) =
          [FromAddress |-> Latest(B!MsgBurn_Zero.FromAddress, b.FromAddress, <<>>), Amount |-> MergedCoin(B!MsgBurn_Zero.Amount, b.Amount)]
    BY Zenon DEF Merged
  <2>. QED  BY <1>3, <2>1
<1>5. /\ c.FromAddress = b.FromAddress
      /\ Coin_Marshal(c.Amount) = Coin_Marshal(b.Amount)
  BY <1>1, <1>2, <1>4, StringNormal, CoinNormal
<1>. QED  BY <1>3, <1>5, BurnOperators DEF B!MsgBurn_Marshal

LEMMA BurnQueryParamsResponseNormal ==
  ASSUME NEW b \in B!QueryParamsResponse_Type
  PROVE  B!QueryParamsResponse_Marshal(Merged("burn.QueryParamsResponse", B!QueryParamsResponse_Zero, b)) = B!QueryParamsResponse_Marshal(b)
<1>1. /\ b.Params \in B!Params_Type
  BY BurnOperators DEF B!QueryParamsResponse_Type
<1>2. /\ B!QueryParamsResponse_Zero.Params = B!Params_Zero
  BY BurnOperators DEF B!QueryParamsResponse_Zero
<1>3. PICK c : c = Merged("burn.QueryParamsResponse", B!QueryParamsResponse_Zero, b)
  OBVIOUS
<1>4. /\ c.Params = MergedBurnParams(B!QueryParamsResponse_Zero.Params, b.Params)
  <2>1. Merged("burn.QueryParamsResponse", B!QueryParamsResponse_Zero, b) =
          [Params |-> MergedBurnParams(B!QueryParamsResponse_Zero.Params, b.Params)]
    BY Zenon DEF Merged
  <2>. QED  BY <1>3, <2>1
<1>5. /\ B!Params_Marshal(c.Params) = B!Params_Marshal(b.Params)
  BY <1>1, <1>2, <1>4, BurnParamsNormal
<1>. QED  BY <1>3, <1>5, BurnOperators DEF B!QueryParamsResponse_Marshal

LEMMA QueryBurnStatsResponseNormal ==
  ASSUME NEW b \in B!QueryBurnStatsResponse_Type
  PROVE  B!QueryBurnStatsResponse_Marshal(Merged("burn.QueryBurnStatsResponse", B!QueryBurnStatsResponse_Zero, b)) = B!QueryBurnStatsResponse_Marshal(b)
<1>1. /\ b.TotalBurns \in Word
      /\ b.TotalBurned \in Strings
  BY BurnOperators DEF B!QueryBurnStatsResponse_Type
<1>2. /\ B!QueryBurnStatsResponse_Zero.TotalBurns = 0
      /\ B!QueryBurnStatsResponse_Zero.TotalBurned = <<>>
  BY BurnOperators DEF B!QueryBurnStatsResponse_Zero
<1>3. PICK c : c = Merged("burn.QueryBurnStatsResponse", B!QueryBurnStatsResponse_Zero, b)
  OBVIOUS
<1>4. /\ c.TotalBurns = Latest(B!QueryBurnStatsResponse_Zero.TotalBurns, b.TotalBurns, 0)
      /\ c.TotalBurned = Latest(B!QueryBurnStatsResponse_Zero.TotalBurned, b.TotalBurned, <<>>)
  <2>1. Merged("burn.QueryBurnStatsResponse", B!QueryBurnStatsResponse_Zero, b) =
          [TotalBurns |-> Latest(B!QueryBurnStatsResponse_Zero.TotalBurns, b.TotalBurns, 0), TotalBurned |-> Latest(B!QueryBurnStatsResponse_Zero.TotalBurned, b.TotalBurned, <<>>)]
    BY Zenon DEF Merged
  <2>. QED  BY <1>3, <2>1
<1>5. /\ c.TotalBurns = b.TotalBurns
      /\ c.TotalBurned = b.TotalBurned
  BY <1>1, <1>2, <1>4, StringNormal DEF Latest
<1>. QED  BY <1>3, <1>5, BurnOperators DEF B!QueryBurnStatsResponse_Marshal

LEMMA QueryAccountBurnsRequestNormal ==
  ASSUME NEW b \in B!QueryAccountBurnsRequest_Type
  PROVE  B!QueryAccountBurnsRequest_Marshal(Merged("burn.QueryAccountBurnsRequest", B!QueryAccountBurnsRequest_Zero, b)) = B!QueryAccountBurnsRequest_Marshal(b)
<1>1. /\ b.Address \in Strings
  BY BurnOperators DEF B!QueryAccountBurnsRequest_Type
<1>2. /\ B!QueryAccountBurnsRequest_Zero.Address = <<>>
  BY BurnOperators DEF B!QueryAccountBurnsRequest_Zero
<1>3. PICK c : c = Merged("burn.QueryAccountBurnsRequest", B!QueryAccountBurnsRequest_Zero, b)
  OBVIOUS
<1>4. /\ c.Address = Latest(B!QueryAccountBurnsRequest_Zero.Address, b.Address, <<>>)
  <2>1. Merged("burn.QueryAccountBurnsRequest", B!QueryAccountBurnsRequest_Zero, b) =
          [Address |-> Latest(B!QueryAccountBurnsRequest_Zero.Address, b.Address, <<>>)]
    BY Zenon DEF Merged
  <2>. QED  BY <1>3, <2>1
<1>5. /\ c.Address = b.Address
  BY <1>1, <1>2, <1>4, StringNormal
<1>. QED  BY <1>3, <1>5, BurnOperators DEF B!QueryAccountBurnsRequest_Marshal

LEMMA QueryAccountBurnsResponseNormal ==
  ASSUME NEW b \in B!QueryAccountBurnsResponse_Type
  PROVE  B!QueryAccountBurnsResponse_Marshal(Merged("burn.QueryAccountBurnsResponse", B!QueryAccountBurnsResponse_Zero, b)) = B!QueryAccountBurnsResponse_Marshal(b)
<1>1. /\ b.Amount \in Strings
  BY BurnOperators DEF B!QueryAccountBurnsResponse_Type
<1>2. /\ B!QueryAccountBurnsResponse_Zero.Amount = <<>>
  BY BurnOperators DEF B!QueryAccountBurnsResponse_Zero
<1>3. PICK c : c = Merged("burn.QueryAccountBurnsResponse", B!QueryAccountBurnsResponse_Zero, b)
  OBVIOUS
<1>4. /\ c.Amount = Latest(B!QueryAccountBurnsResponse_Zero.Amount, b.Amount, <<>>)
  <2>1. Merged("burn.QueryAccountBurnsResponse", B!QueryAccountBurnsResponse_Zero, b) =
          [Amount |-> Latest(B!QueryAccountBurnsResponse_Zero.Amount, b.Amount, <<>>)]
    BY Zenon DEF Merged
  <2>. QED  BY <1>3, <2>1
<1>5. /\ c.Amount = b.Amount
  BY <1>1, <1>2, <1>4, StringNormal
<1>. QED  BY <1>3, <1>5, BurnOperators DEF B!QueryAccountBurnsResponse_Marshal

LEMMA ValidatorParamsNormal ==
  ASSUME NEW b \in V!Params_Type
  PROVE  V!Params_Marshal(MergedValidatorParams(V!Params_Zero, b)) = V!Params_Marshal(b)
<1>1. /\ b.ValidatorRegistrationBurn \in Coin_Type
      /\ b.ValidatorMinSelfDelegation \in Coin_Type
  BY ValidatorOperators DEF V!Params_Type
<1>2. /\ V!Params_Zero.ValidatorRegistrationBurn = Coin_Zero
      /\ V!Params_Zero.ValidatorMinSelfDelegation = Coin_Zero
  BY ValidatorOperators DEF V!Params_Zero
<1>3. PICK c : c = MergedValidatorParams(V!Params_Zero, b)
  OBVIOUS
<1>4. /\ c.ValidatorRegistrationBurn = MergedCoin(V!Params_Zero.ValidatorRegistrationBurn, b.ValidatorRegistrationBurn)
      /\ c.ValidatorMinSelfDelegation = MergedCoin(V!Params_Zero.ValidatorMinSelfDelegation, b.ValidatorMinSelfDelegation)
  BY <1>3 DEF MergedValidatorParams
<1>5. /\ Coin_Marshal(c.ValidatorRegistrationBurn) = Coin_Marshal(b.ValidatorRegistrationBurn)
      /\ Coin_Marshal(c.ValidatorMinSelfDelegation) = Coin_Marshal(b.ValidatorMinSelfDelegation)
  BY <1>1, <1>2, <1>4, CoinNormal
<1>. QED  BY <1>3, <1>5, ValidatorOperators DEF V!Params_Marshal

LEMMA ValidatorGenesisStateNormal ==
  ASSUME NEW b \in V!GenesisState_Type
  PROVE  V!GenesisState_Marshal(Merged("validator.GenesisState", V!GenesisState_Zero, b)) = V!GenesisState_Marshal(b)
<1>1. /\ b.Params \in V!Params_Type
  BY ValidatorOperators DEF V!GenesisState_Type
<1>2. /\ V!GenesisState_Zero.Params = V!Params_Zero
  BY ValidatorOperators DEF V!GenesisState_Zero
<1>3. PICK c : c = Merged("validator.GenesisState", V!GenesisState_Zero, b)
  OBVIOUS
<1>4. /\ c.Params = MergedValidatorParams(V!GenesisState_Zero.Params, b.Params)
  <2>1. Merged("validator.GenesisState", V!GenesisState_Zero, b) =
          [Params |-> MergedValidatorParams(V!GenesisState_Zero.Params, b.Params)]
    BY Zenon DEF Merged
  <2>. QED  BY <1>3, <2>1
<1>5. /\ V!Params_Marshal(c.Params) = V!Params_Marshal(b.Params)
  BY <1>1, <1>2, <1>4, ValidatorParamsNormal
<1>. QED  BY <1>3, <1>5, ValidatorOperators DEF V!GenesisState_Marshal

LEMMA MsgRegisterValidatorNormal ==
  ASSUME NEW b \in V!MsgRegisterValidator_Type
  PROVE  V!MsgRegisterValidator_Marshal(Merged("validator.MsgRegisterValidator", V!MsgRegisterValidator_Zero, b)) = V!MsgRegisterValidator_Marshal(b)
<1>1. /\ b.Sender \in Strings
      /\ b.CreateValidator \in MsgCreateValidator_Type
      /\ b.Burn \in Coin_Type
  BY ValidatorOperators DEF V!MsgRegisterValidator_Type
<1>2. /\ V!MsgRegisterValidator_Zero.Sender = <<>>
      /\ V!MsgRegisterValidator_Zero.CreateValidator = MsgCreateValidator_Zero
      /\ V!MsgRegisterValidator_Zero.Burn = Coin_Zero
  BY ValidatorOperators DEF V!MsgRegisterValidator_Zero
<1>3. PICK c : c = Merged("validator.MsgRegisterValidator", V!MsgRegisterValidator_Zero, b)
  OBVIOUS
<1>4. /\ c.Sender = Latest(V!MsgRegisterValidator_Zero.Sender, b.Sender, <<>>)
      /\ c.CreateValidator = MergedCreateValidator(V!MsgRegisterValidator_Zero.CreateValidator, b.CreateValidator)
      /\ c.Burn = MergedCoin(V!MsgRegisterValidator_Zero.Burn, b.Burn)
  <2>1. Merged("validator.MsgRegisterValidator", V!MsgRegisterValidator_Zero, b) =
          [Sender |-> Latest(V!MsgRegisterValidator_Zero.Sender, b.Sender, <<>>), CreateValidator |-> MergedCreateValidator(V!MsgRegisterValidator_Zero.CreateValidator, b.CreateValidator), Burn |-> MergedCoin(V!MsgRegisterValidator_Zero.Burn, b.Burn)]
    BY Zenon DEF Merged
  <2>. QED  BY <1>3, <2>1
<1>5. /\ c.Sender = b.Sender
      /\ MsgCreateValidator_Marshal(c.CreateValidator) = MsgCreateValidator_Marshal(b.CreateValidator)
      /\ Coin_Marshal(c.Burn) = Coin_Marshal(b.Burn)
  BY <1>1, <1>2, <1>4, StringNormal, MsgCreateValidatorNormal, CoinNormal
<1>. QED  BY <1>3, <1>5, ValidatorOperators DEF V!MsgRegisterValidator_Marshal

LEMMA ValidatorMsgUpdateParamsNormal ==
  ASSUME NEW b \in V!MsgUpdateParams_Type
  PROVE  V!MsgUpdateParams_Marshal(Merged("validator.MsgUpdateParams", V!MsgUpdateParams_Zero, b)) = V!MsgUpdateParams_Marshal(b)
<1>1. /\ b.Authority \in Strings
      /\ b.Params \in V!Params_Type
  BY ValidatorOperators DEF V!MsgUpdateParams_Type
<1>2. /\ V!MsgUpdateParams_Zero.Authority = <<>>
      /\ V!MsgUpdateParams_Zero.Params = V!Params_Zero
  BY ValidatorOperators DEF V!MsgUpdateParams_Zero
<1>3. PICK c : c = Merged("validator.MsgUpdateParams", V!MsgUpdateParams_Zero, b)
  OBVIOUS
<1>4. /\ c.Authority = Latest(V!MsgUpdateParams_Zero.Authority, b.Authority, <<>>)
      /\ c.Params = MergedValidatorParams(V!MsgUpdateParams_Zero.Params, b.Params)
  <2>1. Merged("validator.MsgUpdateParams", V!MsgUpdateParams_Zero, b) =
          [Authority |-> Latest(V!MsgUpdateParams_Zero.Authority, b.Authority, <<>>), Params |-> MergedValidatorParams(V!MsgUpdateParams_Zero.Params, b.Params)]
    BY Zenon DEF Merged
  <2>. QED  BY <1>3, <2>1
<1>5. /\ c.Authority = b.Authority
      /\ V!Params_Marshal(c.Params) = V!Params_Marshal(b.Params)
  BY <1>1, <1>2, <1>4, StringNormal, ValidatorParamsNormal
<1>. QED  BY <1>3, <1>5, ValidatorOperators DEF V!MsgUpdateParams_Marshal

LEMMA ValidatorQueryParamsResponseNormal ==
  ASSUME NEW b \in V!QueryParamsResponse_Type
  PROVE  V!QueryParamsResponse_Marshal(Merged("validator.QueryParamsResponse", V!QueryParamsResponse_Zero, b)) = V!QueryParamsResponse_Marshal(b)
<1>1. /\ b.Params \in V!Params_Type
  BY ValidatorOperators DEF V!QueryParamsResponse_Type
<1>2. /\ V!QueryParamsResponse_Zero.Params = V!Params_Zero
  BY ValidatorOperators DEF V!QueryParamsResponse_Zero
<1>3. PICK c : c = Merged("validator.QueryParamsResponse", V!QueryParamsResponse_Zero, b)
  OBVIOUS
<1>4. /\ c.Params = MergedValidatorParams(V!QueryParamsResponse_Zero.Params, b.Params)
  <2>1. Merged("validator.QueryParamsResponse", V!QueryParamsResponse_Zero, b) =
          [Params |-> MergedValidatorParams(V!QueryParamsResponse_Zero.Params, b.Params)]
    BY Zenon DEF Merged
  <2>. QED  BY <1>3, <2>1
<1>5. /\ V!Params_Marshal(c.Params) = V!Params_Marshal(b.Params)
  BY <1>1, <1>2, <1>4, ValidatorParamsNormal
<1>. QED  BY <1>3, <1>5, ValidatorOperators DEF V!QueryParamsResponse_Marshal

LEMMA BurnGenesisStateNormal ==
  ASSUME NEW b \in B!GenesisState_Type
  PROVE  B!GenesisState_Marshal(Merged("burn.GenesisState", B!GenesisState_Zero, b)) = B!GenesisState_Marshal(b)
<1>. DEFINE R == B!AccountBurnRecord_Type
<1>1. /\ b.Params \in B!Params_Type /\ b.Count \in Word /\ b.Total \in Numbers
      /\ b.AccountTotals \in Seq(R)
  BY BurnOperators DEF B!GenesisState_Type
<1>2. /\ B!GenesisState_Zero.Params = B!Params_Zero /\ B!GenesisState_Zero.Count = 0
      /\ B!GenesisState_Zero.AccountTotals = <<>>
      /\ B!GenesisState_Zero \in B!GenesisState_Type
  BY BurnGenesisStateFields DEF B!GenesisState_Zero
<1>3. PICK c \in B!GenesisState_Type : c = Merged("burn.GenesisState", B!GenesisState_Zero, b)
  BY <1>2, BurnGenesisStateMerged
<1>4. /\ c.Params = MergedBurnParams(B!Params_Zero, b.Params)
      /\ c.Count = Latest(0, b.Count, 0)
      /\ c.Total = Written(b.Total)
      /\ c.AccountTotals = MergedRecords(<<>>, b.AccountTotals)
  <2>1. PICK z \in B!GenesisState_Type : z = B!GenesisState_Zero
    BY <1>2
  <2>2. z.Params = B!Params_Zero /\ z.Count = 0 /\ z.AccountTotals = <<>>
    BY <1>2, <2>1
  <2>3. c = [Params |-> MergedBurnParams(z.Params, b.Params), Count |-> Latest(z.Count, b.Count, 0),
             Total |-> Written(b.Total), AccountTotals |-> MergedRecords(z.AccountTotals, b.AccountTotals)]
    BY <1>3, <2>1, BurnGenesisStateMerged
  <2>. QED  BY <2>2, <2>3
<1>5. /\ B!Params_Marshal(c.Params) = B!Params_Marshal(b.Params)
      /\ c.Count = b.Count
      /\ Number_Marshal(c.Total) = Number_Marshal(b.Total)
  BY <1>1, <1>4, BurnParamsNormal, NumberNormal DEF Latest
<1>6. PICK s \in Seq(R), t \in Seq(R), last \in Nat :
        s = b.AccountTotals /\ t = c.AccountTotals /\ last = Len(s)
  <2>1. b.AccountTotals \in Seq(R) /\ c.AccountTotals \in Seq(R)
    BY DEF B!GenesisState_Type
  <2>. QED  BY <2>1
<1>7. /\ Len(t) = last
      /\ \A k \in 1..last : t[k] = MergedRecord(B!AccountBurnRecord_Zero, s[k])
  <2>. DEFINE rec == [k \in 1..Len(s) |-> MergedRecord(B!AccountBurnRecord_Zero, s[k])]
  <2>1. ASSUME NEW k \in 1..Len(s) PROVE rec[k] \in R
    <3>1. s[k] \in R /\ B!AccountBurnRecord_Zero \in R
      BY AccountBurnRecordFields
    <3>. QED  BY <3>1, AccountBurnRecordMerged
  <2>2. rec \in Seq(R) /\ Len(rec) = Len(s)
    BY <2>1, ListType
  <2>3. t = <<>> \o rec
    BY <1>4, <1>6 DEF MergedRecords
  <2>4. \A k \in 1..Len(s) : rec[k] = MergedRecord(B!AccountBurnRecord_Zero, s[k])
    OBVIOUS
  <2>. HIDE DEF rec
  <2>5. t = rec
    BY <2>2, <2>3
  <2>. QED  BY <1>6, <2>2, <2>4, <2>5
<1>8. PICK f, g : IsWritten(b, f) /\ IsWritten(c, g)
  BY BurnGenesisStateWritten
<1>9. \A k \in 0..last : g[k] = f[k]
  <2>. DEFINE P == {k \in 0..last : g[k] = f[k]}
  <2>1. 0 \in P
    BY <1>6, <1>8 DEF IsWritten
  <2>2. ASSUME NEW k \in 0..(last - 1), k \in P PROVE k + 1 \in P
    <3>1. last - k \in 1..last /\ k + 1 \in 0..last
      BY <1>6
    <3>2. PICK r \in R : r = s[last - k]
      BY <1>6, <3>1
    <3>3. t[last - k] = MergedRecord(B!AccountBurnRecord_Zero, r)
      BY <1>7, <3>1, <3>2
    <3>4. B!AccountBurnRecord_Marshal(t[last - k]) = B!AccountBurnRecord_Marshal(s[last - k])
      BY <3>2, <3>3, AccountBurnRecordNormal
    <3>5. f[k + 1] = PutBytes(4, B!AccountBurnRecord_Marshal(s[last - k]), f[k])
      BY <1>6, <1>8 DEF IsWritten
    <3>6. g[k + 1] = PutBytes(4, B!AccountBurnRecord_Marshal(t[last - k]), g[k])
      BY <1>6, <1>7, <1>8 DEF IsWritten
    <3>7. g[k] = f[k]
      BY <2>2
    <3>. QED  BY <3>1, <3>4, <3>5, <3>6, <3>7
  <2>. HIDE DEF P
  <2>3. \A k \in 0..last : k \in P
    BY <2>1, <2>2, CountUp
  <2>. QED  BY <2>3 DEF P
<1>10. g[last] = f[last]
  BY <1>9
<1>11. B!GenesisState_Marshal(b) =
         PutBytes(1, B!Params_Marshal(b.Params),
           PutUint64(2, b.Count, PutBytes(3, Number_Marshal(b.Total), f[last])))
  BY <1>6, <1>8 DEF IsWritten
<1>12. B!GenesisState_Marshal(c) =
         PutBytes(1, B!Params_Marshal(c.Params),
           PutUint64(2, c.Count, PutBytes(3, Number_Marshal(c.Total), g[last])))
  BY <1>6, <1>7, <1>8 DEF IsWritten
<1>. QED  BY <1>3, <1>5, <1>10, <1>11, <1>12

-----------------------------------------------------------------------------
(* What the generated code does to the values of a type: the encoding of b *)
(* takes a decoder that holds a to the two merged, a part of it part of    *)
(* the way, and a message is encoded like what is read of it.              *)

Coded(T) ==
  /\ \A a \in MsgType(T), b \in MsgType(T) : Merged(T, a, b) \in MsgType(T)
  /\ \A b \in MsgType(T) : Encode(T, Normalized(T, b)).bz = Encode(T, b).bz
  /\ \A dAtA, loop, after :
       Loops2(Cases(T), MsgType(T), dAtA, loop, after) =>
         \A a \in MsgType(T), b \in MsgType(T) :
           Codes(after, dAtA, a, Encode(T, b).bz, Merged(T, a, b))

LEMMA MarshalWritten ==
  ASSUME NEW bz, NEW size, Measured(bz, size)
  PROVE  Marshal(size, bz).bz = bz
BY MarshalExact DEF Measured

LEMMA GeneratedCodeAgrees ==
  ASSUME NEW T \in TypeNames
  PROVE  Coded(T)
<1>1. CASE T = "burn.Params"
  <2>1. /\ MsgType(T) = B!Params_Type /\ Zero(T) = B!Params_Zero /\ Cases(T) = B!Params_Unmarshal
        /\ \A m : Encode(T, m) = Marshal(B!Params_Size(m), B!Params_Marshal(m))
    BY <1>1, Zenon DEF MsgType, Zero, Cases, Encode
  <2>2. \A a, b : Merged(T, a, b) = MergedBurnParams(a, b)
    BY <1>1, Zenon DEF Merged
  <2>3. B!Params_Zero \in B!Params_Type
    BY BurnParamsFields
  <2>4. \A m \in B!Params_Type : Encode(T, m).bz = B!Params_Marshal(m)
    BY <2>1, BurnParamsMeasured, MarshalWritten
  <2>5. \A a \in B!Params_Type, b \in B!Params_Type : Merged(T, a, b) \in B!Params_Type
    BY <2>2, BurnParamsMerged
  <2>6. \A b \in B!Params_Type : Encode(T, Normalized(T, b)).bz = Encode(T, b).bz
    BY <2>1, <2>2, <2>3, <2>4, <2>5, BurnParamsNormal DEF Normalized
  <2>7. ASSUME NEW dAtA, NEW loop, NEW after, Loops2(B!Params_Unmarshal, B!Params_Type, dAtA, loop, after),
               NEW a \in B!Params_Type, NEW b \in B!Params_Type
        PROVE  Codes(after, dAtA, a, Encode(T, b).bz, Merged(T, a, b))
    BY <2>2, <2>4, <2>7, BurnParamsCodes2
  <2>. QED  BY <2>1, <2>5, <2>6, <2>7 DEF Coded
<1>2. CASE T = "burn.AccountBurnRecord"
  <2>1. /\ MsgType(T) = B!AccountBurnRecord_Type /\ Zero(T) = B!AccountBurnRecord_Zero /\ Cases(T) = B!AccountBurnRecord_Unmarshal
        /\ \A m : Encode(T, m) = Marshal(B!AccountBurnRecord_Size(m), B!AccountBurnRecord_Marshal(m))
    BY <1>2, Zenon DEF MsgType, Zero, Cases, Encode
  <2>2. \A a, b : Merged(T, a, b) = MergedRecord(a, b)
    BY <1>2, Zenon DEF Merged
  <2>3. B!AccountBurnRecord_Zero \in B!AccountBurnRecord_Type
    BY AccountBurnRecordFields
  <2>4. \A m \in B!AccountBurnRecord_Type : Encode(T, m).bz = B!AccountBurnRecord_Marshal(m)
    BY <2>1, AccountBurnRecordMeasured, MarshalWritten
  <2>5. \A a \in B!AccountBurnRecord_Type, b \in B!AccountBurnRecord_Type : Merged(T, a, b) \in B!AccountBurnRecord_Type
    BY <2>2, AccountBurnRecordMerged
  <2>6. \A b \in B!AccountBurnRecord_Type : Encode(T, Normalized(T, b)).bz = Encode(T, b).bz
    BY <2>1, <2>2, <2>3, <2>4, <2>5, AccountBurnRecordNormal DEF Normalized
  <2>7. ASSUME NEW dAtA, NEW loop, NEW after, Loops2(B!AccountBurnRecord_Unmarshal, B!AccountBurnRecord_Type, dAtA, loop, after),
               NEW a \in B!AccountBurnRecord_Type, NEW b \in B!AccountBurnRecord_Type
        PROVE  Codes(after, dAtA, a, Encode(T, b).bz, Merged(T, a, b))
    BY <2>2, <2>4, <2>7, AccountBurnRecordCodes2
  <2>. QED  BY <2>1, <2>5, <2>6, <2>7 DEF Coded
<1>3. CASE T = "burn.GenesisState"
  <2>1. /\ MsgType(T) = B!GenesisState_Type /\ Zero(T) = B!GenesisState_Zero /\ Cases(T) = B!GenesisState_Unmarshal
        /\ \A m : Encode(T, m) = Marshal(B!GenesisState_Size(m), B!GenesisState_Marshal(m))
    BY <1>3, Zenon DEF MsgType, Zero, Cases, Encode
  <2>2. \A a, b : Merged(T, a, b) = Merged("burn.GenesisState", a, b)
    BY <1>3
  <2>3. B!GenesisState_Zero \in B!GenesisState_Type
    BY BurnGenesisStateFields
  <2>4. \A m \in B!GenesisState_Type : Encode(T, m).bz = B!GenesisState_Marshal(m)
    BY <2>1, BurnGenesisStateMeasured, MarshalWritten
  <2>5. \A a \in B!GenesisState_Type, b \in B!GenesisState_Type : Merged(T, a, b) \in B!GenesisState_Type
    BY <2>2, BurnGenesisStateMerged
  <2>6. \A b \in B!GenesisState_Type : Encode(T, Normalized(T, b)).bz = Encode(T, b).bz
    BY <2>1, <2>2, <2>3, <2>4, <2>5, BurnGenesisStateNormal DEF Normalized
  <2>7. ASSUME NEW dAtA, NEW loop, NEW after, Loops2(B!GenesisState_Unmarshal, B!GenesisState_Type, dAtA, loop, after),
               NEW a \in B!GenesisState_Type, NEW b \in B!GenesisState_Type
        PROVE  Codes(after, dAtA, a, Encode(T, b).bz, Merged(T, a, b))
    BY <2>2, <2>4, <2>7, BurnGenesisStateCodes2
  <2>. QED  BY <2>1, <2>5, <2>6, <2>7 DEF Coded
<1>4. CASE T = "burn.MsgUpdateParams"
  <2>1. /\ MsgType(T) = B!MsgUpdateParams_Type /\ Zero(T) = B!MsgUpdateParams_Zero /\ Cases(T) = B!MsgUpdateParams_Unmarshal
        /\ \A m : Encode(T, m) = Marshal(B!MsgUpdateParams_Size(m), B!MsgUpdateParams_Marshal(m))
    BY <1>4, Zenon DEF MsgType, Zero, Cases, Encode
  <2>2. \A a, b : Merged(T, a, b) = Merged("burn.MsgUpdateParams", a, b)
    BY <1>4
  <2>3. B!MsgUpdateParams_Zero \in B!MsgUpdateParams_Type
    BY BurnMsgUpdateParamsFields
  <2>4. \A m \in B!MsgUpdateParams_Type : Encode(T, m).bz = B!MsgUpdateParams_Marshal(m)
    BY <2>1, BurnMsgUpdateParamsMeasured, MarshalWritten
  <2>5. \A a \in B!MsgUpdateParams_Type, b \in B!MsgUpdateParams_Type : Merged(T, a, b) \in B!MsgUpdateParams_Type
    BY <2>2, BurnMsgUpdateParamsMerged
  <2>6. \A b \in B!MsgUpdateParams_Type : Encode(T, Normalized(T, b)).bz = Encode(T, b).bz
    BY <2>1, <2>2, <2>3, <2>4, <2>5, BurnMsgUpdateParamsNormal DEF Normalized
  <2>7. ASSUME NEW dAtA, NEW loop, NEW after, Loops2(B!MsgUpdateParams_Unmarshal, B!MsgUpdateParams_Type, dAtA, loop, after),
               NEW a \in B!MsgUpdateParams_Type, NEW b \in B!MsgUpdateParams_Type
        PROVE  Codes(after, dAtA, a, Encode(T, b).bz, Merged(T, a, b))
    BY <2>2, <2>4, <2>7, BurnMsgUpdateParamsCodes2
  <2>. QED  BY <2>1, <2>5, <2>6, <2>7 DEF Coded
<1>5. CASE T = "burn.MsgBurn"
  <2>1. /\ MsgType(T) = B!MsgBurn_Type /\ Zero(T) = B!MsgBurn_Zero /\ Cases(T) = B!MsgBurn_Unmarshal
        /\ \A m : Encode(T, m) = Marshal(B!MsgBurn_Size(m), B!MsgBurn_Marshal(m))
    BY <1>5, Zenon DEF MsgType, Zero, Cases, Encode
  <2>2. \A a, b : Merged(T, a, b) = Merged("burn.MsgBurn", a, b)
    BY <1>5
  <2>3. B!MsgBurn_Zero \in B!MsgBurn_Type
    BY MsgBurnFields
  <2>4. \A m \in B!MsgBurn_Type : Encode(T, m).bz = B!MsgBurn_Marshal(m)
    BY <2>1, MsgBurnMeasured, MarshalWritten
  <2>5. \A a \in B!MsgBurn_Type, b \in B!MsgBurn_Type : Merged(T, a, b) \in B!MsgBurn_Type
    BY <2>2, MsgBurnMerged
  <2>6. \A b \in B!MsgBurn_Type : Encode(T, Normalized(T, b)).bz = Encode(T, b).bz
    BY <2>1, <2>2, <2>3, <2>4, <2>5, MsgBurnNormal DEF Normalized
  <2>7. ASSUME NEW dAtA, NEW loop, NEW after, Loops2(B!MsgBurn_Unmarshal, B!MsgBurn_Type, dAtA, loop, after),
               NEW a \in B!MsgBurn_Type, NEW b \in B!MsgBurn_Type
        PROVE  Codes(after, dAtA, a, Encode(T, b).bz, Merged(T, a, b))
    BY <2>2, <2>4, <2>7, MsgBurnCodes2
  <2>. QED  BY <2>1, <2>5, <2>6, <2>7 DEF Coded
<1>6. CASE T = "burn.QueryParamsResponse"
  <2>1. /\ MsgType(T) = B!QueryParamsResponse_Type /\ Zero(T) = B!QueryParamsResponse_Zero /\ Cases(T) = B!QueryParamsResponse_Unmarshal
        /\ \A m : Encode(T, m) = Marshal(B!QueryParamsResponse_Size(m), B!QueryParamsResponse_Marshal(m))
    BY <1>6, Zenon DEF MsgType, Zero, Cases, Encode
  <2>2. \A a, b : Merged(T, a, b) = Merged("burn.QueryParamsResponse", a, b)
    BY <1>6
  <2>3. B!QueryParamsResponse_Zero \in B!QueryParamsResponse_Type
    BY BurnQueryParamsResponseFields
  <2>4. \A m \in B!QueryParamsResponse_Type : Encode(T, m).bz = B!QueryParamsResponse_Marshal(m)
    BY <2>1, BurnQueryParamsResponseMeasured, MarshalWritten
  <2>5. \A a \in B!QueryParamsResponse_Type, b \in B!QueryParamsResponse_Type : Merged(T, a, b) \in B!QueryParamsResponse_Type
    BY <2>2, BurnQueryParamsResponseMerged
  <2>6. \A b \in B!QueryParamsResponse_Type : Encode(T, Normalized(T, b)).bz = Encode(T, b).bz
    BY <2>1, <2>2, <2>3, <2>4, <2>5, BurnQueryParamsResponseNormal DEF Normalized
  <2>7. ASSUME NEW dAtA, NEW loop, NEW after, Loops2(B!QueryParamsResponse_Unmarshal, B!QueryParamsResponse_Type, dAtA, loop, after),
               NEW a \in B!QueryParamsResponse_Type, NEW b \in B!QueryParamsResponse_Type
        PROVE  Codes(after, dAtA, a, Encode(T, b).bz, Merged(T, a, b))
    BY <2>2, <2>4, <2>7, BurnQueryParamsResponseCodes2
  <2>. QED  BY <2>1, <2>5, <2>6, <2>7 DEF Coded
<1>7. CASE T = "burn.QueryBurnStatsResponse"
  <2>1. /\ MsgType(T) = B!QueryBurnStatsResponse_Type /\ Zero(T) = B!QueryBurnStatsResponse_Zero /\ Cases(T) = B!QueryBurnStatsResponse_Unmarshal
        /\ \A m : Encode(T, m) = Marshal(B!QueryBurnStatsResponse_Size(m), B!QueryBurnStatsResponse_Marshal(m))
    BY <1>7, Zenon DEF MsgType, Zero, Cases, Encode
  <2>2. \A a, b : Merged(T, a, b) = Merged("burn.QueryBurnStatsResponse", a, b)
    BY <1>7
  <2>3. B!QueryBurnStatsResponse_Zero \in B!QueryBurnStatsResponse_Type
    BY QueryBurnStatsResponseFields
  <2>4. \A m \in B!QueryBurnStatsResponse_Type : Encode(T, m).bz = B!QueryBurnStatsResponse_Marshal(m)
    BY <2>1, QueryBurnStatsResponseMeasured, MarshalWritten
  <2>5. \A a \in B!QueryBurnStatsResponse_Type, b \in B!QueryBurnStatsResponse_Type : Merged(T, a, b) \in B!QueryBurnStatsResponse_Type
    BY <2>2, QueryBurnStatsResponseMerged
  <2>6. \A b \in B!QueryBurnStatsResponse_Type : Encode(T, Normalized(T, b)).bz = Encode(T, b).bz
    BY <2>1, <2>2, <2>3, <2>4, <2>5, QueryBurnStatsResponseNormal DEF Normalized
  <2>7. ASSUME NEW dAtA, NEW loop, NEW after, Loops2(B!QueryBurnStatsResponse_Unmarshal, B!QueryBurnStatsResponse_Type, dAtA, loop, after),
               NEW a \in B!QueryBurnStatsResponse_Type, NEW b \in B!QueryBurnStatsResponse_Type
        PROVE  Codes(after, dAtA, a, Encode(T, b).bz, Merged(T, a, b))
    BY <2>2, <2>4, <2>7, QueryBurnStatsResponseCodes2
  <2>. QED  BY <2>1, <2>5, <2>6, <2>7 DEF Coded
<1>8. CASE T = "burn.QueryAccountBurnsRequest"
  <2>1. /\ MsgType(T) = B!QueryAccountBurnsRequest_Type /\ Zero(T) = B!QueryAccountBurnsRequest_Zero /\ Cases(T) = B!QueryAccountBurnsRequest_Unmarshal
        /\ \A m : Encode(T, m) = Marshal(B!QueryAccountBurnsRequest_Size(m), B!QueryAccountBurnsRequest_Marshal(m))
    BY <1>8, Zenon DEF MsgType, Zero, Cases, Encode
  <2>2. \A a, b : Merged(T, a, b) = Merged("burn.QueryAccountBurnsRequest", a, b)
    BY <1>8
  <2>3. B!QueryAccountBurnsRequest_Zero \in B!QueryAccountBurnsRequest_Type
    BY QueryAccountBurnsRequestFields
  <2>4. \A m \in B!QueryAccountBurnsRequest_Type : Encode(T, m).bz = B!QueryAccountBurnsRequest_Marshal(m)
    BY <2>1, QueryAccountBurnsRequestMeasured, MarshalWritten
  <2>5. \A a \in B!QueryAccountBurnsRequest_Type, b \in B!QueryAccountBurnsRequest_Type : Merged(T, a, b) \in B!QueryAccountBurnsRequest_Type
    BY <2>2, QueryAccountBurnsRequestMerged
  <2>6. \A b \in B!QueryAccountBurnsRequest_Type : Encode(T, Normalized(T, b)).bz = Encode(T, b).bz
    BY <2>1, <2>2, <2>3, <2>4, <2>5, QueryAccountBurnsRequestNormal DEF Normalized
  <2>7. ASSUME NEW dAtA, NEW loop, NEW after, Loops2(B!QueryAccountBurnsRequest_Unmarshal, B!QueryAccountBurnsRequest_Type, dAtA, loop, after),
               NEW a \in B!QueryAccountBurnsRequest_Type, NEW b \in B!QueryAccountBurnsRequest_Type
        PROVE  Codes(after, dAtA, a, Encode(T, b).bz, Merged(T, a, b))
    BY <2>2, <2>4, <2>7, QueryAccountBurnsRequestCodes2
  <2>. QED  BY <2>1, <2>5, <2>6, <2>7 DEF Coded
<1>9. CASE T = "burn.QueryAccountBurnsResponse"
  <2>1. /\ MsgType(T) = B!QueryAccountBurnsResponse_Type /\ Zero(T) = B!QueryAccountBurnsResponse_Zero /\ Cases(T) = B!QueryAccountBurnsResponse_Unmarshal
        /\ \A m : Encode(T, m) = Marshal(B!QueryAccountBurnsResponse_Size(m), B!QueryAccountBurnsResponse_Marshal(m))
    BY <1>9, Zenon DEF MsgType, Zero, Cases, Encode
  <2>2. \A a, b : Merged(T, a, b) = Merged("burn.QueryAccountBurnsResponse", a, b)
    BY <1>9
  <2>3. B!QueryAccountBurnsResponse_Zero \in B!QueryAccountBurnsResponse_Type
    BY QueryAccountBurnsResponseFields
  <2>4. \A m \in B!QueryAccountBurnsResponse_Type : Encode(T, m).bz = B!QueryAccountBurnsResponse_Marshal(m)
    BY <2>1, QueryAccountBurnsResponseMeasured, MarshalWritten
  <2>5. \A a \in B!QueryAccountBurnsResponse_Type, b \in B!QueryAccountBurnsResponse_Type : Merged(T, a, b) \in B!QueryAccountBurnsResponse_Type
    BY <2>2, QueryAccountBurnsResponseMerged
  <2>6. \A b \in B!QueryAccountBurnsResponse_Type : Encode(T, Normalized(T, b)).bz = Encode(T, b).bz
    BY <2>1, <2>2, <2>3, <2>4, <2>5, QueryAccountBurnsResponseNormal DEF Normalized
  <2>7. ASSUME NEW dAtA, NEW loop, NEW after, Loops2(B!QueryAccountBurnsResponse_Unmarshal, B!QueryAccountBurnsResponse_Type, dAtA, loop, after),
               NEW a \in B!QueryAccountBurnsResponse_Type, NEW b \in B!QueryAccountBurnsResponse_Type
        PROVE  Codes(after, dAtA, a, Encode(T, b).bz, Merged(T, a, b))
    BY <2>2, <2>4, <2>7, QueryAccountBurnsResponseCodes2
  <2>. QED  BY <2>1, <2>5, <2>6, <2>7 DEF Coded
<1>10. CASE T = "validator.Params"
  <2>1. /\ MsgType(T) = V!Params_Type /\ Zero(T) = V!Params_Zero /\ Cases(T) = V!Params_Unmarshal
        /\ \A m : Encode(T, m) = Marshal(V!Params_Size(m), V!Params_Marshal(m))
    BY <1>10, Zenon DEF MsgType, Zero, Cases, Encode
  <2>2. \A a, b : Merged(T, a, b) = MergedValidatorParams(a, b)
    BY <1>10, Zenon DEF Merged
  <2>3. V!Params_Zero \in V!Params_Type
    BY ValidatorParamsFields
  <2>4. \A m \in V!Params_Type : Encode(T, m).bz = V!Params_Marshal(m)
    BY <2>1, ValidatorParamsMeasured, MarshalWritten
  <2>5. \A a \in V!Params_Type, b \in V!Params_Type : Merged(T, a, b) \in V!Params_Type
    BY <2>2, ValidatorParamsMerged
  <2>6. \A b \in V!Params_Type : Encode(T, Normalized(T, b)).bz = Encode(T, b).bz
    BY <2>1, <2>2, <2>3, <2>4, <2>5, ValidatorParamsNormal DEF Normalized
  <2>7. ASSUME NEW dAtA, NEW loop, NEW after, Loops2(V!Params_Unmarshal, V!Params_Type, dAtA, loop, after),
               NEW a \in V!Params_Type, NEW b \in V!Params_Type
        PROVE  Codes(after, dAtA, a, Encode(T, b).bz, Merged(T, a, b))
    BY <2>2, <2>4, <2>7, ValidatorParamsCodes2
  <2>. QED  BY <2>1, <2>5, <2>6, <2>7 DEF Coded
<1>11. CASE T = "validator.GenesisState"
  <2>1. /\ MsgType(T) = V!GenesisState_Type /\ Zero(T) = V!GenesisState_Zero /\ Cases(T) = V!GenesisState_Unmarshal
        /\ \A m : Encode(T, m) = Marshal(V!GenesisState_Size(m), V!GenesisState_Marshal(m))
    BY <1>11, Zenon DEF MsgType, Zero, Cases, Encode
  <2>2. \A a, b : Merged(T, a, b) = Merged("validator.GenesisState", a, b)
    BY <1>11
  <2>3. V!GenesisState_Zero \in V!GenesisState_Type
    BY ValidatorGenesisStateFields
  <2>4. \A m \in V!GenesisState_Type : Encode(T, m).bz = V!GenesisState_Marshal(m)
    BY <2>1, ValidatorGenesisStateMeasured, MarshalWritten
  <2>5. \A a \in V!GenesisState_Type, b \in V!GenesisState_Type : Merged(T, a, b) \in V!GenesisState_Type
    BY <2>2, ValidatorGenesisStateMerged
  <2>6. \A b \in V!GenesisState_Type : Encode(T, Normalized(T, b)).bz = Encode(T, b).bz
    BY <2>1, <2>2, <2>3, <2>4, <2>5, ValidatorGenesisStateNormal DEF Normalized
  <2>7. ASSUME NEW dAtA, NEW loop, NEW after, Loops2(V!GenesisState_Unmarshal, V!GenesisState_Type, dAtA, loop, after),
               NEW a \in V!GenesisState_Type, NEW b \in V!GenesisState_Type
        PROVE  Codes(after, dAtA, a, Encode(T, b).bz, Merged(T, a, b))
    BY <2>2, <2>4, <2>7, ValidatorGenesisStateCodes2
  <2>. QED  BY <2>1, <2>5, <2>6, <2>7 DEF Coded
<1>12. CASE T = "validator.MsgRegisterValidator"
  <2>1. /\ MsgType(T) = V!MsgRegisterValidator_Type /\ Zero(T) = V!MsgRegisterValidator_Zero /\ Cases(T) = V!MsgRegisterValidator_Unmarshal
        /\ \A m : Encode(T, m) = Marshal(V!MsgRegisterValidator_Size(m), V!MsgRegisterValidator_Marshal(m))
    BY <1>12, Zenon DEF MsgType, Zero, Cases, Encode
  <2>2. \A a, b : Merged(T, a, b) = Merged("validator.MsgRegisterValidator", a, b)
    BY <1>12
  <2>3. V!MsgRegisterValidator_Zero \in V!MsgRegisterValidator_Type
    BY MsgRegisterValidatorFields
  <2>4. \A m \in V!MsgRegisterValidator_Type : Encode(T, m).bz = V!MsgRegisterValidator_Marshal(m)
    BY <2>1, MsgRegisterValidatorMeasured, MarshalWritten
  <2>5. \A a \in V!MsgRegisterValidator_Type, b \in V!MsgRegisterValidator_Type : Merged(T, a, b) \in V!MsgRegisterValidator_Type
    BY <2>2, MsgRegisterValidatorMerged
  <2>6. \A b \in V!MsgRegisterValidator_Type : Encode(T, Normalized(T, b)).bz = Encode(T, b).bz
    BY <2>1, <2>2, <2>3, <2>4, <2>5, MsgRegisterValidatorNormal DEF Normalized
  <2>7. ASSUME NEW dAtA, NEW loop, NEW after, Loops2(V!MsgRegisterValidator_Unmarshal, V!MsgRegisterValidator_Type, dAtA, loop, after),
               NEW a \in V!MsgRegisterValidator_Type, NEW b \in V!MsgRegisterValidator_Type
        PROVE  Codes(after, dAtA, a, Encode(T, b).bz, Merged(T, a, b))
    BY <2>2, <2>4, <2>7, MsgRegisterValidatorCodes2
  <2>. QED  BY <2>1, <2>5, <2>6, <2>7 DEF Coded
<1>13. CASE T = "validator.MsgUpdateParams"
  <2>1. /\ MsgType(T) = V!MsgUpdateParams_Type /\ Zero(T) = V!MsgUpdateParams_Zero /\ Cases(T) = V!MsgUpdateParams_Unmarshal
        /\ \A m : Encode(T, m) = Marshal(V!MsgUpdateParams_Size(m), V!MsgUpdateParams_Marshal(m))
    BY <1>13, Zenon DEF MsgType, Zero, Cases, Encode
  <2>2. \A a, b : Merged(T, a, b) = Merged("validator.MsgUpdateParams", a, b)
    BY <1>13
  <2>3. V!MsgUpdateParams_Zero \in V!MsgUpdateParams_Type
    BY ValidatorMsgUpdateParamsFields
  <2>4. \A m \in V!MsgUpdateParams_Type : Encode(T, m).bz = V!MsgUpdateParams_Marshal(m)
    BY <2>1, ValidatorMsgUpdateParamsMeasured, MarshalWritten
  <2>5. \A a \in V!MsgUpdateParams_Type, b \in V!MsgUpdateParams_Type : Merged(T, a, b) \in V!MsgUpdateParams_Type
    BY <2>2, ValidatorMsgUpdateParamsMerged
  <2>6. \A b \in V!MsgUpdateParams_Type : Encode(T, Normalized(T, b)).bz = Encode(T, b).bz
    BY <2>1, <2>2, <2>3, <2>4, <2>5, ValidatorMsgUpdateParamsNormal DEF Normalized
  <2>7. ASSUME NEW dAtA, NEW loop, NEW after, Loops2(V!MsgUpdateParams_Unmarshal, V!MsgUpdateParams_Type, dAtA, loop, after),
               NEW a \in V!MsgUpdateParams_Type, NEW b \in V!MsgUpdateParams_Type
        PROVE  Codes(after, dAtA, a, Encode(T, b).bz, Merged(T, a, b))
    BY <2>2, <2>4, <2>7, ValidatorMsgUpdateParamsCodes2
  <2>. QED  BY <2>1, <2>5, <2>6, <2>7 DEF Coded
<1>14. CASE T = "validator.QueryParamsResponse"
  <2>1. /\ MsgType(T) = V!QueryParamsResponse_Type /\ Zero(T) = V!QueryParamsResponse_Zero /\ Cases(T) = V!QueryParamsResponse_Unmarshal
        /\ \A m : Encode(T, m) = Marshal(V!QueryParamsResponse_Size(m), V!QueryParamsResponse_Marshal(m))
    BY <1>14, Zenon DEF MsgType, Zero, Cases, Encode
  <2>2. \A a, b : Merged(T, a, b) = Merged("validator.QueryParamsResponse", a, b)
    BY <1>14
  <2>3. V!QueryParamsResponse_Zero \in V!QueryParamsResponse_Type
    BY ValidatorQueryParamsResponseFields
  <2>4. \A m \in V!QueryParamsResponse_Type : Encode(T, m).bz = V!QueryParamsResponse_Marshal(m)
    BY <2>1, ValidatorQueryParamsResponseMeasured, MarshalWritten
  <2>5. \A a \in V!QueryParamsResponse_Type, b \in V!QueryParamsResponse_Type : Merged(T, a, b) \in V!QueryParamsResponse_Type
    BY <2>2, ValidatorQueryParamsResponseMerged
  <2>6. \A b \in V!QueryParamsResponse_Type : Encode(T, Normalized(T, b)).bz = Encode(T, b).bz
    BY <2>1, <2>2, <2>3, <2>4, <2>5, ValidatorQueryParamsResponseNormal DEF Normalized
  <2>7. ASSUME NEW dAtA, NEW loop, NEW after, Loops2(V!QueryParamsResponse_Unmarshal, V!QueryParamsResponse_Type, dAtA, loop, after),
               NEW a \in V!QueryParamsResponse_Type, NEW b \in V!QueryParamsResponse_Type
        PROVE  Codes(after, dAtA, a, Encode(T, b).bz, Merged(T, a, b))
    BY <2>2, <2>4, <2>7, ValidatorQueryParamsResponseCodes2
  <2>. QED  BY <2>1, <2>5, <2>6, <2>7 DEF Coded
<1>15. CASE T = "burn.MsgUpdateParamsResponse"
  <2>1. /\ MsgType(T) = {NoFields}
        /\ \A m : Encode(T, m) = Marshal(0, B!MsgUpdateParamsResponse_Marshal(m))
    BY <1>15, Zenon DEF MsgType, Encode
  <2>2. \A a, b : Merged(T, a, b) = NoFields
    BY <1>15, Zenon DEF Merged
  <2>3. \A m : Encode(T, m).bz = <<>>
    BY <2>1, EmptyMeasured, MarshalWritten DEF B!MsgUpdateParamsResponse_Marshal
  <2>. QED  BY <2>1, <2>2, <2>3, CodesNothing DEF Coded
<1>16. CASE T = "burn.MsgBurnResponse"
  <2>1. /\ MsgType(T) = {NoFields}
        /\ \A m : Encode(T, m) = Marshal(0, B!MsgBurnResponse_Marshal(m))
    BY <1>16, Zenon DEF MsgType, Encode
  <2>2. \A a, b : Merged(T, a, b) = NoFields
    BY <1>16, Zenon DEF Merged
  <2>3. \A m : Encode(T, m).bz = <<>>
    BY <2>1, EmptyMeasured, MarshalWritten DEF B!MsgBurnResponse_Marshal
  <2>. QED  BY <2>1, <2>2, <2>3, CodesNothing DEF Coded
<1>17. CASE T = "burn.QueryParamsRequest"
  <2>1. /\ MsgType(T) = {NoFields}
        /\ \A m : Encode(T, m) = Marshal(0, B!QueryParamsRequest_Marshal(m))
    BY <1>17, Zenon DEF MsgType, Encode
  <2>2. \A a, b : Merged(T, a, b) = NoFields
    BY <1>17, Zenon DEF Merged
  <2>3. \A m : Encode(T, m).bz = <<>>
    BY <2>1, EmptyMeasured, MarshalWritten DEF B!QueryParamsRequest_Marshal
  <2>. QED  BY <2>1, <2>2, <2>3, CodesNothing DEF Coded
<1>18. CASE T = "burn.QueryBurnStatsRequest"
  <2>1. /\ MsgType(T) = {NoFields}
        /\ \A m : Encode(T, m) = Marshal(0, B!QueryBurnStatsRequest_Marshal(m))
    BY <1>18, Zenon DEF MsgType, Encode
  <2>2. \A a, b : Merged(T, a, b) = NoFields
    BY <1>18, Zenon DEF Merged
  <2>3. \A m : Encode(T, m).bz = <<>>
    BY <2>1, EmptyMeasured, MarshalWritten DEF B!QueryBurnStatsRequest_Marshal
  <2>. QED  BY <2>1, <2>2, <2>3, CodesNothing DEF Coded
<1>19. CASE T = "validator.MsgRegisterValidatorResponse"
  <2>1. /\ MsgType(T) = {NoFields}
        /\ \A m : Encode(T, m) = Marshal(0, V!MsgRegisterValidatorResponse_Marshal(m))
    BY <1>19, Zenon DEF MsgType, Encode
  <2>2. \A a, b : Merged(T, a, b) = NoFields
    BY <1>19, Zenon DEF Merged
  <2>3. \A m : Encode(T, m).bz = <<>>
    BY <2>1, EmptyMeasured, MarshalWritten DEF V!MsgRegisterValidatorResponse_Marshal
  <2>. QED  BY <2>1, <2>2, <2>3, CodesNothing DEF Coded
<1>20. CASE T = "validator.MsgUpdateParamsResponse"
  <2>1. /\ MsgType(T) = {NoFields}
        /\ \A m : Encode(T, m) = Marshal(0, V!MsgUpdateParamsResponse_Marshal(m))
    BY <1>20, Zenon DEF MsgType, Encode
  <2>2. \A a, b : Merged(T, a, b) = NoFields
    BY <1>20, Zenon DEF Merged
  <2>3. \A m : Encode(T, m).bz = <<>>
    BY <2>1, EmptyMeasured, MarshalWritten DEF V!MsgUpdateParamsResponse_Marshal
  <2>. QED  BY <2>1, <2>2, <2>3, CodesNothing DEF Coded
<1>21. CASE T = "validator.QueryParamsRequest"
  <2>1. /\ MsgType(T) = {NoFields}
        /\ \A m : Encode(T, m) = Marshal(0, V!QueryParamsRequest_Marshal(m))
    BY <1>21, Zenon DEF MsgType, Encode
  <2>2. \A a, b : Merged(T, a, b) = NoFields
    BY <1>21, Zenon DEF Merged
  <2>3. \A m : Encode(T, m).bz = <<>>
    BY <2>1, EmptyMeasured, MarshalWritten DEF V!QueryParamsRequest_Marshal
  <2>. QED  BY <2>1, <2>2, <2>3, CodesNothing DEF Coded
<1>. QED
  BY <1>1, <1>2, <1>3, <1>4, <1>5, <1>6, <1>7, <1>8, <1>9, <1>10, <1>11, <1>12, <1>13,
     <1>14, <1>15, <1>16, <1>17, <1>18, <1>19, <1>20, <1>21
     DEF TypeNames

-----------------------------------------------------------------------------
(* What Unmarshal makes of what Marshal wrote.                             *)

LEMMA NormalizedType ==
  ASSUME NEW T \in TypeNames, NEW m \in MsgType(T)
  PROVE  Normalized(T, m) \in MsgType(T)
<1>1. Zero(T) \in MsgType(T)
  BY GeneratedCode DEF Generated
<1>. QED  BY <1>1, GeneratedCodeAgrees DEF Coded, Normalized

\* Every decoding is a run of a loop that starts with the zero value.
LEMMA DecodeRuns ==
  ASSUME NEW T \in TypeNames, NEW dAtA \in Buffers
  PROVE  \E loop, after : /\ IsUnmarshal(loop, MsgType(T), Zero(T), dAtA, after, Decode(T, dAtA))
                          /\ Loops2(Cases(T), MsgType(T), dAtA, loop, after)
<1>1. Zero(T) \in MsgType(T) /\ Decodes(decodeField2, Cases(T), MsgType(T))
  BY GeneratedCode DEF Generated
<1>2. PICK loop, after : /\ Switches(decodeField2, Cases(T), MsgType(T), dAtA, loop)
                         /\ IsUnmarshal(loop, MsgType(T), Zero(T), dAtA, after, Decode(T, dAtA))
  BY <1>1, Unmarshal2Runs DEF Decode
<1>. QED  BY <1>1, <1>2 DEF Loops2, Loops

LEMMA DecodeEncoded ==
  ASSUME NEW T \in TypeNames, NEW m \in MsgType(T), Fits(Encode(T, m).bz)
  PROVE  Decode(T, Encode(T, m).bz) = [st |-> "ok", m |-> Normalized(T, m)]
<1>1. PICK dAtA \in Buffers : dAtA = Encode(T, m).bz
  BY EncodeTypes DEF Buffers
<1>2. PICK loop, after : /\ IsUnmarshal(loop, MsgType(T), Zero(T), dAtA, after, Decode(T, dAtA))
                         /\ Loops2(Cases(T), MsgType(T), dAtA, loop, after)
  BY DecodeRuns
<1>3. Zero(T) \in MsgType(T)
  BY GeneratedCode DEF Generated
<1>4. Writes(after, dAtA, Zero(T), dAtA, Normalized(T, m))
  BY <1>1, <1>2, <1>3, GeneratedCodeAgrees DEF Coded, Codes, Normalized
<1>. QED  BY <1>1, <1>2, <1>3, <1>4, WrittenIsRead

LEMMA DecodeTwo ==
  ASSUME NEW T \in TypeNames, NEW a \in MsgType(T), NEW b \in MsgType(T),
         Fits(Encode(T, a).bz \o Encode(T, b).bz)
  PROVE  Decode(T, Encode(T, a).bz \o Encode(T, b).bz)
           = [st |-> "ok", m |-> Merged(T, Normalized(T, a), b)]
<1>1. PICK dAtA \in Buffers : dAtA = Encode(T, a).bz \o Encode(T, b).bz
  <2>1. Encode(T, a).bz \in Seq(Byte) /\ Encode(T, b).bz \in Seq(Byte)
    BY EncodeTypes
  <2>. QED  BY <2>1, Joined DEF Buffers
<1>2. PICK loop, after : /\ IsUnmarshal(loop, MsgType(T), Zero(T), dAtA, after, Decode(T, dAtA))
                         /\ Loops2(Cases(T), MsgType(T), dAtA, loop, after)
  BY DecodeRuns
<1>3. Zero(T) \in MsgType(T) /\ Normalized(T, a) \in MsgType(T)
  BY GeneratedCode, NormalizedType DEF Generated
<1>4. /\ Writes(after, dAtA, Zero(T), Encode(T, a).bz, Normalized(T, a))
      /\ Writes(after, dAtA, Normalized(T, a), Encode(T, b).bz, Merged(T, Normalized(T, a), b))
  BY <1>2, <1>3, GeneratedCodeAgrees DEF Coded, Codes, Normalized
<1>5. Writes(after, dAtA, Zero(T), dAtA, Merged(T, Normalized(T, a), b))
  BY <1>1, <1>4, WritesJoined
<1>. QED  BY <1>1, <1>2, <1>3, <1>5, WrittenIsRead

\* With a field that the type has not, before or after the others.
LEMMA DecodeExtended ==
  ASSUME NEW T \in TypeNames, NEW m \in MsgType(T), NEW f \in UnknownFields, NEW e, NEW dAtA \in Buffers,
         e = Encode(T, m).bz, dAtA \in {Tokens_Marshal(f) \o e, e \o Tokens_Marshal(f)}
  PROVE  Decode(T, dAtA) = [st |-> "ok", m |-> Normalized(T, m)]
<1>1. PICK loop, after : /\ IsUnmarshal(loop, MsgType(T), Zero(T), dAtA, after, Decode(T, dAtA))
                         /\ Loops2(Cases(T), MsgType(T), dAtA, loop, after)
  BY DecodeRuns
<1>2. PICK zero, n : zero = Zero(T) /\ n = Normalized(T, m)
  OBVIOUS
<1>3. zero \in MsgType(T) /\ n \in MsgType(T)
  BY <1>2, GeneratedCode, NormalizedType DEF Generated
<1>4. IsWireField(f) /\ f[1].num \notin DOMAIN Cases(T)
  BY WireAssumption
<1>5. PICK bz : bz = Tokens_Marshal(f)
  OBVIOUS
<1>6. Writes(after, dAtA, zero, bz, zero) /\ Writes(after, dAtA, n, bz, n)
  BY <1>1, <1>3, <1>4, <1>5, FieldWrites2
<1>7. Writes(after, dAtA, zero, e, n)
  <2>1. Writes(after, dAtA, Zero(T), Encode(T, m).bz, Merged(T, Zero(T), m))
    BY <1>1, <1>2, <1>3, GeneratedCodeAgrees DEF Coded, Codes
  <2>. QED  BY <1>2, <2>1 DEF Normalized
<1>8. Writes(after, dAtA, zero, bz \o e, n) /\ Writes(after, dAtA, zero, e \o bz, n)
  BY <1>6, <1>7, WritesJoined
<1>9. Writes(after, dAtA, zero, dAtA, n)
  BY <1>5, <1>8
<1>. QED  BY <1>1, <1>2, <1>3, <1>9, WrittenIsRead

\* What is accepted of the beginning of an encoding.
LEMMA DecodeCut ==
  ASSUME NEW T \in TypeNames, NEW m \in MsgType(T), Fits(Encode(T, m).bz),
         NEW dAtA \in Buffers, Begins(dAtA, Encode(T, m).bz), Decode(T, dAtA).st = "ok"
  PROVE  Partly(Decode(T, dAtA).m, Zero(T), Normalized(T, m))
<1>1. PICK loop, after : /\ IsUnmarshal(loop, MsgType(T), Zero(T), dAtA, after, Decode(T, dAtA))
                         /\ Loops2(Cases(T), MsgType(T), dAtA, loop, after)
  BY DecodeRuns
<1>2. PICK zero, n, e, out : /\ zero = Zero(T) /\ n = Normalized(T, m)
                             /\ e = Encode(T, m).bz /\ out = Decode(T, dAtA)
  OBVIOUS
<1>3. zero \in MsgType(T)
  BY <1>2, GeneratedCode DEF Generated
<1>4. Codes(after, dAtA, zero, e, n)
  <2>1. Codes(after, dAtA, Zero(T), Encode(T, m).bz, Merged(T, Zero(T), m))
    BY <1>1, <1>2, <1>3, GeneratedCodeAgrees DEF Coded
  <2>. QED  BY <1>2, <2>1 DEF Normalized
<1>5. Partly(out.m, zero, n)
  BY <1>1, <1>2, <1>3, <1>4, CutIsRead
<1>. QED  BY <1>2, <1>5

\* Encoding what was read: the same bytes.
LEMMA EncodedAgain ==
  ASSUME NEW T \in TypeNames, NEW m \in MsgType(T), Fits(Encode(T, m).bz)
  PROVE  Encode(T, Decode(T, Encode(T, m).bz).m).bz = Encode(T, m).bz
<1>1. Encode(T, Normalized(T, m)).bz = Encode(T, m).bz
  BY GeneratedCodeAgrees DEF Coded
<1>2. PICK n : n = Normalized(T, m)
  OBVIOUS
<1>3. Decode(T, Encode(T, m).bz).m = n
  <2>1. Decode(T, Encode(T, m).bz) = [st |-> "ok", m |-> n]
    BY <1>2, DecodeEncoded
  <2>. QED  BY <2>1
<1>. QED  BY <1>1, <1>2, <1>3

-----------------------------------------------------------------------------
(* The inductive invariant: what is in flight and what is stored are bytes *)
(* that fit in memory and values of their types, no decoder has gone       *)
(* wrong, and nothing is read before something is in flight.               *)

WireInv ==
  /\ TypeOK
  /\ got.st \in {"none", "ok", "err"}
  /\ type = "none" => got.st = "none"

LEMMA WireInit == Init => WireInv
<1>. SUFFICES ASSUME Init PROVE WireInv
  OBVIOUS
<1>1. DOMAIN DefaultParams = Modules
  BY DEF DefaultParams, Modules
<1>2. ASSUME NEW mod \in Modules
      PROVE  /\ store[mod] \in Seq(Byte) /\ Fits(store[mod])
             /\ accepted[mod] \in MsgType(ParamsType(mod))
  <2>1. store[mod] = Encode(ParamsType(mod), DefaultParams[mod]).bz /\ accepted = DefaultParams
    BY <1>1 DEF Init
  <2>2. Fits(store[mod])
    BY <1>1, <2>1, WireAssumption
  <2>. QED  BY <2>1, <2>2, ParamsTypes, EncodeTypes
<1>3. DOMAIN store = Modules /\ DOMAIN accepted = Modules
  BY <1>1 DEF Init
<1>4. wire \in Seq(Byte) /\ Fits(wire)
  BY HalfFacts DEF Init, Fits, Half
<1>5. type = "none" /\ sent \in Seq(MsgType(type)) /\ fate = "intact" /\ got = [st |-> "none"]
  BY DEF Init, Unread
<1>. QED  BY <1>2, <1>3, <1>4, <1>5 DEF WireInv, TypeOK, Status

\* What an action leaves in the variables that it does not set aside.
InFlightOK ==
  /\ type \in TypeNames \cup {"none"}
  /\ sent \in Seq(MsgType(type))
  /\ wire \in Seq(Byte) /\ Fits(wire)
  /\ fate \in {"intact", "cut", "extended", "merged", "raw"}
GotOK ==
  /\ got.st \in {"none", "ok", "err"}
  /\ got.st = "ok" => got.m \in MsgType(type)
  /\ type = "none" => got.st = "none"
StoresOK ==
  /\ DOMAIN store = Modules /\ DOMAIN accepted = Modules
  /\ \A mod \in Modules : store[mod] \in Seq(Byte) /\ Fits(store[mod])
  /\ \A mod \in Modules : accepted[mod] \in MsgType(ParamsType(mod))

LEMMA SendOK ==
  ASSUME NEW T \in TypeNames, NEW m \in MsgType(T), Send(T, m)
  PROVE  InFlightOK' /\ GotOK'
<1>1. Encode(T, m).st = "ok" /\ Encode(T, m).bz \in Seq(Byte)
  BY EncodeTypes
<1>2. /\ Fits(wire') /\ wire' \in Seq(Byte) /\ type' = T /\ sent' = <<m>> /\ fate' = "intact"
      /\ got' = [st |-> "none"]
  BY <1>1 DEF Send, Unread
<1>3. sent' \in Seq(MsgType(type'))
  BY <1>2
<1>. QED  BY <1>2, <1>3 DEF InFlightOK, GotOK

LEMMA StoresUnchanged == StoresOK /\ UNCHANGED <<store, accepted>> => StoresOK'
BY DEF StoresOK

LEMMA GotUnchanged == GotOK /\ UNCHANGED <<type, got>> => GotOK'
BY DEF GotOK

\* The messages that are sent have their types.
LEMMA MessagesTyped ==
  DOMAIN Messages = TypeNames /\ \A T \in TypeNames : \A m \in Messages[T] : m \in MsgType(T)
BY WireAssumption

LEMMA WireNext == WireInv /\ [Next]_vars => WireInv'
<1>. SUFFICES ASSUME InFlightOK, GotOK, StoresOK, [Next]_vars
              PROVE  InFlightOK' /\ GotOK' /\ StoresOK'
  BY DEF WireInv, TypeOK, Status, InFlightOK, GotOK, StoresOK
<1>1. CASE ClientInvoke
  <2>1. PICK T \in TypeNames : \E m \in Messages[T] : Send(T, m)
    BY <1>1, MessagesTyped DEF ClientInvoke
  <2>2. PICK m \in Messages[T] : Send(T, m)
    BY <2>1
  <2>3. InFlightOK' /\ GotOK'
    BY <2>2, MessagesTyped, SendOK
  <2>. QED  BY <1>1, <2>3, StoresUnchanged DEF ClientInvoke
<1>2. CASE Cut
  <2>1. PICK k \in 0..(Len(wire) - 1) : wire' = SubSeq(wire, 1, k)
    BY <1>2 DEF Cut
  <2>2. wire \in Seq(Byte) /\ Len(wire) \in Nat /\ Len(wire) < Half /\ Half \in Nat
    BY HalfFacts DEF InFlightOK, Fits, Half
  <2>3. wire' \in Seq(Byte) /\ Len(wire') = k
    BY <2>1, <2>2
  <2>4. Fits(wire')
    BY <2>1, <2>2, <2>3 DEF Fits, Half
  <2>. QED  BY <1>2, <2>3, <2>4, StoresUnchanged, GotUnchanged DEF Cut, InFlightOK
<1>3. CASE Extend
  <2>1. PICK f \in UnknownFields : wire' \in {Tokens_Marshal(f) \o wire, wire \o Tokens_Marshal(f)}
    BY <1>3 DEF Extend
  <2>2. PICK bz \in Seq(Byte) : bz = Tokens_Marshal(f)
    BY WireAssumption, FirstToken
  <2>3. bz \o wire \in Seq(Byte) /\ wire \o bz \in Seq(Byte)
    BY Joined DEF InFlightOK
  <2>4. wire' \in Seq(Byte)
    BY <2>1, <2>2, <2>3
  <2>. QED  BY <1>3, <2>4, StoresUnchanged, GotUnchanged DEF Extend, InFlightOK
<1>4. CASE Concatenate
  <2>1. type \in TypeNames
    BY <1>4 DEF Concatenate, InFlight, InFlightOK
  <2>2. PICK m \in Messages[type] : sent' = Append(sent, m) /\ wire' = wire \o Encode(type, m).bz
    BY <1>4 DEF Concatenate
  <2>3. m \in MsgType(type) /\ Encode(type, m).bz \in Seq(Byte)
    BY <2>1, MessagesTyped, EncodeTypes
  <2>4. wire' \in Seq(Byte) /\ sent' \in Seq(MsgType(type))
    BY <2>2, <2>3 DEF InFlightOK
  <2>. QED  BY <1>4, <2>4, StoresUnchanged, GotUnchanged DEF Concatenate, InFlightOK
<1>5. CASE RawByte
  <2>1. PICK b \in RawBytes : wire' = Append(wire, b)
    BY <1>5 DEF RawByte
  <2>2. wire' \in Seq(Byte)
    BY <2>1, WireAssumption DEF InFlightOK
  <2>3. type' \in TypeNames \cup {"none"}
    BY <1>5, WireAssumption DEF RawByte, InFlightOK
  <2>4. got.st = "none"
    BY <1>5 DEF RawByte, Idle, InFlight, Unread, GotOK
  <2>5. InFlightOK'
    BY <1>5, <2>2, <2>3 DEF RawByte, InFlightOK
  <2>6. GotOK'
    <3>1. got' = got
      BY <1>5 DEF RawByte
    <3>. QED  BY <2>4, <3>1 DEF GotOK
  <2>. QED  BY <1>5, <2>5, <2>6, StoresUnchanged DEF RawByte
<1>6. CASE Receive
  <2>1. type \in TypeNames /\ type # "none" /\ wire \in Buffers
    BY <1>6 DEF Receive, InFlight, InFlightOK, Buffers
  <2>2. Decode(type, wire).st \in {"ok", "err"} /\ Decode(type, wire).m \in MsgType(type)
    BY <2>1, DecodeTypes
  <2>3. GotOK'
    BY <1>6, <2>1, <2>2 DEF Receive, GotOK
  <2>. QED  BY <1>6, <2>3, StoresUnchanged DEF Receive, InFlightOK
<1>7. CASE Discard
  <2>1. wire' \in Seq(Byte) /\ Fits(wire')
    BY <1>7, HalfFacts DEF Discard, Fits, Half
  <2>2. sent' \in Seq(MsgType(type'))
    BY <1>7 DEF Discard
  <2>3. InFlightOK' /\ GotOK'
    BY <1>7, <2>1, <2>2 DEF Discard, InFlightOK, GotOK, Unread
  <2>. QED  BY <1>7, <2>3, StoresUnchanged DEF Discard
<1>8. CASE UpdateParams
  <2>1. PICK mod : mod = ModuleOf(type)
    OBVIOUS
  <2>2. PICK p : p = got.m.Params
    OBVIOUS
  <2>3. PICK bz : bz = Encode(ParamsType(mod), p).bz
    OBVIOUS
  <2>4. /\ type \in {"burn.MsgUpdateParams", "validator.MsgUpdateParams"}
        /\ got.st = "ok" /\ Fits(bz)
        /\ store' = [store EXCEPT ![mod] = bz] /\ accepted' = [accepted EXCEPT ![mod] = p]
        /\ Send(Response(type), NoFields)
    BY <1>8, <2>1, <2>2, <2>3 DEF UpdateParams, IsRequest
  <2>5. mod \in Modules /\ p \in MsgType(ParamsType(mod))
    <3>1. got.m \in MsgType(type)
      BY <2>4 DEF GotOK
    <3>2. CASE type = "burn.MsgUpdateParams"
      <4>1. mod = "burn" /\ ParamsType(mod) = "burn.Params"
        BY <2>1, <3>2 DEF ModuleOf, ParamsType
      <4>2. got.m \in [Authority : Strings, Params : B!Params_Type]
        BY <3>1, <3>2, MsgTypes
      <4>. QED  BY <2>2, <4>1, <4>2, MsgTypes DEF Modules
    <3>3. CASE type = "validator.MsgUpdateParams"
      <4>1. mod = "validator" /\ ParamsType(mod) = "validator.Params"
        BY <2>1, <3>3 DEF ModuleOf, ParamsType
      <4>2. got.m \in [Authority : Strings, Params : V!Params_Type]
        BY <3>1, <3>3, MsgTypes
      <4>. QED  BY <2>2, <4>1, <4>2, MsgTypes DEF Modules
    <3>. QED  BY <2>4, <3>2, <3>3
  <2>6. bz \in Seq(Byte)
    BY <2>3, <2>5, ParamsTypes, EncodeTypes
  <2>7. StoresOK'
    BY <2>4, <2>5, <2>6 DEF StoresOK
  <2>8. Response(type) \in TypeNames /\ NoFields \in MsgType(Response(type))
    BY <2>4, ResponseTypes, MsgTypes DEF TypeNames
  <2>. QED  BY <2>4, <2>7, <2>8, SendOK
<1>9. CASE QueryParams
  <2>1. PICK mod : mod = ModuleOf(type)
    OBVIOUS
  <2>2. PICK p : p = Decode(ParamsType(mod), store[mod])
    OBVIOUS
  <2>3. /\ type \in {"burn.QueryParamsRequest", "validator.QueryParamsRequest"}
        /\ p.st = "ok" /\ Send(Response(type), [Params |-> p.m])
        /\ UNCHANGED <<store, accepted>>
    BY <1>9, <2>1, <2>2 DEF QueryParams
  <2>4. mod \in Modules
    BY <2>1, <2>3 DEF ModuleOf, Modules
  <2>5. p.m \in MsgType(ParamsType(mod))
    <3>1. store[mod] \in Buffers
      BY <2>4 DEF StoresOK, Buffers
    <3>. QED  BY <2>2, <2>4, <3>1, ParamsTypes, DecodeTypes
  <2>6. Response(type) \in TypeNames /\ [Params |-> p.m] \in MsgType(Response(type))
    BY <2>1, <2>3, <2>5, ResponseTypes, MsgTypes DEF TypeNames, ModuleOf, ParamsType
  <2>. QED  BY <2>3, <2>6, SendOK, StoresUnchanged
<1>10. CASE Answer
  <2>1. Response(type) \in TypeNames
    BY <1>10, ResponseTypes DEF Answer, IsRequest
  <2>2. PICK m \in Messages[Response(type)] : Send(Response(type), m)
    BY <1>10 DEF Answer
  <2>3. InFlightOK' /\ GotOK'
    BY <2>1, <2>2, MessagesTyped, SendOK
  <2>. QED  BY <1>10, <2>3, StoresUnchanged DEF Answer
<1>11. CASE UNCHANGED vars
  <2>1. InFlightOK'
    BY <1>11 DEF vars, InFlightOK
  <2>. QED  BY <1>11, <2>1, StoresUnchanged, GotUnchanged DEF vars
<1>. QED
  BY <1>1, <1>2, <1>3, <1>4, <1>5, <1>6, <1>7, <1>8, <1>9, <1>10, <1>11 DEF Next

LEMMA WireInvariant == Spec => []WireInv
<1>1. Init => WireInv
  BY WireInit
<1>2. WireInv /\ [Next]_vars => WireInv'
  BY WireNext
<1>. QED  BY <1>1, <1>2, PTL DEF Spec

\* What the generated Unmarshal functions accept is a value of the message's Go
\* type, and so are the parameters that the handlers store.
THEOREM WireTypes == Spec => []TypeOK
<1>1. WireInv => TypeOK
  BY DEF WireInv
<1>. QED  BY <1>1, WireInvariant, PTL

\* No bytes make the generated decoders index outside the buffer or spin, and no
\* message makes Marshal write outside the buffer that Size measured.
THEOREM DecodersNeverPanic == Spec => []DecoderNeverPanics
<1>1. WireInv => DecoderNeverPanics
  BY DEF WireInv, DecoderNeverPanics
<1>. QED  BY <1>1, WireInvariant, PTL

-----------------------------------------------------------------------------
(* What the invariant remembers besides: where the bytes in flight come    *)
(* from, that the message was decoded from them, and that the stores hold  *)
(* the parameters that were accepted, none of which is nil.                *)

\* The bytes are those that the senders encoded, but for what happened to them.
OnTheWire ==
  type # "none" =>
    LET e(n) == Encode(type, sent[n]).bz
    IN /\ fate \in {"intact", "cut", "extended"} => Len(sent) = 1
       /\ fate = "intact" => wire = e(1)
       /\ fate = "cut" => /\ Fits(e(1))
                          /\ \E k \in 0..(Len(e(1)) - 1) : wire = SubSeq(e(1), 1, k)
       /\ fate = "extended" => \E f \in UnknownFields :
                               wire \in {Tokens_Marshal(f) \o e(1), e(1) \o Tokens_Marshal(f)}
       /\ fate = "merged" => Len(sent) = 2 /\ wire = e(1) \o e(2)

GotDecoded == got = Unread \/ (type # "none" /\ got = Decode(type, wire))

StoresEncoded ==
  \A mod \in Modules :
    /\ store[mod] = Encode(ParamsType(mod), accepted[mod]).bz
    /\ Normalized(ParamsType(mod), accepted[mod]) = accepted[mod]

History == OnTheWire /\ GotDecoded /\ StoresEncoded

\* Without nil numbers, parameters are their own normal form.
LEMMA BurnParamsWithoutNil ==
  ASSUME NEW p \in B!Params_Type, p.FeeBurnPercent # Nil
  PROVE  Normalized("burn.Params", p) = p
<1>1. p = [FeeBurnPercent |-> p.FeeBurnPercent]
  BY BurnOperators DEF B!Params_Type
<1>2. Normalized("burn.Params", p) = MergedBurnParams(Zero("burn.Params"), p)
  BY Zenon DEF Normalized, Merged
<1>. QED  BY <1>1, <1>2 DEF MergedBurnParams, Written

LEMMA CoinWithoutNil ==
  ASSUME NEW c \in Coin_Type, c.Amount # Nil
  PROVE  MergedCoin(Coin_Zero, c) = c
<1>1. c = [Denom |-> c.Denom, Amount |-> c.Amount]
  BY DEF Coin_Type
<1>2. Coin_Zero.Denom = <<>>
  BY DEF Coin_Zero
<1>3. Latest(Coin_Zero.Denom, c.Denom, <<>>) = c.Denom
  BY <1>2, StringNormal
<1>4. Written(c.Amount) = c.Amount
  BY DEF Written
<1>. QED  BY <1>1, <1>3, <1>4 DEF MergedCoin

LEMMA ValidatorParamsWithoutNil ==
  ASSUME NEW p \in V!Params_Type,
         p.ValidatorRegistrationBurn.Amount # Nil, p.ValidatorMinSelfDelegation.Amount # Nil
  PROVE  Normalized("validator.Params", p) = p
<1>1. /\ p.ValidatorRegistrationBurn \in Coin_Type
      /\ p.ValidatorMinSelfDelegation \in Coin_Type
      /\ p = [ValidatorRegistrationBurn |-> p.ValidatorRegistrationBurn,
              ValidatorMinSelfDelegation |-> p.ValidatorMinSelfDelegation]
  BY ValidatorOperators DEF V!Params_Type
<1>2. /\ MergedCoin(Coin_Zero, p.ValidatorRegistrationBurn) = p.ValidatorRegistrationBurn
      /\ MergedCoin(Coin_Zero, p.ValidatorMinSelfDelegation) = p.ValidatorMinSelfDelegation
  BY <1>1, CoinWithoutNil
<1>3. Normalized("validator.Params", p) = MergedValidatorParams(V!Params_Zero, p)
  BY Zenon DEF Normalized, Merged, Zero
<1>4. PICK z : z = V!Params_Zero
  OBVIOUS
<1>5. z.ValidatorRegistrationBurn = Coin_Zero /\ z.ValidatorMinSelfDelegation = Coin_Zero
  BY <1>4, ValidatorOperators DEF V!Params_Zero
<1>6. MergedValidatorParams(z, p) =
        [ValidatorRegistrationBurn |-> p.ValidatorRegistrationBurn,
         ValidatorMinSelfDelegation |-> p.ValidatorMinSelfDelegation]
  BY <1>2, <1>5 DEF MergedValidatorParams
<1>. QED  BY <1>1, <1>3, <1>4, <1>6

\* The parameters that Validate accepts are their own normal form.
LEMMA ValidParamsNormal ==
  ASSUME NEW mod \in Modules, NEW p \in MsgType(ParamsType(mod)), validateParams(mod, p)
  PROVE  Normalized(ParamsType(mod), p) = p
<1>1. CASE mod = "burn"
  <2>1. ParamsType(mod) = "burn.Params"
    BY <1>1 DEF ParamsType
  <2>2. p.FeeBurnPercent # Nil
    BY <1>1 DEF validateParams, validateFeeBurnPercent
  <2>. QED  BY <2>1, <2>2, MsgTypes, BurnParamsWithoutNil
<1>2. CASE mod = "validator"
  <2>1. ParamsType(mod) = "validator.Params"
    BY <1>2 DEF ParamsType
  <2>2. validateValidatorParams(p)
    BY <1>2 DEF validateParams
  <2>3. p.ValidatorRegistrationBurn.Amount # Nil /\ p.ValidatorMinSelfDelegation.Amount # Nil
    BY <2>2 DEF validateValidatorParams, validateCoinParam, Coin_Validate
  <2>. QED  BY <2>1, <2>3, MsgTypes, ValidatorParamsWithoutNil
<1>. QED  BY <1>1, <1>2 DEF Modules

LEMMA DefaultParamsNormal ==
  ASSUME NEW mod \in Modules
  PROVE  Normalized(ParamsType(mod), DefaultParams[mod]) = DefaultParams[mod]
<1>1. <<0>> # Nil
  BY DEF Nil
<1>2. CASE mod = "burn"
  <2>1. PICK p : p = DefaultParams["burn"]
    OBVIOUS
  <2>2. p.FeeBurnPercent = <<0>>
    BY <2>1 DEF DefaultParams
  <2>3. ParamsType(mod) = "burn.Params" /\ p \in B!Params_Type
    BY <1>2, <2>1, ParamsTypes, MsgTypes DEF ParamsType
  <2>. QED  BY <1>1, <1>2, <2>1, <2>2, <2>3, BurnParamsWithoutNil
<1>3. CASE mod = "validator"
  <2>1. PICK p : p = DefaultParams["validator"]
    OBVIOUS
  <2>2. p.ValidatorRegistrationBurn.Amount = <<0>> /\ p.ValidatorMinSelfDelegation.Amount = <<0>>
    BY <2>1 DEF DefaultParams
  <2>3. ParamsType(mod) = "validator.Params" /\ p \in V!Params_Type
    BY <1>3, <2>1, ParamsTypes, MsgTypes DEF ParamsType
  <2>. QED  BY <1>1, <1>3, <2>1, <2>2, <2>3, ValidatorParamsWithoutNil
<1>. QED  BY <1>2, <1>3 DEF Modules

LEMMA HistoryInit == Init => History
<1>. SUFFICES ASSUME Init PROVE History
  OBVIOUS
<1>1. ASSUME NEW mod \in Modules
      PROVE  /\ store[mod] = Encode(ParamsType(mod), accepted[mod]).bz
             /\ Normalized(ParamsType(mod), accepted[mod]) = accepted[mod]
  <2>1. DOMAIN DefaultParams = Modules
    BY DEF DefaultParams, Modules
  <2>2. store[mod] = Encode(ParamsType(mod), DefaultParams[mod]).bz /\ accepted = DefaultParams
    BY <2>1 DEF Init
  <2>. QED  BY <2>2, DefaultParamsNormal
<1>2. type = "none" /\ got = Unread
  BY DEF Init
<1>. QED  BY <1>1, <1>2 DEF History, OnTheWire, GotDecoded, StoresEncoded

LEMMA SendRemembered ==
  ASSUME NEW T \in TypeNames, NEW m \in MsgType(T), Send(T, m)
  PROVE  OnTheWire' /\ GotDecoded'
<1>1. Encode(T, m).st = "ok"
  BY EncodeTypes
<1>2. /\ type' = T /\ sent' = <<m>> /\ wire' = Encode(T, m).bz /\ fate' = "intact"
      /\ got' = Unread
  BY <1>1 DEF Send
<1>3. Len(sent') = 1 /\ sent'[1] = m
  BY <1>2
<1>. QED  BY <1>2, <1>3 DEF OnTheWire, GotDecoded

LEMMA SecondSent ==
  ASSUME NEW M, NEW s \in Seq(M), Len(s) = 1, NEW m
  PROVE  Len(Append(s, m)) = 2 /\ Append(s, m)[1] = s[1] /\ Append(s, m)[2] = m
<1>1. PICK N : N = M \cup {m}
  OBVIOUS
<1>2. s \in Seq(N) /\ m \in N
  BY <1>1
<1>3. \A t \in Seq(N) : /\ Len(Append(t, m)) = Len(t) + 1 /\ Append(t, m)[Len(t) + 1] = m
                        /\ \A k \in 1..Len(t) : Append(t, m)[k] = t[k]
  BY <1>2
<1>. QED  BY <1>2, <1>3

LEMMA StoresRemembered == StoresEncoded /\ UNCHANGED <<store, accepted>> => StoresEncoded'
BY DEF StoresEncoded

LEMMA GotRemembered == got = Unread /\ UNCHANGED got => GotDecoded'
BY DEF GotDecoded

LEMMA HistoryNext == WireInv /\ WireInv' /\ History /\ [Next]_vars => History'
<1>. SUFFICES ASSUME WireInv, WireInv', OnTheWire, GotDecoded, StoresEncoded, [Next]_vars
              PROVE  OnTheWire' /\ GotDecoded' /\ StoresEncoded'
  BY DEF History
<1>. USE DEF WireInv
<1>1. CASE ClientInvoke
  <2>1. PICK T \in TypeNames : \E m \in Messages[T] : Send(T, m)
    BY <1>1, MessagesTyped DEF ClientInvoke
  <2>2. PICK m \in Messages[T] : Send(T, m)
    BY <2>1
  <2>3. OnTheWire' /\ GotDecoded'
    BY <2>2, MessagesTyped, SendRemembered
  <2>. QED  BY <1>1, <2>3, StoresRemembered DEF ClientInvoke
<1>2. CASE Cut
  <2>1. type # "none" /\ fate = "intact" /\ got = Unread
    BY <1>2 DEF Cut, InFlight
  <2>2. Len(sent) = 1 /\ wire = Encode(type, sent[1]).bz
    BY <2>1 DEF OnTheWire
  <2>3. PICK k \in 0..(Len(wire) - 1) : wire' = SubSeq(wire, 1, k)
    BY <1>2 DEF Cut
  <2>4. /\ type' = type /\ sent' = sent /\ fate' = "cut" /\ got' = got
        /\ UNCHANGED <<store, accepted>>
    BY <1>2 DEF Cut
  <2>5. OnTheWire'
    <3>1. PICK e : e = wire
      OBVIOUS
    <3>2. Fits(e) /\ k \in 0..(Len(e) - 1) /\ wire' = SubSeq(e, 1, k)
      BY <2>3, <3>1 DEF TypeOK
    <3>3. Len(sent') = 1 /\ e = Encode(type', sent'[1]).bz
      BY <2>2, <2>4, <3>1
    <3>. QED  BY <2>4, <3>2, <3>3 DEF OnTheWire
  <2>. QED  BY <2>1, <2>4, <2>5, GotRemembered, StoresRemembered
<1>3. CASE Extend
  <2>1. type # "none" /\ fate = "intact" /\ got = Unread
    BY <1>3 DEF Extend, InFlight
  <2>2. Len(sent) = 1 /\ wire = Encode(type, sent[1]).bz
    BY <2>1 DEF OnTheWire
  <2>3. PICK f \in UnknownFields : wire' \in {Tokens_Marshal(f) \o wire, wire \o Tokens_Marshal(f)}
    BY <1>3 DEF Extend
  <2>4. /\ type' = type /\ sent' = sent /\ fate' = "extended" /\ got' = got
        /\ UNCHANGED <<store, accepted>>
    BY <1>3 DEF Extend
  <2>5. OnTheWire'
    BY <2>2, <2>3, <2>4 DEF OnTheWire
  <2>. QED  BY <2>1, <2>4, <2>5, GotRemembered, StoresRemembered
<1>4. CASE Concatenate
  <2>1. type # "none" /\ fate = "intact" /\ got = Unread
    BY <1>4 DEF Concatenate, InFlight
  <2>2. Len(sent) = 1 /\ wire = Encode(type, sent[1]).bz /\ sent \in Seq(MsgType(type))
    BY <2>1 DEF OnTheWire, TypeOK
  <2>3. PICK m \in Messages[type] : sent' = Append(sent, m) /\ wire' = wire \o Encode(type, m).bz
    BY <1>4 DEF Concatenate
  <2>4. /\ type' = type /\ fate' = "merged" /\ got' = got
        /\ UNCHANGED <<store, accepted>>
    BY <1>4 DEF Concatenate
  <2>5. Len(sent') = 2 /\ sent'[1] = sent[1] /\ sent'[2] = m
    BY <2>2, <2>3, SecondSent
  <2>6. OnTheWire'
    BY <2>2, <2>3, <2>4, <2>5 DEF OnTheWire
  <2>. QED  BY <2>1, <2>4, <2>6, GotRemembered, StoresRemembered
<1>5. CASE RawByte
  <2>1. fate' = "raw" /\ got' = got /\ UNCHANGED <<store, accepted>>
    BY <1>5 DEF RawByte
  <2>2. got = Unread
    BY <1>5 DEF RawByte, Idle, InFlight, GotDecoded
  <2>3. OnTheWire'
    BY <2>1 DEF OnTheWire
  <2>. QED  BY <2>1, <2>2, <2>3, GotRemembered, StoresRemembered
<1>6. CASE Receive
  <2>1. /\ type # "none" /\ got' = Decode(type, wire)
        /\ UNCHANGED <<type, sent, wire, fate>> /\ UNCHANGED <<store, accepted>>
    BY <1>6 DEF Receive, InFlight
  <2>2. OnTheWire'
    BY <2>1 DEF OnTheWire
  <2>3. GotDecoded'
    BY <2>1 DEF GotDecoded
  <2>. QED  BY <2>1, <2>2, <2>3, StoresRemembered
<1>7. CASE Discard
  <2>1. type' = "none" /\ got' = Unread /\ UNCHANGED <<store, accepted>>
    BY <1>7 DEF Discard, Unread
  <2>. QED  BY <2>1, StoresRemembered DEF OnTheWire, GotDecoded, Unread
<1>8. CASE UpdateParams
  <2>1. PICK mod : mod = ModuleOf(type)
    OBVIOUS
  <2>2. PICK p : p = got.m.Params
    OBVIOUS
  <2>3. PICK bz : bz = Encode(ParamsType(mod), p).bz
    OBVIOUS
  <2>4. /\ type \in {"burn.MsgUpdateParams", "validator.MsgUpdateParams"}
        /\ validateParams(mod, p)
        /\ store' = [store EXCEPT ![mod] = bz] /\ accepted' = [accepted EXCEPT ![mod] = p]
        /\ Send(Response(type), NoFields)
    BY <1>8, <2>1, <2>2, <2>3 DEF UpdateParams
  <2>5. mod \in Modules
    BY <2>1, <2>4 DEF ModuleOf, Modules
  <2>6. DOMAIN store = Modules /\ DOMAIN accepted = Modules
    BY DEF TypeOK
  <2>7. store'[mod] = bz /\ accepted'[mod] = p
    BY <2>4, <2>5, <2>6
  <2>8. p \in MsgType(ParamsType(mod))
    BY <2>5, <2>7 DEF TypeOK
  <2>9. Normalized(ParamsType(mod), p) = p
    BY <2>4, <2>5, <2>8, ValidParamsNormal
  <2>10. ASSUME NEW other \in Modules, other # mod
         PROVE  store'[other] = store[other] /\ accepted'[other] = accepted[other]
    BY <2>4, <2>6, <2>10
  <2>11. StoresEncoded'
    BY <2>3, <2>7, <2>9, <2>10 DEF StoresEncoded
  <2>12. Response(type) \in TypeNames /\ NoFields \in MsgType(Response(type))
    BY <2>4, ResponseTypes, MsgTypes DEF TypeNames
  <2>. QED  BY <2>4, <2>11, <2>12, SendRemembered
<1>9. CASE QueryParams
  <2>1. PICK T, m : Send(T, m) /\ T = Response(type) /\ UNCHANGED <<store, accepted>>
    BY <1>9 DEF QueryParams
  <2>2. T \in TypeNames
    BY <1>9, <2>1, ResponseTypes DEF QueryParams, IsRequest
  <2>3. m \in MsgType(T)
    <3>1. type' = T /\ sent' = <<m>>
      BY <2>1 DEF Send
    <3>2. sent' \in Seq(MsgType(type'))
      BY DEF TypeOK
    <3>. QED  BY <3>1, <3>2
  <2>. QED  BY <2>1, <2>2, <2>3, SendRemembered, StoresRemembered
<1>10. CASE Answer
  <2>1. Response(type) \in TypeNames
    BY <1>10, ResponseTypes DEF Answer, IsRequest
  <2>2. PICK m \in Messages[Response(type)] : Send(Response(type), m)
    BY <1>10 DEF Answer
  <2>3. OnTheWire' /\ GotDecoded'
    BY <2>1, <2>2, MessagesTyped, SendRemembered
  <2>. QED  BY <1>10, <2>3, StoresRemembered DEF Answer
<1>11. CASE UNCHANGED vars
  BY <1>11, StoresRemembered DEF vars, OnTheWire, GotDecoded
<1>. QED
  BY <1>1, <1>2, <1>3, <1>4, <1>5, <1>6, <1>7, <1>8, <1>9, <1>10, <1>11 DEF Next

LEMMA HistoryInvariant == Spec => [](WireInv /\ History)
<1>1. Init => History
  BY HistoryInit
<1>2. WireInv /\ WireInv' /\ History /\ [Next]_vars => History'
  BY HistoryNext
<1>. QED  BY <1>1, <1>2, WireInvariant, PTL DEF Spec

\* A message that was read is what Unmarshal made of the bytes.
LEMMA ReadIsDecoded ==
  ASSUME WireInv, History, IsRead
  PROVE  /\ type \in TypeNames /\ wire \in Buffers /\ sent \in Seq(MsgType(type))
         /\ got = Decode(type, wire)
BY DEF WireInv, TypeOK, History, GotDecoded, IsRead, Buffers

\* What the generated Marshal functions encode is what their Unmarshal functions
\* decode, field by field, but for nil numbers, which become zero.
THEOREM MessagesRoundTrip == Spec => []RoundTrip
<1>1. ASSUME WireInv, History, IsRead, fate = "intact"
      PROVE  got = [st |-> "ok", m |-> Normalized(type, sent[1])]
  <2>1. /\ type \in TypeNames /\ wire \in Buffers /\ sent \in Seq(MsgType(type))
        /\ got = Decode(type, wire)
    BY <1>1, ReadIsDecoded
  <2>2. Len(sent) = 1 /\ wire = Encode(type, sent[1]).bz
    BY <1>1 DEF History, OnTheWire, IsRead
  <2>3. sent[1] \in MsgType(type)
    BY <2>1, <2>2
  <2>. QED  BY <2>1, <2>2, <2>3, DecodeEncoded DEF Buffers
<1>2. WireInv /\ History => RoundTrip
  BY <1>1 DEF RoundTrip
<1>. QED  BY <1>2, HistoryInvariant, PTL

\* Two encodings of a type one after the other are decoded to the merged message.
THEOREM ConcatenationsMerge == Spec => []ConcatenationMerges
<1>1. ASSUME WireInv, History, IsRead, fate = "merged"
      PROVE  got = [st |-> "ok", m |-> Merged(type, Normalized(type, sent[1]), sent[2])]
  <2>1. /\ type \in TypeNames /\ wire \in Buffers /\ sent \in Seq(MsgType(type))
        /\ got = Decode(type, wire)
    BY <1>1, ReadIsDecoded
  <2>2. Len(sent) = 2 /\ wire = Encode(type, sent[1]).bz \o Encode(type, sent[2]).bz
    BY <1>1 DEF History, OnTheWire, IsRead
  <2>3. sent[1] \in MsgType(type) /\ sent[2] \in MsgType(type)
    <3>1. 1 \in 1..Len(sent) /\ 2 \in 1..Len(sent)
      BY <2>2
    <3>2. \A s \in Seq(MsgType(type)) : \A k \in 1..Len(s) : s[k] \in MsgType(type)
      OBVIOUS
    <3>. QED  BY <2>1, <3>1, <3>2
  <2>. QED  BY <2>1, <2>2, <2>3, DecodeTwo DEF Buffers
<1>2. WireInv /\ History => ConcatenationMerges
  BY <1>1 DEF ConcatenationMerges
<1>. QED  BY <1>2, HistoryInvariant, PTL

\* A field that no switch has a case for, a group with all it holds included, is
\* skipped wherever it stands and changes nothing of what is decoded.
THEOREM UnknownFieldsSkipped == Spec => []UnknownFieldsIgnored
<1>1. ASSUME WireInv, History, IsRead, fate = "extended"
      PROVE  got = [st |-> "ok", m |-> Normalized(type, sent[1])]
  <2>1. /\ type \in TypeNames /\ wire \in Buffers /\ sent \in Seq(MsgType(type))
        /\ got = Decode(type, wire)
    BY <1>1, ReadIsDecoded
  <2>2. PICK e : e = Encode(type, sent[1]).bz
    OBVIOUS
  <2>3. /\ Len(sent) = 1
        /\ \E f \in UnknownFields : wire \in {Tokens_Marshal(f) \o e, e \o Tokens_Marshal(f)}
    BY <1>1, <2>2 DEF History, OnTheWire, IsRead
  <2>4. PICK f \in UnknownFields : wire \in {Tokens_Marshal(f) \o e, e \o Tokens_Marshal(f)}
    BY <2>3
  <2>5. sent[1] \in MsgType(type)
    <3>1. Len(sent) = 1
      BY <2>3
    <3>. QED  BY <2>1, <3>1
  <2>. QED  BY <2>1, <2>2, <2>4, <2>5, DecodeExtended
<1>2. WireInv /\ History => UnknownFieldsIgnored
  BY <1>1 DEF UnknownFieldsIgnored
<1>. QED  BY <1>2, HistoryInvariant, PTL

LEMMA SubSeqBegins ==
  ASSUME NEW e \in Seq(Byte), NEW k \in 0..(Len(e) - 1)
  PROVE  Begins(SubSeq(e, 1, k), e)
<1>1. 0 \in Nat /\ k \in Nat /\ 0 <= k /\ k <= Len(e) /\ 0 + 1 = 1 /\ k - 0 = k
  OBVIOUS
<1>2. SubSeq(e, 1, k) \in Seq(Byte) /\ Len(SubSeq(e, 1, k)) = k
  BY <1>1, SubSeqFacts
<1>3. \A i \in 1..k : SubSeq(e, 1, k)[i] = e[i]
  BY <1>1
<1>. QED  BY <1>1, <1>2, <1>3 DEF Begins

\* Whatever is cut off the end of an encoding, a message that is accepted all the same
\* has each field as it was sent or as in the zero value; of the records of a genesis
\* state, the first ones may be left.
THEOREM CutsLoseWholeFields == Spec => []CutLosesWholeFields
<1>1. ASSUME WireInv, History, IsRead, fate = "cut", got.st = "ok"
      PROVE  Partly(got.m, Zero(type), Normalized(type, sent[1]))
  <2>1. /\ type \in TypeNames /\ wire \in Buffers /\ sent \in Seq(MsgType(type))
        /\ got = Decode(type, wire)
    BY <1>1, ReadIsDecoded
  <2>2. PICK e : e = Encode(type, sent[1]).bz
    OBVIOUS
  <2>3. Len(sent) = 1 /\ Fits(e) /\ \E k \in 0..(Len(e) - 1) : wire = SubSeq(e, 1, k)
    BY <1>1, <2>2 DEF History, OnTheWire, IsRead
  <2>4. sent[1] \in MsgType(type)
    <3>1. \A T : sent \in Seq(T) /\ Len(sent) = 1 => sent[1] \in T
      OBVIOUS
    <3>. QED  BY <2>1, <2>3, <3>1
  <2>5. e \in Seq(Byte)
    BY <2>1, <2>2, <2>4, EncodeTypes
  <2>6. Begins(wire, e)
    BY <2>3, <2>5, SubSeqBegins
  <2>. QED  BY <1>1, <2>1, <2>2, <2>3, <2>4, <2>6, DecodeCut
<1>2. ASSUME WireInv, History PROVE CutLosesWholeFields
  <2>1. PICK zero, whole : zero = Zero(type) /\ whole = Normalized(type, sent[1])
    OBVIOUS
  <2>2. ASSUME IsRead, fate = "cut", got.st = "ok", NEW f \in DOMAIN got.m
        PROVE  \/ got.m[f] \in {whole[f], zero[f]}
               \/ f = "AccountTotals" /\ IsPrefix(got.m[f], whole[f])
    BY <1>1, <1>2, <2>1, <2>2 DEF Partly
  <2>. QED  BY <2>1, <2>2 DEF CutLosesWholeFields
<1>3. WireInv /\ History => CutLosesWholeFields
  BY <1>2
<1>. QED  BY <1>3, HistoryInvariant, PTL

\* Whatever bytes were accepted, what they were decoded to has one encoding, which
\* is decoded and encoded to the same bytes again.
THEOREM ReencodingStable == Spec => []ReencodingIsStable
<1>1. ASSUME WireInv, History, IsRead, got.st = "ok"
      PROVE  LET Same(once, again) ==
                   once.st = "ok" /\ again.st = "ok" /\ Encode(type, again.m).bz = once.bz
                 Again(once) == Fits(once.bz) => Same(once, Decode(type, once.bz))
             IN Again(Encode(type, got.m))
  <2>1. type \in TypeNames /\ got.m \in MsgType(type)
    BY <1>1, ReadIsDecoded DEF WireInv, TypeOK
  <2>2. PICK m \in MsgType(type) : m = got.m
    BY <2>1
  <2>3. PICK once : once = Encode(type, m)
    OBVIOUS
  <2>4. once.st = "ok"
    BY <2>1, <2>3, EncodeTypes
  <2>5. ASSUME Fits(once.bz)
        PROVE  Decode(type, once.bz).st = "ok" /\ Encode(type, Decode(type, once.bz).m).bz = once.bz
    <3>1. PICK n : n = Normalized(type, m)
      OBVIOUS
    <3>2. Decode(type, once.bz) = [st |-> "ok", m |-> n]
      BY <2>1, <2>3, <2>5, <3>1, DecodeEncoded
    <3>3. Encode(type, Decode(type, once.bz).m).bz = once.bz
      BY <2>1, <2>3, <2>5, EncodedAgain
    <3>. QED  BY <3>2, <3>3
  <2>. QED  BY <2>2, <2>3, <2>4, <2>5
<1>2. WireInv /\ History => ReencodingIsStable
  BY <1>1 DEF ReencodingIsStable
<1>. QED  BY <1>2, HistoryInvariant, PTL

\* The parameters that an UpdateParams accepted, whatever bytes it came in, are
\* those that the store gives back.
THEOREM StoresKeepAcceptedParams == Spec => []StoreKeepsAcceptedParams
<1>1. ASSUME WireInv, History, NEW mod \in DOMAIN store
      PROVE  Decode(ParamsType(mod), store[mod]) = [st |-> "ok", m |-> accepted[mod]]
  <2>1. mod \in Modules /\ Fits(store[mod]) /\ accepted[mod] \in MsgType(ParamsType(mod))
    BY <1>1 DEF WireInv, TypeOK
  <2>2. /\ store[mod] = Encode(ParamsType(mod), accepted[mod]).bz
        /\ Normalized(ParamsType(mod), accepted[mod]) = accepted[mod]
    BY <1>1, <2>1 DEF History, StoresEncoded
  <2>. QED  BY <2>1, <2>2, ParamsTypes, DecodeEncoded
<1>2. WireInv /\ History => StoreKeepsAcceptedParams
  BY <1>1 DEF StoreKeepsAcceptedParams
<1>. QED  BY <1>2, HistoryInvariant, PTL
=============================================================================
