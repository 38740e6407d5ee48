------------------------------ MODULE SdkCodec ------------------------------
(***************************************************************************)
(* External: the encodings of the Cosmos SDK types that the messages of    *)
(* x/burn and x/validator embed, as far as the generated code uses them.   *)
(***************************************************************************)
EXTENDS ProtoWire

\* sdk.Coin: denom = 1, amount = 2 (math.Int).
Coin_Type == [Denom : Strings, Amount : Numbers]
Coin_Zero == [Denom |-> <<>>, Amount |-> Nil]
Coin_Marshal(m) == PutString(1, m.Denom, PutBytes(2, Number_Marshal(m.Amount), <<>>))
Coin_Size(m) == SizeString(m.Denom) + SizeBytes(Number_Size(m.Amount))
Coin_Unmarshal == <<String("Denom"), Number("Amount")>>

\* staking MsgCreateValidator, of which validator_address = 5 and value = 7 are kept.
MsgCreateValidator_Type == [ValidatorAddress : Strings, Value : Coin_Type]
MsgCreateValidator_Zero == [ValidatorAddress |-> <<>>, Value |-> Coin_Zero]
MsgCreateValidator_Marshal(m) ==
  PutString(5, m.ValidatorAddress, PutBytes(7, Coin_Marshal(m.Value), <<>>))
MsgCreateValidator_Size(m) == SizeString(m.ValidatorAddress) + SizeBytes(Coin_Size(m.Value))
MsgCreateValidator_Unmarshal ==
  [num \in {5, 7} |-> IF num = 5 THEN String("ValidatorAddress") ELSE Message("Value", Coin_Unmarshal)]

\* Coin.Validate: a well-formed denomination (lower-case letters here) and an
\* amount that is neither nil nor negative.
Coin_Validate(c) ==
  /\ Len(c.Denom) > 0 /\ \A k \in DOMAIN c.Denom : c.Denom[k] \in 97..122
  /\ c.Amount # Nil /\ c.Amount[1] >= 0
=============================================================================
