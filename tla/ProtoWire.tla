----------------------------- MODULE ProtoWire -----------------------------
(***************************************************************************)
(* The protobuf wire format as the generated code of x/burn and            *)
(* x/validator reads and writes it: every *.pb.go repeats the same varint, *)
(* length-prefix, skip and field code, modelled here once; BurnCodec and   *)
(* ValidatorCodec say for each message what its functions put together.    *)
(*                                                                         *)
(* A []byte is a sequence of 0..255; dAtA[i] of the code is dAtA[i + 1]    *)
(* here.  A decoder's outcome is a record with a status st: "ok", "err"    *)
(* (an error is returned), "panic" (an index or a slice out of range) or   *)
(* "loop" (an iteration that consumed less than a field has).              *)
(*                                                                         *)
(* Integers keep their width: uint64/int have WordBits bits and the field  *)
(* number, int32 in the code, FieldNumBits.  Both are parameters because   *)
(* TLC's own integers have 32 bits.                                        *)
(*                                                                         *)
(* The tests of an IF ... ELSE IF are in the order of the code's.          *)
(***************************************************************************)
EXTENDS Integers, SequencesExt

CONSTANTS
  WordBits,      \* 64 in the code
  FieldNumBits   \* 32 in the code

\* One byte holds a tag of any field the messages have.
ASSUME WidthAssumption == /\ {WordBits, FieldNumBits} \subseteq Nat
                          /\ 4 < FieldNumBits /\ FieldNumBits + 3 < WordBits

Byte == 0..255

\* The powers of two, up to the first that no shift by a multiple of 7 exceeds.
Pow2 == LET power[k \in 0..(WordBits + 6)] == IF k = 0 THEN 1 ELSE 2 * power[k - 1]
        IN [k \in 0..(WordBits + 6) |-> power[k]]

\* The values of a uint64.
Word == 0..(Pow2[WordBits] - 1)

\* What a conversion of n to a signed integer of that many bits yields.
Signed(n, bits) == ((n + Pow2[bits - 1]) % Pow2[bits]) - Pow2[bits - 1]

\* int(x) of a 64-bit value, and the sum of two ints.
Int64(n) == Signed(n, WordBits)

\* The length of a []byte is an int.
Fits(bz) == Len(bz) < Pow2[WordBits - 1]

Status == {"ok", "err", "panic", "loop"}

-----------------------------------------------------------------------------
(* External: the numbers of cosmossdk.io/math.  A math.Int or LegacyDec is *)
(* <<>> when its pointer is nil and <<n>> otherwise; a LegacyDec's n       *)
(* counts units of its last digit.  On the wire both are decimal text.     *)

Nil == <<>>

\* The values of such a number, and of a string.
Numbers == {v \in Seq(Int) : Len(v) <= 1}
Strings == Seq(Byte)

\* Decimal text of a non-negative number; left[k] is n without its last k digits.
Digits(n) ==
  LET left[k \in 0..(n + 1)] == IF k = 0 THEN n ELSE left[k - 1] \div 10
      count == CHOOSE d \in 1..(n + 1) : left[d] = 0 /\ \A e \in 1..(d - 1) : left[e] # 0
  IN [k \in 1..count |-> 48 + (left[count - k] % 10)]

\* math.Int.Marshal and LegacyDec.Marshal: big.Int.MarshalText, nil as zero.
Number_Marshal(v) ==
  IF v = Nil THEN Digits(0)
  ELSE IF v[1] < 0 THEN <<45>> \o Digits(-v[1])
  ELSE Digits(v[1])

Number_Size(v) == Len(Number_Marshal(v))

IsNumber(digits, base) ==
  Len(digits) > 0 /\ \A k \in DOMAIN digits : digits[k] \in 48..(48 + base - 1)

ValueOf(digits, base) ==
  LET upTo[k \in 0..Len(digits)] ==
        IF k = 0 THEN 0 ELSE upTo[k - 1] * base + (digits[k] - 48)
  IN upTo[Len(digits)]

\* big.Int.UnmarshalText: an optional sign and digits, octal after a leading
\* zero.  (Its 0x, 0o and 0b prefixes and its underscores need bytes that no
\* input of the runs has.)  Empty bytes leave the number as it was.
Number_Unmarshal(old, bz) ==
  LET Parsed(sign, digits, base) ==
        IF IsNumber(digits, base) THEN [st |-> "ok", m |-> <<sign * ValueOf(digits, base)>>]
                                  ELSE [st |-> "err", m |-> old]
      Unsigned(sign, digits) ==
        Parsed(sign, digits, IF Len(digits) > 1 /\ digits[1] = 48 THEN 8 ELSE 10)
  IN IF bz = <<>> THEN [st |-> "ok", m |-> old]
     ELSE IF bz[1] = 45 THEN Unsigned(-1, Tail(bz))
     ELSE Unsigned(1, bz)

-----------------------------------------------------------------------------
(* Writing.  MarshalToSizedBuffer fills the buffer from its end, so each   *)
(* Put takes what is already written and returns it with the field in      *)
(* front; a message's Marshal nests them in the order the code runs them.  *)

\* Mutant of sov: 128 taken to fit in one byte.
sovOffByOne(x) == IF x <= 128 THEN 1 ELSE 2

\* sovTx: bytes of a varint.  The code computes (Len64(x|1) + 6) / 7.
sov(x) == CHOOSE n \in 1..(WordBits + 6) \div 7 :
            /\ x < Pow2[7 * n] \/ n = (WordBits + 6) \div 7
            /\ n = 1 \/ x >= Pow2[7 * (n - 1)]

\* Mutant of encodeVarint: v&0x7f left out.
encodeVarintUnmasked(v) ==
  [k \in 1..sov(v) |-> (v \div Pow2[7 * (k - 1)]) + (IF k < sov(v) THEN 128 ELSE 0)]

\* encodeVarintTx: seven bits per byte, least significant first, the high bit
\* set on every byte but the last.
encodeVarint(v) ==
  [k \in 1..sov(v) |-> ((v \div Pow2[7 * (k - 1)]) % 128) + (IF k < sov(v) THEN 128 ELSE 0)]

Tag(num, wireType) == <<8 * num + wireType>>

\* A length-delimited field that is always written: an embedded message that
\* is not nullable, or a custom type.
PutBytes(num, bz, tail) == Tag(num, 2) \o encodeVarint(Len(bz)) \o bz \o tail

\* A string field, which is left out when it is empty.
PutString(num, s, tail) == IF Len(s) > 0 THEN PutBytes(num, s, tail) ELSE tail

\* A uint64 field, which is left out when it is zero.
PutUint64(num, v, tail) == IF v # 0 THEN Tag(num, 0) \o encodeVarint(v) \o tail ELSE tail

SizeBytes(l) == 1 + l + sov(l)
SizeString(s) == IF Len(s) > 0 THEN SizeBytes(Len(s)) ELSE 0
SizeUint64(v) == IF v # 0 THEN 1 + sov(v) ELSE 0

\* Marshal: a buffer of Size() zero bytes is filled from its end and its first
\* n bytes are returned, so the result is right only if Size() is exact; with a
\* buffer that is too short the code writes at a negative index.
Marshal(size, written) ==
  LET n == Len(written)
  IN IF n > size
     THEN [st |-> "panic", bz |-> <<>>]
     ELSE [st |-> "ok",
           bz |-> SubSeq([i \in 1..(size - n) |-> 0] \o written, 1, n)]

-----------------------------------------------------------------------------
(* External: a field of another schema, as the generated code of its sender *)
(* writes it: a list of tags, each with the value of its wire type.  It is  *)
(* one of them, or a group, that is, all from a start of group to its end.  *)

Token(num, type, value) == [num |-> num, type |-> type, value |-> value]

Payload_Marshal(t) ==
  IF t.type = 0 THEN encodeVarint(t.value[1])
  ELSE IF t.type = 2 THEN encodeVarint(Len(t.value)) \o t.value
  ELSE t.value
Token_Marshal(t) == encodeVarint(8 * t.num + t.type) \o Payload_Marshal(t)

Tokens_Marshal(tokens) ==
  LET written[k \in 0..Len(tokens)] ==
        IF k = 0 THEN <<>> ELSE written[k - 1] \o Token_Marshal(tokens[k])
  IN written[Len(tokens)]

\* The numbers that a tag can give, and the values of each wire type.
FieldNums == 1..(Pow2[FieldNumBits - 1] - 1)
ValuesOf(type) ==
  IF type = 0 THEN [1..1 -> Word]
  ELSE IF type = 2 THEN {bz \in Strings : Fits(bz)}
  ELSE IF type \in {3, 4} THEN {<<>>}
  ELSE [1..(IF type = 1 THEN 8 ELSE 4) -> Byte]
Tokens == {t \in [num : FieldNums, type : 0..5, value : Seq(Nat)] : t.value \in ValuesOf(t.type)}

\* How many groups more are open after a tag than before it.
Opened(type) == IF type = 3 THEN 1 ELSE IF type = 4 THEN -1 ELSE 0

\* Only after the last tag is every group closed that was opened.
IsWireField(tokens) ==
  /\ tokens \in Seq(Tokens) /\ tokens # <<>>
  /\ \E depth \in [0..Len(tokens) -> 0..Len(tokens)] :
       /\ depth[0] = 0
       /\ \A k \in 1..Len(tokens) :
            /\ depth[k] = depth[k - 1] + Opened(tokens[k].type)
            /\ (depth[k] = 0) <=> (k = Len(tokens))

-----------------------------------------------------------------------------
(* Reading.                                                                *)

Failed(st) == [st |-> st, i |-> 0, v |-> 0]

\* The varint loop: `for shift := uint(0); ; shift += 7`.  Bits shifted out of
\* the word are lost without an error.
decodeVarint(dAtA, iNdEx) ==
  LET rounds == {k \in 0..((WordBits - 1) \div 7) : iNdEx + k < Len(dAtA)}
      last   == Min({k \in rounds : dAtA[iNdEx + k + 1] < 128})
      value[k \in 0..last] ==
        (IF k = 0 THEN 0 ELSE value[k - 1]) + (dAtA[iNdEx + k + 1] % 128) * Pow2[7 * k]
  IN IF iNdEx < 0 THEN Failed("panic")
     ELSE IF \A k \in rounds : dAtA[iNdEx + k + 1] >= 128 THEN Failed("err")
     ELSE [st |-> "ok", i |-> iNdEx + last + 1, v |-> value[last] % Pow2[WordBits]]

\* Mutant of lengthPrefix: the checks for a negative length and index left out.
lengthPrefixUnchecked(dAtA, iNdEx) ==
  LET Checked(n, postIndex) ==
        IF n.st # "ok" THEN n
        ELSE IF postIndex > Len(dAtA) THEN Failed("err")
        ELSE [n EXCEPT !.v = postIndex]
      End(n) == Checked(n, Int64(n.i + Int64(n.v)))
  IN End(decodeVarint(dAtA, iNdEx))

\* Mutant of lengthPrefix: a field that the input ends in is read as far as it goes.
lengthPrefixShortRead(dAtA, iNdEx) ==
  LET n         == decodeVarint(dAtA, iNdEx)
      length    == Int64(n.v)
      postIndex == Int64(n.i + length)
  IN IF n.st # "ok" THEN n
     ELSE IF length < 0 \/ postIndex < 0 THEN Failed("err")
     ELSE IF postIndex > Len(dAtA) THEN [n EXCEPT !.v = Len(dAtA)]
     ELSE [n EXCEPT !.v = postIndex]

\* The length of a string, message or custom-type field and the end of its
\* bytes, with the code's three checks: v is where the bytes end.
lengthPrefix(dAtA, iNdEx) ==
  LET Checked(n, length, postIndex) ==
        IF n.st # "ok" THEN n
        ELSE IF length < 0 \/ postIndex < 0 \/ postIndex > Len(dAtA) THEN Failed("err")
        ELSE [n EXCEPT !.v = postIndex]
      End(n) == Checked(n, Int64(n.v), Int64(n.i + Int64(n.v)))
  IN End(decodeVarint(dAtA, iNdEx))

\* dAtA[a:b]; the runtime panics when the bounds are not 0 <= a <= b <= len.
InRange(dAtA, a, b) == 0 <= a /\ a <= b /\ b <= Len(dAtA)
Slice(dAtA, a, b) == SubSeq(dAtA, a + 1, b)

\* Mutant of openGroup: a group inside a group is not counted.
openGroupFlat(depth) == 1

\* case 3: depth++.
openGroup(depth) == depth + 1

\* One iteration of skipTx from iNdEx with `depth` groups open: v is the new
\* depth.  End of group may bring it back to zero, any other wire type keeps it.
skipOne(dAtA, iNdEx, depth) ==
  LET \* the payload's end, before the code's check for a negative index
      Ends(i) == IF i < 0 THEN Failed("err") ELSE [st |-> "ok", i |-> i, v |-> depth]
      Varint(val) == IF val.st = "ok" THEN Ends(val.i) ELSE val
      Bytes(val) == IF val.st # "ok" THEN val
                    ELSE IF Int64(val.v) < 0 THEN Failed("err")
                    ELSE Ends(Int64(val.i + Int64(val.v)))
      Payload(i, type) ==
        IF type = 0 THEN Varint(decodeVarint(dAtA, i))
        ELSE IF type = 1 THEN Ends(Int64(i + 8))
        ELSE IF type = 2 THEN Bytes(decodeVarint(dAtA, i))
        ELSE IF type = 3 THEN [st |-> "ok", i |-> i, v |-> openGroup(depth)]
        ELSE IF type = 4 /\ depth # 0 THEN [st |-> "ok", i |-> i, v |-> depth - 1]
        ELSE IF type = 5 THEN Ends(Int64(i + 4))
        ELSE Failed("err")
      Tagged(wire) == IF wire.st = "ok" THEN Payload(wire.i, wire.v % 8) ELSE wire
  IN Tagged(decodeVarint(dAtA, iNdEx))

\* skipTx: from a tag to the end of its field, a group counting as one field
\* (k > 1 /\ s.v = 0: the iteration before has closed the last group).
\* The bytes may be short of the end it returns, which the caller checks.  An
\* iteration reads a tag, so there are at most as many as there are bytes.
\* TLC evaluates them one inside the other, so eight are tried first: none changes
\* the state that the last one left.
skip(dAtA) ==
  LET after[k \in 0..Len(dAtA)] ==
        IF k = 0 THEN [st |-> "ok", i |-> 0, v |-> 0]
        ELSE LET s == after[k - 1]
             IN IF s.st # "ok" \/ (k > 1 /\ s.v = 0) THEN s
                ELSE IF s.i >= Len(dAtA) THEN Failed("err")
                ELSE skipOne(dAtA, s.i, s.v)
      Closed(end) ==
        IF end.st = "ok" /\ (end.v # 0 \/ end.i = 0) THEN Failed("err") ELSE end
      End(first, states) ==
        IF first.st # "ok" \/ first.v = 0 THEN first ELSE states[Len(dAtA)]
      From(states) == Closed(End(states[Min({8, Len(dAtA)})], states))
  IN From(after)

-----------------------------------------------------------------------------
(* The cases of an Unmarshal's switch.  `at` is where the loop stands: the *)
(* bytes, preIndex, and the index, the number and the wire type that the   *)
(* tag gave.  Each returns the status, the next index and the message.     *)

Stop(m, st) == [st |-> st, i |-> 0, m |-> m]
Read(m, i) == [st |-> "ok", i |-> i, m |-> m]

\* case n: the bytes of a length-delimited field, from iNdEx to postIndex.
fieldBytes(at) ==
  LET Bytes(end) ==
        IF at.type # 2 THEN Stop(<<>>, "err")
        ELSE IF end.st # "ok" THEN Stop(<<>>, end.st)
        ELSE IF ~InRange(at.dAtA, end.i, end.v) THEN Stop(<<>>, "panic")
        ELSE Read(Slice(at.dAtA, end.i, end.v), end.v)
  IN Bytes(lengthPrefix(at.dAtA, at.i))

\* Mutant of Uint64Field: the field is not reset before its bits are set.
Uint64FieldNoReset(m, name, at) ==
  LET n == decodeVarint(at.dAtA, at.i)
  IN IF at.type # 0 THEN Stop(m, "err")
     ELSE IF n.st # "ok" THEN Stop(m, n.st)
     ELSE Read([m EXCEPT ![name] = @ + n.v], n.i)

\* A uint64: m.Count = 0 before the loop, so the last occurrence wins.
Uint64Field(m, name, at) ==
  LET Into(n) == IF at.type # 0 THEN Stop(m, "err")
                 ELSE IF n.st # "ok" THEN Stop(m, n.st)
                 ELSE Read([m EXCEPT ![name] = n.v], n.i)
  IN Into(decodeVarint(at.dAtA, at.i))

\* default: skip the field from preIndex.
SkipField(m, at) ==
  LET Past(skippy, end) ==
        IF skippy.st # "ok" THEN Stop(m, skippy.st)
        ELSE IF skippy.i < 0 \/ end < 0 \/ end > Len(at.dAtA) THEN Stop(m, "err")
        ELSE Read(m, end)
      From(skippy) == Past(skippy, Int64(at.pre + skippy.i))
  IN From(skip(Slice(at.dAtA, at.pre, Len(at.dAtA))))

\* One round of Unmarshal up to its switch: where it stands after the tag.
readTag(dAtA, iNdEx) ==
  LET At(wire, wireType, fieldNum) ==
        [st   |-> IF wire.st = "ok" /\ (wireType = 4 \/ fieldNum <= 0) THEN "err" ELSE wire.st,
         dAtA |-> dAtA, pre |-> iNdEx, i |-> wire.i, type |-> wireType, num |-> fieldNum]
      Tagged(wire) == At(wire, wire.v % 8, Signed(wire.v \div 8, FieldNumBits))
  IN Tagged(decodeVarint(dAtA, iNdEx))

-----------------------------------------------------------------------------
(* Unmarshal of a message whose switch has a case for each of `fields`:    *)
(* fields[n] is case n, and its kind the code generated for that type.     *)

Field(kind, name, fields, zero) == [kind |-> kind, name |-> name, fields |-> fields, zero |-> zero]
String(name) == Field("string", name, <<>>, Nil)
Uint64(name) == Field("uint64", name, <<>>, Nil)
Number(name) == Field("number", name, <<>>, Nil)
Message(name, fields) == Field("message", name, fields, Nil)
Repeated(name, fields, zero) == Field("repeated", name, fields, zero)

\* The kinds that hold no message.
decodeScalar(field, old, bz) ==
  IF field.kind = "string" THEN [st |-> "ok", m |-> bz] ELSE Number_Unmarshal(old, bz)

\* What the field becomes, and whether its own decoder accepts the bytes.  A
\* message is decoded into the one that is there, a repeated one into an empty
\* one that was appended.
decodeField(Embedded(_, _, _), field, old, bz) ==
  LET appended == field.kind = "repeated"
      Into(new) == IF appended THEN [st |-> new.st, m |-> Append(old, new.m)] ELSE new
  IN IF field.kind \in {"message", "repeated"}
     THEN Into(Embedded(field.fields, IF appended THEN field.zero ELSE old, bz))
     ELSE decodeScalar(field, old, bz)

\* case n of a field that is length-delimited.
BytesField(decode(_, _, _), m, field, at) ==
  LET Into(new, i) == IF new.st = "ok" THEN Read([m EXCEPT ![field.name] = new.m], i)
                                       ELSE Stop(m, new.st)
      From(bz) == IF bz.st = "ok" THEN Into(decode(field, m[field.name], bz.m), bz.i)
                                  ELSE Stop(m, bz.st)
  IN From(fieldBytes(at))

\* switch fieldNum.
switchField(decode(_, _, _), fields, m, at) ==
  IF at.st # "ok" THEN Stop(m, at.st)
  ELSE IF at.num \notin DOMAIN fields THEN SkipField(m, at)
  ELSE IF fields[at.num].kind = "uint64" THEN Uint64Field(m, fields[at.num].name, at)
  ELSE BytesField(decode, m, fields[at.num], at)

\* `for iNdEx < l`: a field has two bytes or more, so bytes left over after
\* half as many iterations mean that one of them consumed less.  As in skip, eight
\* are tried first.
UnmarshalFields(decode(_, _, _), fields, m0, dAtA) ==
  LET rounds == (Len(dAtA) + 1) \div 2
      Step(s) == IF s.st = "ok" /\ s.i < Len(dAtA)
                 THEN switchField(decode, fields, s.m, readTag(dAtA, s.i)) ELSE s
      after[k \in 0..rounds] == IF k = 0 THEN Read(m0, 0) ELSE Step(after[k - 1])
      IsLast(s) == s.st # "ok" \/ s.i >= Len(dAtA)
      Result(end) == [st |-> IF end.st # "ok" THEN end.st
                             ELSE IF end.i < Len(dAtA) THEN "loop"
                             ELSE IF end.i > Len(dAtA) THEN "err"
                             ELSE "ok",
                      m  |-> end.m]
      End(first, states) == IF IsLast(first) THEN first ELSE states[rounds]
      From(states) == Result(End(states[Min({8, rounds})], states))
  IN From(after)

\* Unmarshal of a message that embeds none, of one that embeds such messages,
\* and of one that embeds those: no message of the program goes deeper.
Unmarshal0(fields, m0, dAtA) == UnmarshalFields(decodeScalar, fields, m0, dAtA)

decodeField1(field, old, bz) == decodeField(Unmarshal0, field, old, bz)
Unmarshal1(fields, m0, dAtA) == UnmarshalFields(decodeField1, fields, m0, dAtA)

decodeField2(field, old, bz) == decodeField(Unmarshal1, field, old, bz)
Unmarshal(fields, m0, dAtA) == UnmarshalFields(decodeField2, fields, m0, dAtA)
=============================================================================
