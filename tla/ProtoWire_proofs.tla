-------------------------- MODULE ProtoWire_proofs --------------------------
(***************************************************************************)
(* Proofs about ProtoWire.                                                 *)
(***************************************************************************)
EXTENDS ProtoWire, FiniteSums_proofs, SequenceTheorems

\* Counting up reaches every number.
LEMMA CountUp ==
  ASSUME NEW n \in Nat, NEW P, 0 \in P, \A k \in 0..(n - 1) : k \in P => k + 1 \in P
  PROVE  \A k \in 0..n : k \in P
<1>. DEFINE Bad == {k \in 0..n : k \notin P}
<1>1. SUFFICES ASSUME Bad # {} PROVE FALSE
  OBVIOUS
<1>2. PICK k \in Bad : \A j \in Bad : k <= j
  <2>1. Bad \in SUBSET Nat
    OBVIOUS
  <2>. HIDE DEF Bad
  <2>. QED  BY <2>1, <1>1, LeastNat
<1>3. k \in 1..n /\ k - 1 \in 0..(n - 1) /\ (k - 1) + 1 = k
  BY <1>2
<1>4. k - 1 \notin Bad
  BY <1>2, <1>3
<1>5. k - 1 \in P
  BY <1>3, <1>4
<1>6. k \in P
  BY <1>3, <1>5
<1>. QED  BY <1>2, <1>6

\* A loop of n iterations, the k-th of which takes a state s of S to F[k][s].
IsLoop(n, S, s0, F) == n \in Nat /\ s0 \in S /\ \A k \in 1..n : \A s \in S : F[k][s] \in S

\* The states it goes through.
IsRun(n, S, s0, F, f) ==
  /\ f \in [0..n -> S]
  /\ f[0] = s0
  /\ \A k \in 1..n : f[k] = F[k][f[k - 1]]

\* Every loop has a run.
LEMMA LoopExists ==
  ASSUME NEW n, NEW S, NEW s0, NEW F, IsLoop(n, S, s0, F)
  PROVE  \E f : IsRun(n, S, s0, F, f)
<1>. USE DEF IsLoop
<1>. DEFINE Runs(m, f) == f[0] = s0 /\ \A k \in 1..m : f[k] = F[k][f[k - 1]]
            P == {m \in 0..n : \E f \in [0..m -> S] : Runs(m, f)}
<1>1. 0 \in P
  <2>. DEFINE f == [k \in 0..0 |-> s0]
  <2>1. f \in [0..0 -> S] /\ Runs(0, f)
    OBVIOUS
  <2>2. 0 \in 0..n
    OBVIOUS
  <2>. HIDE DEF f, Runs
  <2>. QED  BY <2>1, <2>2
<1>2. ASSUME NEW m \in 0..(n - 1), m \in P PROVE m + 1 \in P
  <2>1. PICK f \in [0..m -> S] : Runs(m, f)
    BY <1>2
  <2>. DEFINE g == [k \in 0..(m + 1) |-> IF k = m + 1 THEN F[m + 1][f[m]] ELSE f[k]]
  <2>2. F[m + 1][f[m]] \in S
    OBVIOUS
  <2>3. g \in [0..(m + 1) -> S]
    BY <2>2
  <2>4. g[0] = s0
    BY <2>1
  <2>5. ASSUME NEW k \in 1..(m + 1) PROVE g[k] = F[k][g[k - 1]]
    <3>1. CASE k = m + 1
      BY <3>1
    <3>2. CASE k \in 1..m
      <4>1. g[k] = f[k] /\ g[k - 1] = f[k - 1]
        BY <3>2
      <4>2. f[k] = F[k][f[k - 1]]
        BY <3>2, <2>1
      <4>. QED  BY <4>1, <4>2
    <3>. QED  BY <3>1, <3>2
  <2>6. Runs(m + 1, g)
    BY <2>4, <2>5
  <2>7. m + 1 \in 0..n
    OBVIOUS
  <2>. HIDE DEF Runs, g
  <2>. QED  BY <2>3, <2>6, <2>7
<1>3. n \in P
  <2>. HIDE DEF P
  <2>. QED  BY <1>1, <1>2, CountUp
<1>. QED  BY <1>3 DEF IsRun

-----------------------------------------------------------------------------
(* Powers of two and integers of a width.                                  *)

LEMMA Widths == /\ WordBits \in Nat /\ FieldNumBits \in Nat
                /\ 4 < FieldNumBits /\ FieldNumBits + 3 < WordBits
BY WidthAssumption

LEMMA ByteIsNat == \A b \in Byte : b \in Nat
BY DEF Byte

LEMMA Powers ==
  /\ Pow2[0] = 1
  /\ \A k \in 0..(WordBits + 6) : Pow2[k] \in Nat \ {0}
  /\ \A k \in 0..(WordBits + 5) : Pow2[k + 1] = 2 * Pow2[k]
<1>. DEFINE n == WordBits + 6
            Solves(p) == p = [k \in 0..n |-> IF k = 0 THEN 1 ELSE 2 * p[k - 1]]
            power == CHOOSE p : Solves(p)
            F == [k \in 1..n |-> [s \in Nat |-> 2 * s]]
<1>1. n \in Nat
  BY Widths
<1>2. \E f : Solves(f)
  <2>1. /\ \A k \in 1..n : \A s \in Nat : F[k][s] = 2 * s
        /\ \A k \in 1..n : \A s \in Nat : F[k][s] \in Nat
    OBVIOUS
  <2>. HIDE DEF F, n
  <2>2. PICK f : IsRun(n, Nat, 1, F, f)
    <3>1. IsLoop(n, Nat, 1, F)
      BY <1>1, <2>1 DEF IsLoop
    <3>. QED  BY <3>1, LoopExists
  <2>3. ASSUME NEW k \in 1..n PROVE f[k] = 2 * f[k - 1]
    <3>1. k - 1 \in 0..n
      BY <1>1
    <3>2. f[k - 1] \in Nat
      BY <3>1, <2>2 DEF IsRun
    <3>. QED  BY <2>1, <2>2, <3>2 DEF IsRun
  <2>4. Solves(f)
    BY <1>1, <2>2, <2>3 DEF IsRun
  <2>. QED  BY <2>4
<1>3. Solves(power)
  BY <1>2
<1>4. Pow2 = [k \in 0..n |-> power[k]]
  BY DEF Pow2
<1>. HIDE DEF power, n
<1>5. power[0] = 1 /\ \A k \in 0..(n - 1) : power[k + 1] = 2 * power[k]
  BY <1>1, <1>3
<1>6. \A k \in 0..n : power[k] \in Nat \ {0}
  <2>. DEFINE P == {k \in 0..n : power[k] \in Nat \ {0}}
  <2>1. 0 \in P
    BY <1>1, <1>5
  <2>2. \A k \in 0..(n - 1) : k \in P => k + 1 \in P
    BY <1>1, <1>5
  <2>. HIDE DEF P
  <2>3. \A k \in 0..n : k \in P
    BY <1>1, <2>1, <2>2, CountUp
  <2>. QED  BY <2>3 DEF P
<1>. QED  BY <1>1, <1>4, <1>5, <1>6, Widths DEF n

\* Half of the values of an int are not negative.
Half == Pow2[WordBits - 1]

LEMMA HalfFacts == /\ Half \in Nat \ {0} /\ Pow2[WordBits] = 2 * Half
                   /\ Pow2[WordBits] \in Nat \ {0}
                   /\ 16 <= Half
<1>1. WordBits - 1 \in 0..(WordBits + 5) /\ (WordBits - 1) + 1 = WordBits
      /\ WordBits \in 0..(WordBits + 6) /\ WordBits - 1 \in 0..(WordBits + 6)
  BY Widths
<1>2. Half \in Nat \ {0} /\ Pow2[WordBits] = 2 * Half /\ Pow2[WordBits] \in Nat \ {0}
  BY <1>1, Powers DEF Half
<1>3. \A k \in 4..(WordBits - 1) : 16 <= Pow2[k]
  <2>1. Pow2[1] = 2 /\ Pow2[2] = 4 /\ Pow2[3] = 8 /\ Pow2[4] = 16
    <3>1. /\ Pow2[0 + 1] = 2 * Pow2[0] /\ Pow2[1 + 1] = 2 * Pow2[1]
          /\ Pow2[2 + 1] = 2 * Pow2[2] /\ Pow2[3 + 1] = 2 * Pow2[3]
      BY Powers, Widths
    <3>. QED  BY <3>1, Powers
  <2>. DEFINE P == {k \in 0..(WordBits - 1) : k >= 4 => 16 <= Pow2[k]}
  <2>2. 0 \in P
    BY Widths
  <2>3. ASSUME NEW k \in 0..((WordBits - 1) - 1), k \in P PROVE k + 1 \in P
    <3>1. k \in 0..(WordBits + 5) /\ Pow2[k] \in Nat /\ Pow2[k + 1] = 2 * Pow2[k]
          /\ k + 1 \in 0..(WordBits - 1)
      BY Powers, Widths
    <3>2. CASE k + 1 = 4
      BY <3>1, <3>2, <2>1
    <3>3. CASE k >= 4
      BY <3>1, <3>3, <2>3
    <3>4. CASE k + 1 < 4
      BY <3>1, <3>4
    <3>. QED  BY <3>1, <3>2, <3>3, <3>4
  <2>4. WordBits - 1 \in Nat
    BY Widths
  <2>. HIDE DEF P
  <2>5. \A k \in 0..(WordBits - 1) : k \in P
    BY <2>2, <2>3, <2>4, CountUp
  <2>. QED  BY <2>5, Widths DEF P
<1>. QED  BY <1>2, <1>3, Widths DEF Half

\* An int keeps the numbers that fit and makes the next as many negative.
LEMMA Int64Facts ==
  ASSUME NEW n \in Int
  PROVE  /\ Int64(n) \in (-Half)..(Half - 1)
         /\ 0 <= n /\ n < Half => Int64(n) = n
         /\ Half <= n /\ n < 2 * Half => Int64(n) < 0
<1>. DEFINE H == Pow2[WordBits - 1]
            M == Pow2[WordBits]
<1>1. H \in Nat \ {0} /\ M = 2 * H /\ Half = H
  BY HalfFacts DEF Half
<1>2. Int64(n) = ((n + H) % M) - H
  BY DEF Int64, Signed
<1>. HIDE DEF H, M
<1>3. (n + H) % M \in 0..(M - 1)
  BY <1>1
<1>4. ASSUME 0 <= n, n < H PROVE (n + H) % M = n + H
  BY <1>1, <1>4
<1>5. ASSUME H <= n, n < 2 * H PROVE (n + H) % M = n - H
  BY <1>1, <1>5
<1>. QED  BY <1>1, <1>2, <1>3, <1>4, <1>5

-----------------------------------------------------------------------------
(* Reading.                                                                *)

\* What reading from index i of dAtA gives when it cannot panic: an error, or an
\* index behind i.
Outcome == [st : {"ok", "err"}, i : Nat, v : Nat]
Reads(n, first, dAtA) ==
  /\ n \in Outcome
  /\ n.st = "ok" => n.i \in first..Len(dAtA) /\ n.v \in Word

\* The varint loop that finds its last byte after n others: the sum it returns.
IsVarint(dAtA, iNdEx, n) ==
  /\ n \in 0..((WordBits - 1) \div 7) /\ iNdEx + n < Len(dAtA)
  /\ \A k \in 0..(n - 1) : dAtA[iNdEx + k + 1] >= 128
  /\ dAtA[iNdEx + n + 1] < 128

IsVarintSum(dAtA, iNdEx, n, value) ==
  LET term(k) == (dAtA[iNdEx + k + 1] % 128) * Pow2[7 * k]
  IN /\ value[0] = term(0)
     /\ \A k \in 0..(n - 1) : value[k + 1] = value[k] + term(k + 1)
     /\ \A k \in 0..n : value[k] \in Nat

LEMMA VarintSum ==
  ASSUME NEW dAtA \in Seq(Byte), NEW iNdEx \in Nat, NEW n \in Nat, IsVarint(dAtA, iNdEx, n)
  PROVE  \E value :
           /\ IsVarintSum(dAtA, iNdEx, n, value)
           /\ decodeVarint(dAtA, iNdEx) =
                [st |-> "ok", i |-> iNdEx + n + 1, v |-> value[n] % Pow2[WordBits]]
<1>. DEFINE rounds == {k \in 0..((WordBits - 1) \div 7) : iNdEx + k < Len(dAtA)}
            ends == {k \in rounds : dAtA[iNdEx + k + 1] < 128}
            last == Min(ends)
            term(k) == (dAtA[iNdEx + k + 1] % 128) * Pow2[7 * k]
            Solves(f, l) == f = [k \in 0..l |-> (IF k = 0 THEN 0 ELSE f[k - 1]) + term(k)]
            value(l) == CHOOSE f : Solves(f, l)
            F == [k \in 1..n |-> [s \in Nat |-> s + term(k)]]
<1>1. decodeVarint(dAtA, iNdEx) =
        IF iNdEx < 0 THEN Failed("panic")
        ELSE IF \A k \in rounds : dAtA[iNdEx + k + 1] >= 128 THEN Failed("err")
        ELSE [st |-> "ok", i |-> iNdEx + last + 1, v |-> value(last)[last] % Pow2[WordBits]]
  BY Zenon DEF decodeVarint
<1>2. \A k \in rounds : /\ k \in Nat /\ 7 * k \in 0..(WordBits + 6) /\ iNdEx + k + 1 \in 1..Len(dAtA)
                        /\ dAtA[iNdEx + k + 1] \in Nat
  <2>. SUFFICES ASSUME NEW k \in rounds
                PROVE  /\ k \in Nat /\ 7 * k \in 0..(WordBits + 6) /\ iNdEx + k + 1 \in 1..Len(dAtA)
                       /\ dAtA[iNdEx + k + 1] \in Nat
    OBVIOUS
  <2>1. k \in Nat /\ 7 * k \in 0..(WordBits + 6) /\ iNdEx + k + 1 \in 1..Len(dAtA)
    BY Widths
  <2>. HIDE DEF rounds
  <2>2. dAtA[iNdEx + k + 1] \in Byte
    BY <2>1
  <2>3. dAtA[iNdEx + k + 1] \in Nat
    BY <2>2, ByteIsNat, Zenon
  <2>. QED  BY <2>1, <2>3, Zenon
<1>3. n \in rounds /\ dAtA[iNdEx + n + 1] < 128 /\ \A k \in 0..n : k \in rounds
  BY Widths DEF IsVarint
<1>4. last = n
  <2>1. n \in ends
    BY <1>3
  <2>2. \A k \in ends : n <= k
    <3>1. ASSUME NEW k \in ends, ~ (n <= k) PROVE FALSE
      <4>1. k \in Nat /\ k \in 0..(n - 1) /\ dAtA[iNdEx + k + 1] < 128 /\ dAtA[iNdEx + k + 1] \in Nat
        BY <1>2, <3>1
      <4>2. dAtA[iNdEx + k + 1] >= 128
        BY <4>1 DEF IsVarint
      <4>. QED  BY <4>1, <4>2
    <3>. QED  BY <3>1
  <2>3. ends \in SUBSET Nat
    BY <1>2
  <2>4. \A k \in ends : (\A j \in ends : k <= j) => k = n
    <3>. HIDE DEF ends
    <3>. QED  BY <2>1, <2>2, <2>3
  <2>. HIDE DEF ends
  <2>. QED  BY <2>1, <2>2, <2>4 DEF Min
<1>5. decodeVarint(dAtA, iNdEx) =
        [st |-> "ok", i |-> iNdEx + n + 1, v |-> value(n)[n] % Pow2[WordBits]]
  <2>1. ~ (iNdEx < 0)
    OBVIOUS
  <2>2. ~ \A k \in rounds : dAtA[iNdEx + k + 1] >= 128
    <3>1. ~ (dAtA[iNdEx + n + 1] >= 128)
      BY <1>2, <1>3
    <3>. QED  BY <1>3, <3>1
  <2>. HIDE DEF last, value, rounds
  <2>. QED  BY <1>1, <1>4, <2>1, <2>2, Zenon
<1>6. \A k \in 0..n : term(k) \in Nat
  <2>. SUFFICES ASSUME NEW k \in 0..n PROVE term(k) \in Nat
    OBVIOUS
  <2>1. k \in rounds
    BY <1>3
  <2>. HIDE DEF rounds
  <2>2. Pow2[7 * k] \in Nat
    BY <1>2, <2>1, Powers
  <2>3. dAtA[iNdEx + k + 1] \in Nat
    BY <1>2, <2>1, Zenon
  <2>4. dAtA[iNdEx + k + 1] % 128 \in Nat
    BY <2>3
  <2>. QED  BY <2>2, <2>4
<1>. HIDE DEF last, term, rounds
<1>7. \E f : Solves(f, n)
  <2>1. /\ \A k \in 1..n : \A s \in Nat : F[k][s] = s + term(k)
        /\ \A k \in 1..n : \A s \in Nat : F[k][s] \in Nat
    BY <1>6
  <2>. HIDE DEF F
  <2>2. term(0) \in Nat
    BY <1>6
  <2>3. IsLoop(n, Nat, term(0), F)
    BY <2>1, <2>2 DEF IsLoop
  <2>4. PICK f : IsRun(n, Nat, term(0), F, f)
    BY <2>3, LoopExists
  <2>5. ASSUME NEW k \in 1..n PROVE f[k] = f[k - 1] + term(k)
    <3>1. f[k - 1] \in Nat
      BY <2>4 DEF IsRun
    <3>. QED  BY <2>1, <2>4, <3>1 DEF IsRun
  <2>6. Solves(f, n)
    BY <2>2, <2>4, <2>5 DEF IsRun
  <2>. QED  BY <2>6
<1>. DEFINE sum == value(n)
<1>8. Solves(sum, n)
  BY <1>7
<1>. HIDE DEF value
<1>. HIDE DEF sum
<1>9. sum[0] = term(0)
  BY <1>6, <1>8
<1>10. ASSUME NEW k \in 0..(n - 1) PROVE sum[k + 1] = sum[k] + term(k + 1)
  <2>1. k + 1 \in 0..n /\ k + 1 # 0 /\ (k + 1) - 1 = k
    OBVIOUS
  <2>. QED  BY <1>8, <2>1
<1>. HIDE DEF Solves
<1>11. \A k \in 0..n : sum[k] \in Nat
  <2>. DEFINE P == {k \in 0..n : sum[k] \in Nat}
  <2>1. 0 \in P
    BY <1>6, <1>9
  <2>2. ASSUME NEW k \in 0..(n - 1), k \in P PROVE k + 1 \in P
    BY <1>6, <1>10, <2>2
  <2>. HIDE DEF P
  <2>3. \A k \in 0..n : k \in P
    BY <2>1, <2>2, CountUp
  <2>. QED  BY <2>3 DEF P
<1>12. IsVarintSum(dAtA, iNdEx, n, sum)
  BY <1>9, <1>10, <1>11 DEF IsVarintSum, term
<1>. QED  BY <1>5, <1>12 DEF sum

LEMMA VarintReads ==
  ASSUME NEW dAtA \in Seq(Byte), NEW iNdEx \in Nat
  PROVE  Reads(decodeVarint(dAtA, iNdEx), iNdEx + 1, dAtA)
<1>. DEFINE rounds == {k \in 0..((WordBits - 1) \div 7) : iNdEx + k < Len(dAtA)}
            ends == {k \in rounds : dAtA[iNdEx + k + 1] < 128}
<1>1. CASE \A k \in rounds : dAtA[iNdEx + k + 1] >= 128
  <2>1. decodeVarint(dAtA, iNdEx) = Failed("err")
    <3>1. ~ (iNdEx < 0)
      OBVIOUS
    <3>. QED  BY <1>1, <3>1, Zenon DEF decodeVarint
  <2>. QED  BY <2>1 DEF Reads, Failed, Outcome
<1>2. CASE ~ \A k \in rounds : dAtA[iNdEx + k + 1] >= 128
  <2>1. ASSUME NEW k \in rounds
        PROVE  k \in Nat /\ iNdEx + k + 1 \in 1..Len(dAtA) /\ dAtA[iNdEx + k + 1] \in Nat
    <3>1. k \in Nat /\ iNdEx + k + 1 \in 1..Len(dAtA)
      BY Widths
    <3>. HIDE DEF rounds
    <3>2. dAtA[iNdEx + k + 1] \in Byte
      BY <3>1
    <3>. QED  BY <3>1, <3>2, ByteIsNat, Zenon
  <2>2. ends # {} /\ ends \in SUBSET Nat
    <3>1. PICK k \in rounds : ~ (dAtA[iNdEx + k + 1] >= 128)
      BY <1>2
    <3>2. dAtA[iNdEx + k + 1] \in Nat
      BY <2>1, Zenon
    <3>3. k \in ends
      BY <3>1, <3>2
    <3>. QED  BY <2>1, <3>3
  <2>3. PICK n \in ends : \A k \in ends : n <= k
    <3>. HIDE DEF ends
    <3>. QED  BY <2>2, LeastNat
  <2>4. n \in Nat /\ n \in 0..((WordBits - 1) \div 7) /\ iNdEx + n < Len(dAtA)
    BY <2>1
  <2>5. ASSUME NEW k \in 0..(n - 1) PROVE dAtA[iNdEx + k + 1] >= 128
    <3>1. k \in rounds /\ ~ (n <= k)
      BY <2>4, Widths
    <3>2. dAtA[iNdEx + k + 1] \in Nat
      BY <2>1, <3>1
    <3>3. ~ (dAtA[iNdEx + k + 1] < 128)
      BY <2>3, <3>1
    <3>. QED  BY <3>2, <3>3
  <2>6. IsVarint(dAtA, iNdEx, n)
    BY <2>3, <2>4, <2>5 DEF IsVarint
  <2>. HIDE DEF ends, rounds
  <2>7. PICK value :
          /\ IsVarintSum(dAtA, iNdEx, n, value)
          /\ decodeVarint(dAtA, iNdEx) =
               [st |-> "ok", i |-> iNdEx + n + 1, v |-> value[n] % Pow2[WordBits]]
    BY <2>4, <2>6, VarintSum
  <2>8. value[n] \in Nat
    BY <2>4, <2>7 DEF IsVarintSum
  <2>9. value[n] % Pow2[WordBits] \in Word /\ value[n] % Pow2[WordBits] \in Nat
    BY <2>8, HalfFacts DEF Word
  <2>10. iNdEx + n + 1 \in (iNdEx + 1)..Len(dAtA) /\ iNdEx + n + 1 \in Nat
    BY <2>4
  <2>. QED  BY <2>7, <2>9, <2>10 DEF Reads, Outcome
<1>. QED  BY <1>1, <1>2

LEMMA Int64Range ==
  ASSUME NEW n \in Int
  PROVE  Int64(n) \in Int /\ Int64(n) < Half
<1>1. Half \in Nat /\ Int64(n) \in (-Half)..(Half - 1)
  BY HalfFacts, Int64Facts
<1>. QED  BY <1>1

\* An int that a sum of two lengths overflows is negative.
LEMMA SumOfLengths ==
  ASSUME NEW a \in Nat, NEW b \in Nat, a + b < 2 * Half, 0 <= Int64(a + b)
  PROVE  Int64(a + b) = a + b /\ a + b < Half
<1>1. a + b \in Int /\ Half \in Nat
  BY HalfFacts
<1>2. a + b < Half
  BY <1>1, Int64Facts
<1>. QED  BY <1>1, <1>2, Int64Facts

Buffers == {bz \in Seq(Byte) : Fits(bz)}

LEMMA BufferFacts ==
  ASSUME NEW dAtA \in Buffers
  PROVE  dAtA \in Seq(Byte) /\ Len(dAtA) \in Nat /\ Len(dAtA) < Half
BY DEF Buffers, Fits, Half

LEMMA PrefixReads ==
  ASSUME NEW dAtA \in Buffers, NEW iNdEx \in Nat
  PROVE  /\ lengthPrefix(dAtA, iNdEx) \in Outcome
         /\ lengthPrefix(dAtA, iNdEx).st = "ok" =>
              /\ lengthPrefix(dAtA, iNdEx).i \in (iNdEx + 1)..Len(dAtA)
              /\ lengthPrefix(dAtA, iNdEx).v \in lengthPrefix(dAtA, iNdEx).i..Len(dAtA)
<1>1. PICK n : n = decodeVarint(dAtA, iNdEx)
  OBVIOUS
<1>2. dAtA \in Seq(Byte) /\ Len(dAtA) \in Nat /\ Len(dAtA) < Half
  BY BufferFacts
<1>3. Reads(n, iNdEx + 1, dAtA)
  BY <1>1, <1>2, VarintReads
<1>4. PICK length : length = Int64(n.v)
  OBVIOUS
<1>5. PICK postIndex : postIndex = Int64(n.i + length)
  OBVIOUS
<1>6. lengthPrefix(dAtA, iNdEx) =
        IF n.st # "ok" THEN n
        ELSE IF length < 0 \/ postIndex < 0 \/ postIndex > Len(dAtA) THEN Failed("err")
        ELSE [n EXCEPT !.v = postIndex]
  BY <1>1, <1>4, <1>5 DEF lengthPrefix
<1>7. Failed("err") \in Outcome /\ Failed("err").st = "err"
  BY DEF Failed, Outcome
<1>8. CASE n.st # "ok"
  BY <1>3, <1>6, <1>8 DEF Reads
<1>9. CASE n.st = "ok" /\ (length < 0 \/ postIndex < 0 \/ postIndex > Len(dAtA))
  BY <1>6, <1>7, <1>9
<1>10. CASE n.st = "ok" /\ ~ (length < 0 \/ postIndex < 0 \/ postIndex > Len(dAtA))
  <2>1. n \in Outcome /\ n.i \in (iNdEx + 1)..Len(dAtA) /\ n.v \in Nat /\ n.i \in Nat
    BY <1>3, <1>10 DEF Reads, Outcome
  <2>2. length \in Int /\ length < Half
    <3>1. n.v \in Int
      BY <2>1
    <3>2. Int64(n.v) \in Int /\ Int64(n.v) < Half
      BY <3>1, Int64Range
    <3>. QED  BY <1>4, <3>2
  <2>3. length \in Nat
    BY <1>10, <2>2
  <2>4. n.i + length \in Int /\ n.i + length < 2 * Half
    BY <1>2, <2>1, <2>2, <2>3, HalfFacts
  <2>5. postIndex \in Int
    BY <1>5, <2>4, Int64Range
  <2>6. 0 <= postIndex /\ postIndex <= Len(dAtA)
    BY <1>2, <1>10, <2>5
  <2>7. postIndex = n.i + length
    BY <1>5, <2>1, <2>3, <2>4, <2>6, SumOfLengths
  <2>8. postIndex \in n.i..Len(dAtA) /\ postIndex \in Nat
    BY <2>1, <2>3, <2>6, <2>7
  <2>9. lengthPrefix(dAtA, iNdEx) = [n EXCEPT !.v = postIndex]
    BY <1>6, <1>10
  <2>. QED  BY <2>1, <2>8, <2>9 DEF Outcome
<1>. QED  BY <1>8, <1>9, <1>10

LEMMA SubSeqFacts ==
  ASSUME NEW S, NEW s \in Seq(S), NEW a \in Nat, NEW b \in Nat, a <= b, b <= Len(s)
  PROVE  SubSeq(s, a + 1, b) \in Seq(S) /\ Len(SubSeq(s, a + 1, b)) = b - a
<1>. DEFINE t == SubSeq(s, a + 1, b)
<1>1. t = [i \in 1..(b - a) |-> s[(a + 1) + i - 1]]
  BY DEF t
<1>2. \A i \in 1..(b - a) : (a + 1) + i - 1 \in 1..Len(s)
  OBVIOUS
<1>3. \A i \in 1..(b - a) : s[(a + 1) + i - 1] \in S
  BY <1>2
<1>4. b - a \in Nat
  OBVIOUS
<1>. HIDE DEF t
<1>. QED  BY <1>1, <1>3, <1>4

\* A part of a buffer is a buffer.
LEMMA SliceFacts ==
  ASSUME NEW dAtA \in Buffers, NEW a \in Nat, NEW b \in Nat, a <= b, b <= Len(dAtA)
  PROVE  Slice(dAtA, a, b) \in Buffers /\ Len(Slice(dAtA, a, b)) = b - a
<1>1. dAtA \in Seq(Byte) /\ Len(dAtA) \in Nat /\ Len(dAtA) < Half
  BY BufferFacts
<1>2. Slice(dAtA, a, b) \in Seq(Byte) /\ Len(Slice(dAtA, a, b)) = b - a
  BY <1>1, SubSeqFacts DEF Slice
<1>3. b - a < Half
  BY <1>1, HalfFacts
<1>. QED  BY <1>2, <1>3 DEF Buffers, Fits, Half

\* What the runtime would refuse, an index outside the buffer, does not occur.
LEMMA FieldBytesReads ==
  ASSUME NEW at, at.dAtA \in Buffers, at.i \in Nat
  PROVE  LET r == fieldBytes(at)
         IN /\ r.st \in {"ok", "err"}
            /\ r.st = "ok" => r.i \in (at.i + 1)..Len(at.dAtA) /\ r.m \in Buffers
<1>1. PICK end : end = lengthPrefix(at.dAtA, at.i)
  OBVIOUS
<1>2. PICK bz : bz = Slice(at.dAtA, end.i, end.v)
  OBVIOUS
<1>3. /\ end \in Outcome
      /\ end.st = "ok" => end.i \in (at.i + 1)..Len(at.dAtA) /\ end.v \in end.i..Len(at.dAtA)
  BY <1>1, PrefixReads
<1>4. Len(at.dAtA) \in Nat
  BY BufferFacts
<1>5. end.st = "ok" => InRange(at.dAtA, end.i, end.v) /\ bz \in Buffers
                         /\ end.v \in (at.i + 1)..Len(at.dAtA)
  <2>. SUFFICES ASSUME end.st = "ok"
                PROVE  InRange(at.dAtA, end.i, end.v) /\ bz \in Buffers
                         /\ end.v \in (at.i + 1)..Len(at.dAtA)
    OBVIOUS
  <2>1. /\ end.i \in Nat /\ end.v \in Nat /\ end.i <= end.v /\ end.v <= Len(at.dAtA)
        /\ end.v \in (at.i + 1)..Len(at.dAtA)
    BY <1>3, <1>4
  <2>2. InRange(at.dAtA, end.i, end.v)
    BY <1>4, <2>1 DEF InRange
  <2>3. bz \in Buffers
    BY <1>2, <2>1, SliceFacts
  <2>. QED  BY <2>1, <2>2, <2>3
<1>6. fieldBytes(at) =
        IF at.type # 2 THEN Stop(<<>>, "err")
        ELSE IF end.st # "ok" THEN Stop(<<>>, end.st)
        ELSE IF ~InRange(at.dAtA, end.i, end.v) THEN Stop(<<>>, "panic")
        ELSE Read(bz, end.v)
  BY <1>1, <1>2 DEF fieldBytes
<1>7. CASE at.type # 2
  BY <1>6, <1>7 DEF Stop
<1>8. CASE at.type = 2 /\ end.st # "ok"
  BY <1>3, <1>6, <1>8 DEF Stop, Outcome
<1>9. CASE at.type = 2 /\ end.st = "ok"
  BY <1>5, <1>6, <1>9 DEF Read
<1>. QED  BY <1>7, <1>8, <1>9

\* The next index of a skipped payload that is `length` bytes long.
LEMMA EndFacts ==
  ASSUME NEW i \in Nat, NEW length \in Nat, i < Half, length < Half \/ length <= 16,
         0 <= Int64(i + length)
  PROVE  Int64(i + length) = i + length /\ i + length < Half
<1>1. i + length < 2 * Half
  BY HalfFacts
<1>. QED  BY <1>1, SumOfLengths

\* One iteration of skipTx reads at least a tag, and more when it ends a field
\* that is not a group.
LEMMA SkipOneAdvances ==
  ASSUME NEW dAtA \in Buffers, NEW iNdEx \in Nat, NEW depth \in Nat
  PROVE  LET r == skipOne(dAtA, iNdEx, depth)
         IN /\ r \in Outcome
            /\ r.st = "ok" => /\ iNdEx + 1 <= r.i /\ r.i < Half
                              /\ depth = 0 /\ r.v = 0 => iNdEx + 2 <= r.i
<1>. DEFINE r == skipOne(dAtA, iNdEx, depth)
            Good == /\ r \in Outcome
                    /\ r.st = "ok" => /\ iNdEx + 1 <= r.i /\ r.i < Half
                                      /\ depth = 0 /\ r.v = 0 => iNdEx + 2 <= r.i
            Ends(i) == IF i < 0 THEN Failed("err") ELSE [st |-> "ok", i |-> i, v |-> depth]
<1>. SUFFICES Good
  OBVIOUS
<1>1. PICK wire : wire = decodeVarint(dAtA, iNdEx)
  OBVIOUS
<1>2. PICK val : val = decodeVarint(dAtA, wire.i)
  OBVIOUS
<1>3. PICK type : type = wire.v % 8
  OBVIOUS
<1>4. PICK length : length = Int64(val.v)
  OBVIOUS
<1>5. r = IF wire.st = "ok"
          THEN IF type = 0 THEN (IF val.st = "ok" THEN Ends(val.i) ELSE val)
               ELSE IF type = 1 THEN Ends(Int64(wire.i + 8))
               ELSE IF type = 2 THEN (IF val.st # "ok" THEN val
                                      ELSE IF length < 0 THEN Failed("err")
                                      ELSE Ends(Int64(val.i + length)))
               ELSE IF type = 3 THEN [st |-> "ok", i |-> wire.i, v |-> depth + 1]
               ELSE IF type = 4 /\ depth # 0 THEN [st |-> "ok", i |-> wire.i, v |-> depth - 1]
               ELSE IF type = 5 THEN Ends(Int64(wire.i + 4))
               ELSE Failed("err")
          ELSE wire
  BY <1>1, <1>2, <1>3, <1>4 DEF skipOne, openGroup
<1>6. dAtA \in Seq(Byte) /\ Len(dAtA) \in Nat /\ Len(dAtA) < Half /\ Half \in Nat
  BY BufferFacts, HalfFacts
<1>7. Reads(wire, iNdEx + 1, dAtA)
  BY <1>1, <1>6, VarintReads
<1>8. r = Failed("err") => Good
  BY DEF Failed, Outcome
<1>9. ASSUME NEW i \in Int, iNdEx + 2 <= i, i < Half, r = Ends(i) PROVE Good
  <2>1. r = [st |-> "ok", i |-> i, v |-> depth] /\ i \in Nat
    BY <1>9
  <2>. QED  BY <1>9, <2>1 DEF Outcome
<1>10. ASSUME NEW i \in Int, i < 0, r = Ends(i) PROVE Good
  BY <1>8, <1>10
<1>11. CASE wire.st # "ok"
  <2>1. r = wire
    BY <1>5, <1>11
  <2>. QED  BY <1>7, <1>11, <2>1 DEF Reads
<1>12. CASE wire.st = "ok"
  <2>1. wire.i \in Nat /\ iNdEx + 1 <= wire.i /\ wire.i <= Len(dAtA) /\ wire.i < Half
    BY <1>6, <1>7, <1>12 DEF Reads
  <2>2. Reads(val, wire.i + 1, dAtA)
    BY <1>2, <1>6, <2>1, VarintReads
  <2>3. val \in Outcome
    BY <2>2 DEF Reads
  <2>4. val.st = "ok" => val.i \in Nat /\ wire.i + 1 <= val.i /\ val.i < Half /\ val.v \in Int
    BY <1>6, <2>1, <2>2 DEF Reads, Outcome
  <2>5. val.st # "ok" /\ r = val => Good
    BY <2>3
  <2>6. ASSUME NEW i \in Nat, NEW len \in Nat, wire.i <= i, i < Half, len < Half \/ len <= 16,
               i > wire.i \/ len > 0, r = Ends(Int64(i + len))
        PROVE  Good
    <3>1. Int64(i + len) \in Int
      BY Int64Range
    <3>2. CASE Int64(i + len) < 0
      BY <1>10, <2>6, <3>1, <3>2
    <3>3. CASE 0 <= Int64(i + len)
      <4>1. Int64(i + len) = i + len /\ i + len < Half
        BY <2>6, <3>3, EndFacts
      <4>2. iNdEx + 2 <= i + len
        BY <2>1, <2>6
      <4>. QED  BY <1>9, <2>6, <3>1, <4>1, <4>2
    <3>. QED  BY <3>1, <3>2, <3>3
  <2>. HIDE DEF r, Good, Ends
  <2>7. CASE type = 0
    <3>1. CASE val.st = "ok"
      <4>1. r = Ends(val.i)
        BY <1>5, <1>12, <2>7, <3>1
      <4>2. val.i \in Int /\ iNdEx + 2 <= val.i /\ val.i < Half
        BY <2>1, <2>4, <3>1
      <4>. QED  BY <1>9, <4>1, <4>2
    <3>2. CASE val.st # "ok"
      <4>1. r = val
        BY <1>5, <1>12, <2>7, <3>2
      <4>. QED  BY <2>5, <3>2, <4>1
    <3>. QED  BY <3>1, <3>2
  <2>8. CASE type = 1
    <3>1. r = Ends(Int64(wire.i + 8))
      BY <1>5, <1>12, <2>8
    <3>. QED  BY <2>1, <2>6, <3>1
  <2>9. CASE type = 2
    <3>1. CASE val.st # "ok"
      <4>1. r = val
        BY <1>5, <1>12, <2>9, <3>1
      <4>. QED  BY <2>5, <3>1, <4>1
    <3>2. CASE val.st = "ok" /\ length < 0
      <4>1. r = Failed("err")
        BY <1>5, <1>12, <2>9, <3>2
      <4>. QED  BY <1>8, <4>1
    <3>3. CASE val.st = "ok" /\ ~ (length < 0)
      <4>1. r = Ends(Int64(val.i + length))
        BY <1>5, <1>12, <2>9, <3>3
      <4>2. length \in Int /\ length < Half
        BY <1>4, <2>4, <3>3, Int64Range
      <4>3. length \in Nat /\ length < Half
        BY <3>3, <4>2
      <4>4. val.i \in Nat /\ wire.i <= val.i /\ val.i < Half /\ val.i > wire.i
        BY <2>1, <2>4, <3>3
      <4>. QED  BY <2>6, <4>1, <4>3, <4>4
    <3>. QED  BY <3>1, <3>2, <3>3
  <2>10. CASE type = 3
    <3>1. r = [st |-> "ok", i |-> wire.i, v |-> depth + 1]
      BY <1>5, <1>12, <2>10
    <3>. QED  BY <2>1, <3>1 DEF Good, Outcome
  <2>11. CASE type = 4 /\ depth # 0
    <3>1. r = [st |-> "ok", i |-> wire.i, v |-> depth - 1]
      BY <1>5, <1>12, <2>11
    <3>. QED  BY <2>1, <2>11, <3>1 DEF Good, Outcome
  <2>12. CASE type = 5
    <3>1. r = Ends(Int64(wire.i + 4))
      BY <1>5, <1>12, <2>12
    <3>. QED  BY <2>1, <2>6, <3>1
  <2>13. CASE type \notin {0, 1, 2, 3, 5} /\ ~ (type = 4 /\ depth # 0)
    <3>1. r = Failed("err")
      BY <1>5, <1>12, <2>13
    <3>. QED  BY <1>8, <3>1
  <2>. QED  BY <2>7, <2>8, <2>9, <2>10, <2>11, <2>12, <2>13
<1>. QED  BY <1>11, <1>12

\* The first rounds are tried before the rest.
LEMMA FirstRounds ==
  ASSUME NEW n \in Nat
  PROVE  Min({8, n}) \in 0..n /\ (Min({8, n}) > 0 \/ n = 0)
<1>1. \E k \in {8, n} : \A j \in {8, n} : k <= j
  BY DEF Min
<1>2. Min({8, n}) \in {8, n} /\ \A j \in {8, n} : Min({8, n}) <= j
  BY <1>1 DEF Min
<1>. QED  BY <1>2

\* One iteration of skipTx, the k-th.
SkipStep(dAtA, k, s) == IF s.st # "ok" \/ (k > 1 /\ s.v = 0) THEN s
                        ELSE IF s.i >= Len(dAtA) THEN Failed("err")
                        ELSE skipOne(dAtA, s.i, s.v)

\* What the iterations go through, and the one whose result is returned.
IsSkipRun(dAtA, after, out) ==
  /\ after[0] = [st |-> "ok", i |-> 0, v |-> 0]
  /\ \A k \in 0..(Len(dAtA) - 1) : after[k + 1] = SkipStep(dAtA, k + 1, after[k])
  /\ \E k \in 0..Len(dAtA) :
       /\ k = Len(dAtA) \/ (k > 0 /\ (after[k].st # "ok" \/ after[k].v = 0))
       /\ out = IF after[k].st = "ok" /\ (after[k].v # 0 \/ after[k].i = 0)
                THEN Failed("err") ELSE after[k]

LEMMA SkipRuns ==
  ASSUME NEW dAtA \in Buffers
  PROVE  \E after : IsSkipRun(dAtA, after, skip(dAtA))
<1>. DEFINE n == Len(dAtA)
            start == [st |-> "ok", i |-> 0, v |-> 0]
            Step(k, s) == IF s.st # "ok" \/ (k > 1 /\ s.v = 0) THEN s
                          ELSE IF s.i >= Len(dAtA) THEN Failed("err")
                          ELSE skipOne(dAtA, s.i, s.v)
            Solves(f) == f = [k \in 0..n |-> IF k = 0 THEN start ELSE Step(k, f[k - 1])]
            after == CHOOSE f : Solves(f)
            first == after[Min({8, n})]
            end == IF first.st # "ok" \/ first.v = 0 THEN first ELSE after[n]
            F == [k \in 1..n |-> [s \in Outcome |-> Step(k, s)]]
<1>1. skip(dAtA) =
        IF end.st = "ok" /\ (end.v # 0 \/ end.i = 0) THEN Failed("err") ELSE end
  BY Zenon DEF skip
<1>2. n \in Nat
  BY BufferFacts
<1>3. start \in Outcome /\ Failed("err") \in Outcome
  BY DEF Failed, Outcome
<1>4. \A k \in 1..n : \A s \in Outcome : Step(k, s) \in Outcome
  <2>. SUFFICES ASSUME NEW k \in 1..n, NEW s \in Outcome PROVE Step(k, s) \in Outcome
    OBVIOUS
  <2>1. s.i \in Nat /\ s.v \in Nat
    BY DEF Outcome
  <2>2. skipOne(dAtA, s.i, s.v) \in Outcome
    BY <2>1, SkipOneAdvances
  <2>. QED  BY <1>3, <2>2
<1>5. \A k, s : SkipStep(dAtA, k, s) = Step(k, s)
  BY DEF SkipStep
<1>. HIDE DEF n, start
<1>6. Solves(after)
  <2>1. /\ \A k \in 1..n : \A s \in Outcome : F[k][s] = Step(k, s)
        /\ \A k \in 1..n : \A s \in Outcome : F[k][s] \in Outcome
    BY <1>4
  <2>. HIDE DEF F, Step
  <2>2. IsLoop(n, Outcome, start, F)
    BY <1>2, <1>3, <2>1 DEF IsLoop
  <2>3. PICK f : IsRun(n, Outcome, start, F, f)
    BY <2>2, LoopExists
  <2>4. ASSUME NEW k \in 1..n PROVE f[k] = Step(k, f[k - 1])
    <3>1. f[k - 1] \in Outcome
      BY <1>2, <2>3 DEF IsRun
    <3>. QED  BY <2>1, <2>3, <3>1 DEF IsRun
  <2>5. Solves(f)
    BY <1>2, <2>3, <2>4 DEF IsRun
  <2>. HIDE DEF Solves
  <2>. QED  BY <2>5
<1>. HIDE DEF after
<1>7. after[0] = start /\ \A k \in 0..(n - 1) : after[k + 1] = Step(k + 1, after[k])
  <2>. HIDE DEF Step
  <2>1. after[0] = start
    BY <1>2, <1>6
  <2>2. ASSUME NEW k \in 0..(n - 1) PROVE after[k + 1] = Step(k + 1, after[k])
    <3>1. k + 1 \in 0..n /\ k + 1 # 0 /\ (k + 1) - 1 = k
      BY <1>2
    <3>. QED  BY <1>6, <3>1
  <2>. QED  BY <2>1, <2>2
<1>8. \E k \in 0..n : /\ k = n \/ (k > 0 /\ (after[k].st # "ok" \/ after[k].v = 0))
                      /\ end = after[k]
  <2>1. PICK k \in 0..n : k = Min({8, n}) /\ (k > 0 \/ k = n)
    <3>1. Min({8, n}) \in 0..n /\ (Min({8, n}) > 0 \/ n = 0)
      BY <1>2, FirstRounds
    <3>. QED  BY <1>2, <3>1
  <2>2. CASE first.st # "ok" \/ first.v = 0
    BY <2>1, <2>2
  <2>3. CASE ~ (first.st # "ok" \/ first.v = 0)
    BY <1>2, <2>3
  <2>. QED  BY <2>2, <2>3
<1>. HIDE DEF end
<1>9. PICK k \in 0..n : /\ k = n \/ (k > 0 /\ (after[k].st # "ok" \/ after[k].v = 0))
                        /\ end = after[k]
  BY <1>8
<1>. HIDE DEF Step
<1>10. IsSkipRun(dAtA, after, skip(dAtA))
  <2>1. \A l \in 0..(Len(dAtA) - 1) : after[l + 1] = SkipStep(dAtA, l + 1, after[l])
    BY <1>5, <1>7 DEF n
  <2>2. after[0] = [st |-> "ok", i |-> 0, v |-> 0]
    BY <1>7 DEF start
  <2>. QED  BY <1>1, <1>9, <2>1, <2>2 DEF IsSkipRun, n
<1>. QED  BY <1>10

\* skipTx accepts a field of at least two bytes.
LEMMA SkipAdvances ==
  ASSUME NEW dAtA \in Buffers
  PROVE  LET r == skip(dAtA)
         IN r \in Outcome /\ (r.st = "ok" => 2 <= r.i /\ r.i < Half)
<1>. DEFINE Inv(k, s) == /\ s \in Outcome
                         /\ s.st = "ok" => /\ s.i < Half
                                           /\ k = 0 => s.i = 0 /\ s.v = 0
                                           /\ k > 0 => 1 <= s.i /\ (s.v = 0 => 2 <= s.i)
<1>1. PICK after : IsSkipRun(dAtA, after, skip(dAtA))
  BY SkipRuns
<1>2. PICK n \in Nat : n = Len(dAtA)
  BY BufferFacts
<1>3. Failed("err") \in Outcome /\ Failed("err").st = "err"
  BY DEF Failed, Outcome
<1>4. \A k \in 0..n : Inv(k, after[k])
  <2>. DEFINE P == {k \in 0..n : Inv(k, after[k])}
  <2>1. 0 \in P
    <3>1. PICK start : start = [st |-> "ok", i |-> 0, v |-> 0]
      OBVIOUS
    <3>2. start \in Outcome /\ start.i = 0 /\ start.v = 0
      BY <3>1 DEF Outcome
    <3>3. Inv(0, start)
      BY <3>2, HalfFacts
    <3>. QED  BY <1>1, <3>1, <3>3 DEF IsSkipRun
  <2>2. ASSUME NEW k \in 0..(n - 1), k \in P PROVE k + 1 \in P
    <3>1. PICK s : s = after[k]
      OBVIOUS
    <3>2. Inv(k, s) /\ after[k + 1] = SkipStep(dAtA, k + 1, s)
      BY <1>1, <1>2, <2>2, <3>1 DEF IsSkipRun
    <3>3. s.i \in Nat /\ s.v \in Nat /\ s.st \in {"ok", "err"} /\ s \in Outcome
      BY <3>2 DEF Outcome
    <3>4. k \in Nat /\ k + 1 \in 0..n
      OBVIOUS
    <3>5. Inv(k + 1, SkipStep(dAtA, k + 1, s))
      <4>1. CASE s.st # "ok" \/ (k + 1 > 1 /\ s.v = 0)
        <5>1. SkipStep(dAtA, k + 1, s) = s
          BY <4>1 DEF SkipStep
        <5>. QED  BY <3>2, <3>4, <4>1, <5>1
      <4>2. CASE ~ (s.st # "ok" \/ (k + 1 > 1 /\ s.v = 0)) /\ s.i >= Len(dAtA)
        <5>1. SkipStep(dAtA, k + 1, s) = Failed("err")
          BY <4>2 DEF SkipStep
        <5>. QED  BY <1>3, <5>1
      <4>3. CASE ~ (s.st # "ok" \/ (k + 1 > 1 /\ s.v = 0)) /\ ~ (s.i >= Len(dAtA))
        <5>1. PICK r : r = skipOne(dAtA, s.i, s.v)
          OBVIOUS
        <5>2. SkipStep(dAtA, k + 1, s) = r
          BY <4>3, <5>1 DEF SkipStep
        <5>3. /\ r \in Outcome
              /\ r.st = "ok" => /\ s.i + 1 <= r.i /\ r.i < Half
                                /\ s.v = 0 /\ r.v = 0 => s.i + 2 <= r.i
          BY <3>3, <5>1, SkipOneAdvances
        <5>4. r.i \in Nat
          BY <5>3 DEF Outcome
        <5>5. k > 0 => 1 <= s.i
          BY <3>2, <4>3
        <5>6. k = 0 => s.i = 0 /\ s.v = 0
          BY <3>2, <4>3
        <5>7. Inv(k + 1, r)
          BY <3>3, <3>4, <5>3, <5>4, <5>5, <5>6
        <5>. QED  BY <5>2, <5>7
      <4>. QED  BY <4>1, <4>2, <4>3
    <3>. HIDE DEF Inv
    <3>. QED  BY <3>2, <3>4, <3>5
  <2>. HIDE DEF P
  <2>3. \A k \in 0..n : k \in P
    BY <2>1, <2>2, CountUp
  <2>. QED  BY <2>3 DEF P
<1>5. PICK k \in 0..n :
        skip(dAtA) = IF after[k].st = "ok" /\ (after[k].v # 0 \/ after[k].i = 0)
                     THEN Failed("err") ELSE after[k]
  BY <1>1, <1>2 DEF IsSkipRun
<1>6. PICK end : end = after[k]
  OBVIOUS
<1>7. Inv(k, end)
  BY <1>4, <1>6
<1>8. CASE end.st = "ok" /\ (end.v # 0 \/ end.i = 0)
  BY <1>3, <1>5, <1>6, <1>8
<1>9. CASE ~ (end.st = "ok" /\ (end.v # 0 \/ end.i = 0))
  <2>1. skip(dAtA) = end
    BY <1>5, <1>6, <1>9
  <2>. QED  BY <1>7, <1>9, <2>1 DEF Outcome
<1>. QED  BY <1>8, <1>9

-----------------------------------------------------------------------------
(* The cases of a switch, for messages of a set M.                         *)

Results(M) == [st : {"ok", "err"}, i : Nat, m : M]

\* A case that reads a field from pre on: an error, or a message of M and an index
\* that is at least two bytes further and still within the buffer.
Advances(r, M, dAtA, pre) ==
  /\ r \in Results(M)
  /\ r.st = "ok" => r.i \in (pre + 2)..Len(dAtA)

\* Where the loop stands after a tag that was read from pre on.
Stands(at, dAtA, pre) ==
  /\ at.st \in {"ok", "err"} /\ at.dAtA = dAtA /\ at.pre = pre
  /\ at.st = "ok" => at.i \in (pre + 1)..Len(dAtA)

LEMMA StopAdvances ==
  ASSUME NEW M, NEW m \in M, NEW dAtA, NEW pre, NEW st, st = "err"
  PROVE  Advances(Stop(m, st), M, dAtA, pre)
BY DEF Advances, Results, Stop

LEMMA ReadAdvances ==
  ASSUME NEW M, NEW m \in M, NEW dAtA \in Buffers, NEW pre \in Nat, NEW i, i \in (pre + 2)..Len(dAtA)
  PROVE  Advances(Read(m, i), M, dAtA, pre)
<1>1. i \in Nat
  BY BufferFacts
<1>. QED  BY <1>1 DEF Advances, Results, Read

LEMMA ReadTagStands ==
  ASSUME NEW dAtA \in Buffers, NEW pre \in Nat
  PROVE  Stands(readTag(dAtA, pre), dAtA, pre)
<1>1. PICK wire : wire = decodeVarint(dAtA, pre)
  OBVIOUS
<1>2. PICK fieldNum : fieldNum = Signed(wire.v \div 8, FieldNumBits)
  OBVIOUS
<1>3. readTag(dAtA, pre) =
        [st   |-> IF wire.st = "ok" /\ (wire.v % 8 = 4 \/ fieldNum <= 0) THEN "err" ELSE wire.st,
         dAtA |-> dAtA, pre |-> pre, i |-> wire.i, type |-> wire.v % 8, num |-> fieldNum]
  BY <1>1, <1>2 DEF readTag
<1>4. Reads(wire, pre + 1, dAtA)
  BY <1>1, BufferFacts, VarintReads
<1>. QED  BY <1>3, <1>4 DEF Stands, Reads, Outcome

LEMMA SkipFieldAdvances ==
  ASSUME NEW dAtA \in Buffers, NEW pre \in Nat, pre < Len(dAtA), NEW at, Stands(at, dAtA, pre),
         NEW M, NEW m \in M
  PROVE  Advances(SkipField(m, at), M, dAtA, pre)
<1>. DEFINE skippy == skip(Slice(at.dAtA, at.pre, Len(at.dAtA)))
            end == Int64(at.pre + skippy.i)
<1>1. Len(dAtA) \in Nat /\ Len(dAtA) < Half
  BY BufferFacts
<1>2. at.dAtA = dAtA /\ at.pre = pre
  BY DEF Stands
<1>3. Slice(at.dAtA, at.pre, Len(at.dAtA)) \in Buffers
  BY <1>1, <1>2, SliceFacts
<1>4. skippy \in Outcome /\ (skippy.st = "ok" => 2 <= skippy.i /\ skippy.i < Half)
  BY <1>3, SkipAdvances
<1>5. SkipField(m, at) =
        IF skippy.st # "ok" THEN Stop(m, skippy.st)
        ELSE IF skippy.i < 0 \/ end < 0 \/ end > Len(dAtA) THEN Stop(m, "err")
        ELSE Read(m, end)
  BY <1>2 DEF SkipField
<1>. HIDE DEF skippy
<1>6. CASE skippy.st # "ok"
  BY <1>4, <1>5, <1>6, StopAdvances DEF Outcome
<1>7. CASE skippy.st = "ok" /\ (skippy.i < 0 \/ end < 0 \/ end > Len(dAtA))
  BY <1>5, <1>7, StopAdvances
<1>8. CASE skippy.st = "ok" /\ ~ (skippy.i < 0 \/ end < 0 \/ end > Len(dAtA))
  <2>1. skippy.i \in Nat
    BY <1>4 DEF Outcome
  <2>2. end \in Int
    BY <1>2, <2>1, Int64Range
  <2>3. 0 <= end /\ end <= Len(dAtA)
    BY <1>1, <1>8, <2>2
  <2>4. end = pre + skippy.i
    <3>1. pre < Half /\ skippy.i < Half
      BY <1>1, <1>4, <1>8, HalfFacts
    <3>2. 0 <= Int64(pre + skippy.i)
      BY <1>2, <2>3
    <3>. QED  BY <1>2, <2>1, <3>1, <3>2, EndFacts
  <2>5. end \in (pre + 2)..Len(dAtA)
    BY <1>1, <1>4, <1>8, <2>1, <2>3, <2>4
  <2>6. SkipField(m, at) = Read(m, end)
    BY <1>5, <1>8
  <2>. QED  BY <2>5, <2>6, ReadAdvances
<1>. QED  BY <1>6, <1>7, <1>8

LEMMA Uint64FieldAdvances ==
  ASSUME NEW dAtA \in Buffers, NEW pre \in Nat, NEW at, Stands(at, dAtA, pre), at.st = "ok",
         NEW M, NEW m \in M, NEW name, \A v \in Word : [m EXCEPT ![name] = v] \in M
  PROVE  Advances(Uint64Field(m, name, at), M, dAtA, pre)
<1>1. PICK n : n = decodeVarint(at.dAtA, at.i)
  OBVIOUS
<1>2. at.dAtA = dAtA /\ at.i \in (pre + 1)..Len(dAtA) /\ Len(dAtA) \in Nat /\ at.i \in Nat
  BY BufferFacts DEF Stands
<1>3. Reads(n, at.i + 1, dAtA)
  BY <1>1, <1>2, BufferFacts, VarintReads
<1>4. Uint64Field(m, name, at) =
        IF at.type # 0 THEN Stop(m, "err")
        ELSE IF n.st # "ok" THEN Stop(m, n.st)
        ELSE Read([m EXCEPT ![name] = n.v], n.i)
  BY <1>1 DEF Uint64Field
<1>5. CASE at.type # 0
  BY <1>4, <1>5, StopAdvances
<1>6. CASE at.type = 0 /\ n.st # "ok"
  BY <1>3, <1>4, <1>6, StopAdvances DEF Reads, Outcome
<1>7. CASE at.type = 0 /\ n.st = "ok"
  <2>1. n.i \in (pre + 2)..Len(dAtA) /\ n.v \in Word
    BY <1>2, <1>3, <1>7 DEF Reads
  <2>2. [m EXCEPT ![name] = n.v] \in M
    BY <2>1
  <2>3. Uint64Field(m, name, at) = Read([m EXCEPT ![name] = n.v], n.i)
    BY <1>4, <1>7
  <2>. QED  BY <2>1, <2>2, <2>3, ReadAdvances
<1>. QED  BY <1>5, <1>6, <1>7

\* What a field's decoder makes of its bytes: an error, or a value that the
\* message m can take.
Accepts(M, m, name, new) ==
  /\ new.st \in {"ok", "err"}
  /\ new.st = "ok" => [m EXCEPT ![name] = new.m] \in M

LEMMA BytesAdvance ==
  ASSUME NEW dAtA \in Buffers, NEW pre \in Nat, NEW at, Stands(at, dAtA, pre), at.st = "ok",
         NEW M, NEW m \in M, NEW name, NEW bz, bz = fieldBytes(at),
         NEW new, bz.st = "ok" /\ bz.m \in Buffers => Accepts(M, m, name, new),
         NEW r, r = IF bz.st = "ok"
                    THEN IF new.st = "ok" THEN Read([m EXCEPT ![name] = new.m], bz.i)
                                          ELSE Stop(m, new.st)
                    ELSE Stop(m, bz.st)
  PROVE  Advances(r, M, dAtA, pre)
<1>1. at.dAtA = dAtA /\ at.i \in (pre + 1)..Len(dAtA) /\ Len(dAtA) \in Nat /\ at.i \in Nat
  BY BufferFacts DEF Stands
<1>2. /\ bz.st \in {"ok", "err"}
      /\ bz.st = "ok" => bz.i \in (at.i + 1)..Len(dAtA) /\ bz.m \in Buffers
  BY <1>1, FieldBytesReads
<1>3. CASE bz.st # "ok"
  BY <1>2, <1>3, StopAdvances
<1>4. CASE bz.st = "ok" /\ new.st # "ok"
  BY <1>2, <1>4, StopAdvances DEF Accepts
<1>5. CASE bz.st = "ok" /\ new.st = "ok"
  <2>1. [m EXCEPT ![name] = new.m] \in M
    BY <1>2, <1>5 DEF Accepts
  <2>2. bz.i \in (pre + 2)..Len(dAtA)
    BY <1>1, <1>2, <1>5
  <2>. QED  BY <1>5, <2>1, <2>2, ReadAdvances
<1>. QED  BY <1>3, <1>4, <1>5

-----------------------------------------------------------------------------
(* The loop over the fields.                                               *)

\* One iteration takes a state s to T[s].
Moves(T, M, dAtA) ==
  \A s \in Results(M) :
    IF s.st = "ok" /\ s.i < Len(dAtA) THEN Advances(T[s], M, dAtA, s.i) ELSE T[s] = s

Rounds(dAtA) == (Len(dAtA) + 1) \div 2

\* The loop starts with m0, is at after[k] after k iterations, and out is what is
\* returned when it has ended.
IsUnmarshal(T, M, m0, dAtA, after, out) ==
  /\ Moves(T, M, dAtA)
  /\ after[0] = Read(m0, 0)
  /\ \A k \in 0..(Rounds(dAtA) - 1) : after[k] \in Results(M) => after[k + 1] = T[after[k]]
  /\ \E k \in 0..Rounds(dAtA) :
       /\ k = Rounds(dAtA) \/ after[k].st # "ok" \/ after[k].i >= Len(dAtA)
       /\ out = [st |-> IF after[k].st # "ok" THEN after[k].st
                        ELSE IF after[k].i < Len(dAtA) THEN "loop"
                        ELSE IF after[k].i > Len(dAtA) THEN "err"
                        ELSE "ok",
                 m  |-> after[k].m]

\* The states that n iterations from m0 go through.
IsMovesRun(f, T, M, m0, n) ==
  /\ f \in [0..n -> Results(M)]
  /\ f[0] = Read(m0, 0)
  /\ \A k \in 1..n : f[k] = T[f[k - 1]]

LEMMA MovesRun ==
  ASSUME NEW M, NEW m0 \in M, NEW dAtA \in Buffers, NEW T, Moves(T, M, dAtA), NEW n \in Nat
  PROVE  \E f : IsMovesRun(f, T, M, m0, n)
<1>. DEFINE F == [k \in 1..n |-> T]
<1>1. Read(m0, 0) \in Results(M)
  BY DEF Read, Results
<1>2. \A s \in Results(M) : T[s] \in Results(M)
  BY DEF Moves, Advances
<1>3. \A k \in 1..n : F[k] = T
  OBVIOUS
<1>. HIDE DEF F
<1>4. IsLoop(n, Results(M), Read(m0, 0), F)
  BY <1>1, <1>2, <1>3 DEF IsLoop
<1>5. PICK f : IsRun(n, Results(M), Read(m0, 0), F, f)
  BY <1>4, LoopExists
<1>6. IsMovesRun(f, T, M, m0, n)
  BY <1>3, <1>5 DEF IsRun, IsMovesRun
<1>. QED  BY <1>6

\* An iteration uses up two bytes or more, if there are bytes left.
LEMMA MovesOn ==
  ASSUME NEW M, NEW m0 \in M, NEW dAtA \in Buffers, NEW T, NEW after, NEW out,
         IsUnmarshal(T, M, m0, dAtA, after, out)
  PROVE  /\ Rounds(dAtA) \in Nat /\ Len(dAtA) <= 2 * Rounds(dAtA)
         /\ \A k \in 0..Rounds(dAtA) :
              /\ after[k] \in Results(M)
              /\ after[k].st = "ok" =>
                   after[k].i <= Len(dAtA) /\ (2 * k <= after[k].i \/ after[k].i = Len(dAtA))
<1>. DEFINE n == Rounds(dAtA)
            Inv(k, s) == /\ s \in Results(M)
                         /\ s.st = "ok" => s.i <= Len(dAtA) /\ (2 * k <= s.i \/ s.i = Len(dAtA))
            P == {k \in 0..n : Inv(k, after[k])}
<1>1. Len(dAtA) \in Nat /\ n \in Nat /\ Len(dAtA) <= 2 * n
  BY BufferFacts DEF Rounds
<1>2. /\ after[0] = Read(m0, 0) /\ Moves(T, M, dAtA)
      /\ \A k \in 0..(n - 1) : after[k] \in Results(M) => after[k + 1] = T[after[k]]
  BY DEF IsUnmarshal
<1>. HIDE DEF n
<1>3. 0 \in P
  <2>1. after[0] \in Results(M) /\ after[0].i = 0
    BY <1>2 DEF Read, Results
  <2>. QED  BY <1>1, <2>1
<1>4. ASSUME NEW k \in 0..(n - 1), k \in P PROVE k + 1 \in P
  <2>1. PICK s : s = after[k]
    OBVIOUS
  <2>2. Inv(k, s) /\ s.i \in Nat /\ k \in Nat /\ k + 1 \in 0..n
    BY <1>1, <1>4, <2>1 DEF Results
  <2>3. after[k + 1] = T[s]
    BY <1>2, <2>1, <2>2
  <2>4. Inv(k + 1, T[s])
    <3>1. CASE s.st = "ok" /\ s.i < Len(dAtA)
      <4>1. Advances(T[s], M, dAtA, s.i)
        BY <1>2, <2>2, <3>1 DEF Moves
      <4>2. T[s] \in Results(M) /\ (T[s].st = "ok" => T[s].i \in (s.i + 2)..Len(dAtA))
        BY <4>1 DEF Advances
      <4>3. 2 * k <= s.i
        BY <1>1, <2>2, <3>1
      <4>4. T[s].st = "ok" => T[s].i <= Len(dAtA) /\ 2 * (k + 1) <= T[s].i
        BY <1>1, <2>2, <4>2, <4>3
      <4>. QED  BY <4>2, <4>4
    <3>2. CASE ~ (s.st = "ok" /\ s.i < Len(dAtA))
      <4>1. T[s] = s
        BY <1>2, <2>2, <3>2 DEF Moves
      <4>2. s.st = "ok" => s.i = Len(dAtA)
        BY <1>1, <2>2, <3>2
      <4>. QED  BY <1>1, <2>2, <4>1, <4>2
    <3>. QED  BY <3>1, <3>2
  <2>. HIDE DEF Inv
  <2>. QED  BY <2>2, <2>3, <2>4
<1>5. \A k \in 0..n : k \in P
  <2>. HIDE DEF P
  <2>. QED  BY <1>1, <1>3, <1>4, CountUp
<1>. QED  BY <1>1, <1>5 DEF n

\* After half as many iterations as there are bytes the bytes are used up.
LEMMA MovesEnd ==
  ASSUME NEW M, NEW m0 \in M, NEW dAtA \in Buffers, NEW T, NEW after, NEW out,
         IsUnmarshal(T, M, m0, dAtA, after, out)
  PROVE  out.st \in {"ok", "err"} /\ out.m \in M
<1>. DEFINE Result(end) == [st |-> IF end.st # "ok" THEN end.st
                                   ELSE IF end.i < Len(dAtA) THEN "loop"
                                   ELSE IF end.i > Len(dAtA) THEN "err"
                                   ELSE "ok",
                            m  |-> end.m]
<1>1. PICK k \in 0..Rounds(dAtA) :
        /\ k = Rounds(dAtA) \/ after[k].st # "ok" \/ after[k].i >= Len(dAtA)
        /\ out = Result(after[k])
  BY DEF IsUnmarshal
<1>2. PICK s : s = after[k]
  OBVIOUS
<1>3. /\ Rounds(dAtA) \in Nat /\ Len(dAtA) <= 2 * Rounds(dAtA)
      /\ s \in Results(M)
      /\ s.st = "ok" => s.i <= Len(dAtA) /\ (2 * k <= s.i \/ s.i = Len(dAtA))
  BY <1>2, MovesOn
<1>4. s.i \in Nat /\ s.st \in {"ok", "err"} /\ s.m \in M /\ Len(dAtA) \in Nat /\ k \in Nat
  BY <1>3, BufferFacts DEF Results
<1>5. s.st = "ok" => s.i = Len(dAtA)
  BY <1>1, <1>2, <1>3, <1>4
<1>6. out = Result(s)
  BY <1>1, <1>2
<1>. QED  BY <1>4, <1>5, <1>6

\* The decoder of a field yields a value of the field, whatever bytes it is given.
Takes(decode(_, _, _), field, M) ==
  \A m \in M :
    IF field.kind = "uint64"
    THEN \A v \in Word : [m EXCEPT ![field.name] = v] \in M
    ELSE \A bz \in Buffers : Accepts(M, m, field.name, decode(field, m[field.name], bz))

\* So do the decoders of a switch.
Decodes(decode(_, _, _), fields, M) ==
  \A n \in DOMAIN fields : Takes(decode, fields[n], M)

\* An iteration runs the switch of a message.
Switches(decode(_, _, _), fields, M, dAtA, T) ==
  \A s \in Results(M) :
    (s.st = "ok" /\ s.i < Len(dAtA)) => T[s] = switchField(decode, fields, s.m, readTag(dAtA, s.i))

(* The three depths of messages, each by the same proof.                   *)

LEMMA Switch0Advances ==
  ASSUME NEW dAtA \in Buffers, NEW pre \in Nat, pre < Len(dAtA), NEW M, NEW m \in M,
         NEW fields, Decodes(decodeScalar, fields, M)
  PROVE  Advances(switchField(decodeScalar, fields, m, readTag(dAtA, pre)), M, dAtA, pre)
<1>1. PICK at : at = readTag(dAtA, pre)
  OBVIOUS
<1>2. Stands(at, dAtA, pre)
  BY <1>1, ReadTagStands
<1>3. PICK field : field = fields[at.num]
  OBVIOUS
<1>4. switchField(decodeScalar, fields, m, at) =
        IF at.st # "ok" THEN Stop(m, at.st)
        ELSE IF at.num \notin DOMAIN fields THEN SkipField(m, at)
        ELSE IF field.kind = "uint64" THEN Uint64Field(m, field.name, at)
        ELSE BytesField(decodeScalar, m, field, at)
  BY <1>3 DEF switchField
<1>5. CASE at.st # "ok"
  BY <1>1, <1>2, <1>4, <1>5, StopAdvances DEF Stands
<1>6. CASE at.st = "ok" /\ at.num \notin DOMAIN fields
  BY <1>1, <1>2, <1>4, <1>6, SkipFieldAdvances
<1>7. CASE at.st = "ok" /\ at.num \in DOMAIN fields /\ field.kind = "uint64"
  <2>1. \A v \in Word : [m EXCEPT ![field.name] = v] \in M
    BY <1>3, <1>7 DEF Decodes, Takes
  <2>2. Advances(Uint64Field(m, field.name, at), M, dAtA, pre)
    BY <1>2, <1>7, <2>1, Uint64FieldAdvances
  <2>. QED  BY <1>1, <1>4, <1>7, <2>2
<1>8. CASE at.st = "ok" /\ at.num \in DOMAIN fields /\ field.kind # "uint64"
  <2>1. PICK bz : bz = fieldBytes(at)
    OBVIOUS
  <2>2. PICK new : new = decodeScalar(field, m[field.name], bz.m)
    OBVIOUS
  <2>3. bz.m \in Buffers => Accepts(M, m, field.name, new)
    BY <1>3, <1>8, <2>2 DEF Decodes, Takes
  <2>4. BytesField(decodeScalar, m, field, at) =
          IF bz.st = "ok"
          THEN IF new.st = "ok" THEN Read([m EXCEPT ![field.name] = new.m], bz.i)
                                ELSE Stop(m, new.st)
          ELSE Stop(m, bz.st)
    BY <2>1, <2>2 DEF BytesField
  <2>5. Advances(BytesField(decodeScalar, m, field, at), M, dAtA, pre)
    BY <1>2, <1>8, <2>1, <2>3, <2>4, BytesAdvance
  <2>. QED  BY <1>1, <1>4, <1>8, <2>5
<1>. QED  BY <1>5, <1>6, <1>7, <1>8

LEMMA Unmarshal0Runs ==
  ASSUME NEW dAtA \in Buffers, NEW M, NEW m0 \in M, NEW fields, Decodes(decodeScalar, fields, M)
  PROVE  \E T, after : /\ Switches(decodeScalar, fields, M, dAtA, T)
                       /\ IsUnmarshal(T, M, m0, dAtA, after, Unmarshal0(fields, m0, dAtA))
<1>. DEFINE rounds == Rounds(dAtA)
            Step(s) == IF s.st = "ok" /\ s.i < Len(dAtA)
                       THEN switchField(decodeScalar, fields, s.m, readTag(dAtA, s.i)) ELSE s
            T == [s \in Results(M) |-> Step(s)]
            Solves(f) == f = [k \in 0..rounds |-> IF k = 0 THEN Read(m0, 0) ELSE Step(f[k - 1])]
            after == CHOOSE f : Solves(f)
            Result(end) == [st |-> IF end.st # "ok" THEN end.st
                                   ELSE IF end.i < Len(dAtA) THEN "loop"
                                   ELSE IF end.i > Len(dAtA) THEN "err"
                                   ELSE "ok",
                            m  |-> end.m]
            IsPast(end) == end.st # "ok" \/ end.i >= Len(dAtA)
            first == after[Min({8, rounds})]
<1>1. Unmarshal0(fields, m0, dAtA) = Result(IF IsPast(first) THEN first ELSE after[rounds])
  BY Zenon DEF Unmarshal0, UnmarshalFields, Rounds
<1>2. \A s \in Results(M) : T[s] = Step(s)
  OBVIOUS
<1>3. Moves(T, M, dAtA)
  <2>1. ASSUME NEW s \in Results(M), s.st = "ok", s.i < Len(dAtA)
        PROVE  Advances(Step(s), M, dAtA, s.i)
    <3>1. Step(s) = switchField(decodeScalar, fields, s.m, readTag(dAtA, s.i))
      BY <2>1
    <3>2. s.i \in Nat /\ s.m \in M
      BY DEF Results
    <3>. QED  BY <2>1, <3>1, <3>2, Switch0Advances
  <2>2. ASSUME NEW s \in Results(M), ~ (s.st = "ok" /\ s.i < Len(dAtA)) PROVE Step(s) = s
    BY <2>2
  <2>. HIDE DEF Step, T
  <2>. QED  BY <1>2, <2>1, <2>2 DEF Moves
<1>4. Switches(decodeScalar, fields, M, dAtA, T)
  <2>1. ASSUME NEW s \in Results(M), s.st = "ok", s.i < Len(dAtA)
        PROVE  T[s] = switchField(decodeScalar, fields, s.m, readTag(dAtA, s.i))
    BY <2>1
  <2>. HIDE DEF T
  <2>. QED  BY <2>1 DEF Switches
<1>. HIDE DEF Step, T
<1>5. rounds \in Nat
  BY BufferFacts DEF Rounds
<1>. HIDE DEF rounds
<1>6. Solves(after)
  <2>1. PICK f : IsMovesRun(f, T, M, m0, rounds)
    BY <1>3, <1>5, MovesRun
  <2>2. ASSUME NEW k \in 1..rounds PROVE f[k] = Step(f[k - 1])
    <3>1. f[k - 1] \in Results(M)
      BY <1>5, <2>1 DEF IsMovesRun
    <3>. QED  BY <1>2, <2>1, <3>1 DEF IsMovesRun
  <2>3. Solves(f)
    BY <1>5, <2>1, <2>2 DEF IsMovesRun
  <2>. HIDE DEF Solves
  <2>. QED  BY <2>3
<1>. HIDE DEF after
<1>7. after[0] = Read(m0, 0)
  BY <1>5, <1>6
<1>8. ASSUME NEW k \in 0..(rounds - 1), after[k] \in Results(M) PROVE after[k + 1] = T[after[k]]
  <2>1. k + 1 \in 0..rounds /\ k + 1 # 0 /\ (k + 1) - 1 = k
    BY <1>5
  <2>2. after[k + 1] = Step(after[k])
    BY <1>6, <2>1
  <2>. QED  BY <1>2, <1>8, <2>2
<1>9. \E k \in 0..rounds :
        /\ k = rounds \/ IsPast(after[k])
        /\ Unmarshal0(fields, m0, dAtA) = Result(after[k])
  <2>1. Min({8, rounds}) \in 0..rounds /\ rounds \in 0..rounds
    BY <1>5, FirstRounds
  <2>. HIDE DEF Result, IsPast
  <2>2. CASE IsPast(after[Min({8, rounds})])
    <3>1. Unmarshal0(fields, m0, dAtA) = Result(after[Min({8, rounds})])
      BY <1>1, <2>2
    <3>. QED  BY <2>1, <2>2, <3>1
  <2>3. CASE ~ IsPast(after[Min({8, rounds})])
    <3>1. Unmarshal0(fields, m0, dAtA) = Result(after[rounds])
      BY <1>1, <2>3
    <3>. QED  BY <2>1, <3>1
  <2>. QED  BY <2>2, <2>3
<1>10. IsUnmarshal(T, M, m0, dAtA, after, Unmarshal0(fields, m0, dAtA))
  BY <1>3, <1>7, <1>8, <1>9 DEF IsUnmarshal, rounds
<1>. QED  BY <1>4, <1>10

LEMMA Unmarshal0Types ==
  ASSUME NEW dAtA \in Buffers, NEW M, NEW m0 \in M, NEW fields, Decodes(decodeScalar, fields, M)
  PROVE  LET r == Unmarshal0(fields, m0, dAtA) IN r.st \in {"ok", "err"} /\ r.m \in M
<1>1. PICK T, after : IsUnmarshal(T, M, m0, dAtA, after, Unmarshal0(fields, m0, dAtA))
  BY Unmarshal0Runs
<1>. QED  BY <1>1, MovesEnd

LEMMA Switch1Advances ==
  ASSUME NEW dAtA \in Buffers, NEW pre \in Nat, pre < Len(dAtA), NEW M, NEW m \in M,
         NEW fields, Decodes(decodeField1, fields, M)
  PROVE  Advances(switchField(decodeField1, fields, m, readTag(dAtA, pre)), M, dAtA, pre)
<1>1. PICK at : at = readTag(dAtA, pre)
  OBVIOUS
<1>2. Stands(at, dAtA, pre)
  BY <1>1, ReadTagStands
<1>3. PICK field : field = fields[at.num]
  OBVIOUS
<1>4. switchField(decodeField1, fields, m, at) =
        IF at.st # "ok" THEN Stop(m, at.st)
        ELSE IF at.num \notin DOMAIN fields THEN SkipField(m, at)
        ELSE IF field.kind = "uint64" THEN Uint64Field(m, field.name, at)
        ELSE BytesField(decodeField1, m, field, at)
  BY <1>3 DEF switchField
<1>5. CASE at.st # "ok"
  BY <1>1, <1>2, <1>4, <1>5, StopAdvances DEF Stands
<1>6. CASE at.st = "ok" /\ at.num \notin DOMAIN fields
  BY <1>1, <1>2, <1>4, <1>6, SkipFieldAdvances
<1>7. CASE at.st = "ok" /\ at.num \in DOMAIN fields /\ field.kind = "uint64"
  <2>1. \A v \in Word : [m EXCEPT ![field.name] = v] \in M
    BY <1>3, <1>7 DEF Decodes, Takes
  <2>2. Advances(Uint64Field(m, field.name, at), M, dAtA, pre)
    BY <1>2, <1>7, <2>1, Uint64FieldAdvances
  <2>. QED  BY <1>1, <1>4, <1>7, <2>2
<1>8. CASE at.st = "ok" /\ at.num \in DOMAIN fields /\ field.kind # "uint64"
  <2>1. PICK bz : bz = fieldBytes(at)
    OBVIOUS
  <2>2. PICK new : new = decodeField1(field, m[field.name], bz.m)
    OBVIOUS
  <2>3. bz.m \in Buffers => Accepts(M, m, field.name, new)
    BY <1>3, <1>8, <2>2 DEF Decodes, Takes
  <2>4. BytesField(decodeField1, m, field, at) =
          IF bz.st = "ok"
          THEN IF new.st = "ok" THEN Read([m EXCEPT ![field.name] = new.m], bz.i)
                                ELSE Stop(m, new.st)
          ELSE Stop(m, bz.st)
    BY <2>1, <2>2 DEF BytesField
  <2>5. Advances(BytesField(decodeField1, m, field, at), M, dAtA, pre)
    BY <1>2, <1>8, <2>1, <2>3, <2>4, BytesAdvance
  <2>. QED  BY <1>1, <1>4, <1>8, <2>5
<1>. QED  BY <1>5, <1>6, <1>7, <1>8

LEMMA Unmarshal1Runs ==
  ASSUME NEW dAtA \in Buffers, NEW M, NEW m0 \in M, NEW fields, Decodes(decodeField1, fields, M)
  PROVE  \E T, after : /\ Switches(decodeField1, fields, M, dAtA, T)
                       /\ IsUnmarshal(T, M, m0, dAtA, after, Unmarshal1(fields, m0, dAtA))
<1>. DEFINE rounds == Rounds(dAtA)
            Step(s) == IF s.st = "ok" /\ s.i < Len(dAtA)
                       THEN switchField(decodeField1, fields, s.m, readTag(dAtA, s.i)) ELSE s
            T == [s \in Results(M) |-> Step(s)]
            Solves(f) == f = [k \in 0..rounds |-> IF k = 0 THEN Read(m0, 0) ELSE Step(f[k - 1])]
            after == CHOOSE f : Solves(f)
            Result(end) == [st |-> IF end.st # "ok" THEN end.st
                                   ELSE IF end.i < Len(dAtA) THEN "loop"
                                   ELSE IF end.i > Len(dAtA) THEN "err"
                                   ELSE "ok",
                            m  |-> end.m]
            IsPast(end) == end.st # "ok" \/ end.i >= Len(dAtA)
            first == after[Min({8, rounds})]
<1>1. Unmarshal1(fields, m0, dAtA) = Result(IF IsPast(first) THEN first ELSE after[rounds])
  BY Zenon DEF Unmarshal1, UnmarshalFields, Rounds
<1>2. \A s \in Results(M) : T[s] = Step(s)
  OBVIOUS
<1>3. Moves(T, M, dAtA)
  <2>1. ASSUME NEW s \in Results(M), s.st = "ok", s.i < Len(dAtA)
        PROVE  Advances(Step(s), M, dAtA, s.i)
    <3>1. Step(s) = switchField(decodeField1, fields, s.m, readTag(dAtA, s.i))
      BY <2>1
    <3>2. s.i \in Nat /\ s.m \in M
      BY DEF Results
    <3>. QED  BY <2>1, <3>1, <3>2, Switch1Advances
  <2>2. ASSUME NEW s \in Results(M), ~ (s.st = "ok" /\ s.i < Len(dAtA)) PROVE Step(s) = s
    BY <2>2
  <2>. HIDE DEF Step, T
  <2>. QED  BY <1>2, <2>1, <2>2 DEF Moves
<1>4. Switches(decodeField1, fields, M, dAtA, T)
  <2>1. ASSUME NEW s \in Results(M), s.st = "ok", s.i < Len(dAtA)
        PROVE  T[s] = switchField(decodeField1, fields, s.m, readTag(dAtA, s.i))
    BY <2>1
  <2>. HIDE DEF T
  <2>. QED  BY <2>1 DEF Switches
<1>. HIDE DEF Step, T
<1>5. rounds \in Nat
  BY BufferFacts DEF Rounds
<1>. HIDE DEF rounds
<1>6. Solves(after)
  <2>1. PICK f : IsMovesRun(f, T, M, m0, rounds)
    BY <1>3, <1>5, MovesRun
  <2>2. ASSUME NEW k \in 1..rounds PROVE f[k] = Step(f[k - 1])
    <3>1. f[k - 1] \in Results(M)
      BY <1>5, <2>1 DEF IsMovesRun
    <3>. QED  BY <1>2, <2>1, <3>1 DEF IsMovesRun
  <2>3. Solves(f)
    BY <1>5, <2>1, <2>2 DEF IsMovesRun
  <2>. HIDE DEF Solves
  <2>. QED  BY <2>3
<1>. HIDE DEF after
<1>7. after[0] = Read(m0, 0)
  BY <1>5, <1>6
<1>8. ASSUME NEW k \in 0..(rounds - 1), after[k] \in Results(M) PROVE after[k + 1] = T[after[k]]
  <2>1. k + 1 \in 0..rounds /\ k + 1 # 0 /\ (k + 1) - 1 = k
    BY <1>5
  <2>2. after[k + 1] = Step(after[k])
    BY <1>6, <2>1
  <2>. QED  BY <1>2, <1>8, <2>2
<1>9. \E k \in 0..rounds :
        /\ k = rounds \/ IsPast(after[k])
        /\ Unmarshal1(fields, m0, dAtA) = Result(after[k])
  <2>1. Min({8, rounds}) \in 0..rounds /\ rounds \in 0..rounds
    BY <1>5, FirstRounds
  <2>. HIDE DEF Result, IsPast
  <2>2. CASE IsPast(after[Min({8, rounds})])
    <3>1. Unmarshal1(fields, m0, dAtA) = Result(after[Min({8, rounds})])
      BY <1>1, <2>2
    <3>. QED  BY <2>1, <2>2, <3>1
  <2>3. CASE ~ IsPast(after[Min({8, rounds})])
    <3>1. Unmarshal1(fields, m0, dAtA) = Result(after[rounds])
      BY <1>1, <2>3
    <3>. QED  BY <2>1, <3>1
  <2>. QED  BY <2>2, <2>3
<1>10. IsUnmarshal(T, M, m0, dAtA, after, Unmarshal1(fields, m0, dAtA))
  BY <1>3, <1>7, <1>8, <1>9 DEF IsUnmarshal, rounds
<1>. QED  BY <1>4, <1>10

LEMMA Unmarshal1Types ==
  ASSUME NEW dAtA \in Buffers, NEW M, NEW m0 \in M, NEW fields, Decodes(decodeField1, fields, M)
  PROVE  LET r == Unmarshal1(fields, m0, dAtA) IN r.st \in {"ok", "err"} /\ r.m \in M
<1>1. PICK T, after : IsUnmarshal(T, M, m0, dAtA, after, Unmarshal1(fields, m0, dAtA))
  BY Unmarshal1Runs
<1>. QED  BY <1>1, MovesEnd

LEMMA Switch2Advances ==
  ASSUME NEW dAtA \in Buffers, NEW pre \in Nat, pre < Len(dAtA), NEW M, NEW m \in M,
         NEW fields, Decodes(decodeField2, fields, M)
  PROVE  Advances(switchField(decodeField2, fields, m, readTag(dAtA, pre)), M, dAtA, pre)
<1>1. PICK at : at = readTag(dAtA, pre)
  OBVIOUS
<1>2. Stands(at, dAtA, pre)
  BY <1>1, ReadTagStands
<1>3. PICK field : field = fields[at.num]
  OBVIOUS
<1>4. switchField(decodeField2, fields, m, at) =
        IF at.st # "ok" THEN Stop(m, at.st)
        ELSE IF at.num \notin DOMAIN fields THEN SkipField(m, at)
        ELSE IF field.kind = "uint64" THEN Uint64Field(m, field.name, at)
        ELSE BytesField(decodeField2, m, field, at)
  BY <1>3 DEF switchField
<1>5. CASE at.st # "ok"
  BY <1>1, <1>2, <1>4, <1>5, StopAdvances DEF Stands
<1>6. CASE at.st = "ok" /\ at.num \notin DOMAIN fields
  BY <1>1, <1>2, <1>4, <1>6, SkipFieldAdvances
<1>7. CASE at.st = "ok" /\ at.num \in DOMAIN fields /\ field.kind = "uint64"
  <2>1. \A v \in Word : [m EXCEPT ![field.name] = v] \in M
    BY <1>3, <1>7 DEF Decodes, Takes
  <2>2. Advances(Uint64Field(m, field.name, at), M, dAtA, pre)
    BY <1>2, <1>7, <2>1, Uint64FieldAdvances
  <2>. QED  BY <1>1, <1>4, <1>7, <2>2
<1>8. CASE at.st = "ok" /\ at.num \in DOMAIN fields /\ field.kind # "uint64"
  <2>1. PICK bz : bz = fieldBytes(at)
    OBVIOUS
  <2>2. PICK new : new = decodeField2(field, m[field.name], bz.m)
    OBVIOUS
  <2>3. bz.m \in Buffers => Accepts(M, m, field.name, new)
    BY <1>3, <1>8, <2>2 DEF Decodes, Takes
  <2>4. BytesField(decodeField2, m, field, at) =
          IF bz.st = "ok"
          THEN IF new.st = "ok" THEN Read([m EXCEPT ![field.name] = new.m], bz.i)
                                ELSE Stop(m, new.st)
          ELSE Stop(m, bz.st)
    BY <2>1, <2>2 DEF BytesField
  <2>5. Advances(BytesField(decodeField2, m, field, at), M, dAtA, pre)
    BY <1>2, <1>8, <2>1, <2>3, <2>4, BytesAdvance
  <2>. QED  BY <1>1, <1>4, <1>8, <2>5
<1>. QED  BY <1>5, <1>6, <1>7, <1>8

LEMMA Unmarshal2Runs ==
  ASSUME NEW dAtA \in Buffers, NEW M, NEW m0 \in M, NEW fields, Decodes(decodeField2, fields, M)
  PROVE  \E T, after : /\ Switches(decodeField2, fields, M, dAtA, T)
                       /\ IsUnmarshal(T, M, m0, dAtA, after, Unmarshal(fields, m0, dAtA))
<1>. DEFINE rounds == Rounds(dAtA)
            Step(s) == IF s.st = "ok" /\ s.i < Len(dAtA)
                       THEN switchField(decodeField2, fields, s.m, readTag(dAtA, s.i)) ELSE s
            T == [s \in Results(M) |-> Step(s)]
            Solves(f) == f = [k \in 0..rounds |-> IF k = 0 THEN Read(m0, 0) ELSE Step(f[k - 1])]
            after == CHOOSE f : Solves(f)
            Result(end) == [st |-> IF end.st # "ok" THEN end.st
                                   ELSE IF end.i < Len(dAtA) THEN "loop"
                                   ELSE IF end.i > Len(dAtA) THEN "err"
                                   ELSE "ok",
                            m  |-> end.m]
            IsPast(end) == end.st # "ok" \/ end.i >= Len(dAtA)
            first == after[Min({8, rounds})]
<1>1. Unmarshal(fields, m0, dAtA) = Result(IF IsPast(first) THEN first ELSE after[rounds])
  BY Zenon DEF Unmarshal, UnmarshalFields, Rounds
<1>2. \A s \in Results(M) : T[s] = Step(s)
  OBVIOUS
<1>3. Moves(T, M, dAtA)
  <2>1. ASSUME NEW s \in Results(M), s.st = "ok", s.i < Len(dAtA)
        PROVE  Advances(Step(s), M, dAtA, s.i)
    <3>1. Step(s) = switchField(decodeField2, fields, s.m, readTag(dAtA, s.i))
      BY <2>1
    <3>2. s.i \in Nat /\ s.m \in M
      BY DEF Results
    <3>. QED  BY <2>1, <3>1, <3>2, Switch2Advances
  <2>2. ASSUME NEW s \in Results(M), ~ (s.st = "ok" /\ s.i < Len(dAtA)) PROVE Step(s) = s
    BY <2>2
  <2>. HIDE DEF Step, T
  <2>. QED  BY <1>2, <2>1, <2>2 DEF Moves
<1>4. Switches(decodeField2, fields, M, dAtA, T)
  <2>1. ASSUME NEW s \in Results(M), s.st = "ok", s.i < Len(dAtA)
        PROVE  T[s] = switchField(decodeField2, fields, s.m, readTag(dAtA, s.i))
    BY <2>1
  <2>. HIDE DEF T
  <2>. QED  BY <2>1 DEF Switches
<1>. HIDE DEF Step, T
<1>5. rounds \in Nat
  BY BufferFacts DEF Rounds
<1>. HIDE DEF rounds
<1>6. Solves(after)
  <2>1. PICK f : IsMovesRun(f, T, M, m0, rounds)
    BY <1>3, <1>5, MovesRun
  <2>2. ASSUME NEW k \in 1..rounds PROVE f[k] = Step(f[k - 1])
    <3>1. f[k - 1] \in Results(M)
      BY <1>5, <2>1 DEF IsMovesRun
    <3>. QED  BY <1>2, <2>1, <3>1 DEF IsMovesRun
  <2>3. Solves(f)
    BY <1>5, <2>1, <2>2 DEF IsMovesRun
  <2>. HIDE DEF Solves
  <2>. QED  BY <2>3
<1>. HIDE DEF after
<1>7. after[0] = Read(m0, 0)
  BY <1>5, <1>6
<1>8. ASSUME NEW k \in 0..(rounds - 1), after[k] \in Results(M) PROVE after[k + 1] = T[after[k]]
  <2>1. k + 1 \in 0..rounds /\ k + 1 # 0 /\ (k + 1) - 1 = k
    BY <1>5
  <2>2. after[k + 1] = Step(after[k])
    BY <1>6, <2>1
  <2>. QED  BY <1>2, <1>8, <2>2
<1>9. \E k \in 0..rounds :
        /\ k = rounds \/ IsPast(after[k])
        /\ Unmarshal(fields, m0, dAtA) = Result(after[k])
  <2>1. Min({8, rounds}) \in 0..rounds /\ rounds \in 0..rounds
    BY <1>5, FirstRounds
  <2>. HIDE DEF Result, IsPast
  <2>2. CASE IsPast(after[Min({8, rounds})])
    <3>1. Unmarshal(fields, m0, dAtA) = Result(after[Min({8, rounds})])
      BY <1>1, <2>2
    <3>. QED  BY <2>1, <2>2, <3>1
  <2>3. CASE ~ IsPast(after[Min({8, rounds})])
    <3>1. Unmarshal(fields, m0, dAtA) = Result(after[rounds])
      BY <1>1, <2>3
    <3>. QED  BY <2>1, <3>1
  <2>. QED  BY <2>2, <2>3
<1>10. IsUnmarshal(T, M, m0, dAtA, after, Unmarshal(fields, m0, dAtA))
  BY <1>3, <1>7, <1>8, <1>9 DEF IsUnmarshal, rounds
<1>. QED  BY <1>4, <1>10

LEMMA Unmarshal2Types ==
  ASSUME NEW dAtA \in Buffers, NEW M, NEW m0 \in M, NEW fields, Decodes(decodeField2, fields, M)
  PROVE  LET r == Unmarshal(fields, m0, dAtA) IN r.st \in {"ok", "err"} /\ r.m \in M
<1>1. PICK T, after : IsUnmarshal(T, M, m0, dAtA, after, Unmarshal(fields, m0, dAtA))
  BY Unmarshal2Runs
<1>. QED  BY <1>1, MovesEnd

-----------------------------------------------------------------------------
(* Writing: what is written are bytes, as many as Size counted.            *)

LEMMA ListType ==
  ASSUME NEW n \in Nat, NEW S, NEW s, s = [k \in 1..n |-> s[k]], \A k \in 1..n : s[k] \in S
  PROVE  s \in Seq(S) /\ Len(s) = n
OBVIOUS

\* The longest varint.
LEMMA VarintLength == (WordBits + 6) \div 7 \in Nat \ {0} /\ 7 * ((WordBits + 6) \div 7) <= WordBits + 6
BY Widths

LEMMA SovType ==
  ASSUME NEW x \in Nat
  PROVE  /\ sov(x) \in 1..((WordBits + 6) \div 7)
         /\ x < Pow2[7 * sov(x)] \/ sov(x) = (WordBits + 6) \div 7
         /\ sov(x) = 1 \/ x >= Pow2[7 * (sov(x) - 1)]
<1>. DEFINE top == (WordBits + 6) \div 7
            Short == {n \in 1..top : x < Pow2[7 * n] \/ n = top}
            IsSov(n) == /\ x < Pow2[7 * n] \/ n = top
                        /\ n = 1 \/ x >= Pow2[7 * (n - 1)]
<1>1. top \in Nat \ {0} /\ 7 * top <= WordBits + 6
  BY VarintLength
<1>. HIDE DEF top
<1>2. \E n \in 1..top : IsSov(n)
  <2>1. Short \in SUBSET Nat /\ Short # {}
    <3>1. top \in 1..top
      BY <1>1
    <3>2. top \in Short
      BY <3>1
    <3>3. Short \in SUBSET (1..top) /\ 1..top \in SUBSET Nat
      OBVIOUS
    <3>. HIDE DEF Short
    <3>. QED  BY <3>2, <3>3
  <2>2. PICK n \in Short : \A m \in Short : n <= m
    <3>. HIDE DEF Short
    <3>. QED  BY <2>1, LeastNat
  <2>3. CASE n = 1
    BY <2>2, <2>3
  <2>4. CASE n # 1
    <3>1. n - 1 \in 1..top /\ n - 1 \notin Short /\ n - 1 # top
      BY <1>1, <2>2, <2>4
    <3>2. 7 * (n - 1) \in 0..(WordBits + 6)
      BY <1>1, <2>2, <2>4, Widths
    <3>3. Pow2[7 * (n - 1)] \in Nat
      BY <3>2, Powers
    <3>4. ~ (x < Pow2[7 * (n - 1)])
      BY <3>1
    <3>5. x >= Pow2[7 * (n - 1)]
      BY <3>3, <3>4
    <3>. QED  BY <2>2, <3>5
  <2>. QED  BY <2>3, <2>4
<1>3. sov(x) = CHOOSE n \in 1..top : IsSov(n)
  BY Zenon DEF sov, top
<1>. HIDE DEF IsSov
<1>4. sov(x) \in 1..top /\ IsSov(sov(x))
  BY <1>2, <1>3
<1>. QED  BY <1>4 DEF top, IsSov

LEMMA EncodeVarintBytes ==
  ASSUME NEW v \in Nat
  PROVE  encodeVarint(v) \in Seq(Byte) /\ Len(encodeVarint(v)) = sov(v) /\ sov(v) \in Nat
<1>1. sov(v) \in Nat /\ sov(v) <= (WordBits + 6) \div 7
  BY SovType, VarintLength
<1>2. ASSUME NEW k \in 1..sov(v) PROVE encodeVarint(v)[k] \in Byte
  <2>1. 7 * (k - 1) \in 0..(WordBits + 6)
    BY <1>1, VarintLength, Widths
  <2>2. Pow2[7 * (k - 1)] \in Nat \ {0}
    BY <2>1, Powers
  <2>3. PICK p \in Nat \ {0} : p = Pow2[7 * (k - 1)]
    BY <2>2
  <2>4. encodeVarint(v)[k] = ((v \div p) % 128) + (IF k < sov(v) THEN 128 ELSE 0)
    BY <1>1, <2>3 DEF encodeVarint
  <2>5. (v \div p) % 128 \in 0..127
    <3>1. v \div p \in Nat
      BY <2>3
    <3>. QED  BY <3>1
  <2>. QED  BY <2>4, <2>5 DEF Byte
<1>3. encodeVarint(v) = [k \in 1..sov(v) |-> encodeVarint(v)[k]]
  BY DEF encodeVarint
<1>. QED  BY <1>1, <1>2, <1>3, ListType

LEMMA Joined ==
  ASSUME NEW S, NEW s \in Seq(S), NEW t \in Seq(S)
  PROVE  s \o t \in Seq(S) /\ Len(s \o t) = Len(s) + Len(t)
OBVIOUS

LEMMA TagBytes ==
  ASSUME NEW num \in 1..31, NEW wireType \in 0..5
  PROVE  Tag(num, wireType) \in Seq(Byte) /\ Len(Tag(num, wireType)) = 1
<1>1. 8 * num + wireType \in Byte
  BY DEF Byte
<1>. QED  BY <1>1 DEF Tag

LEMMA PutBytesSize ==
  ASSUME NEW num \in 1..31, NEW bz \in Seq(Byte), NEW tail \in Seq(Byte)
  PROVE  /\ PutBytes(num, bz, tail) \in Seq(Byte)
         /\ Len(PutBytes(num, bz, tail)) = SizeBytes(Len(bz)) + Len(tail)
         /\ SizeBytes(Len(bz)) \in Nat
<1>1. PICK a : a = Tag(num, 2)
  OBVIOUS
<1>2. PICK b : b = encodeVarint(Len(bz))
  OBVIOUS
<1>3. a \in Seq(Byte) /\ Len(a) = 1
  <2>1. 2 \in 0..5
    OBVIOUS
  <2>. QED  BY <1>1, <2>1, TagBytes
<1>4. Len(bz) \in Nat /\ Len(tail) \in Nat
  OBVIOUS
<1>5. b \in Seq(Byte) /\ Len(b) = sov(Len(bz)) /\ sov(Len(bz)) \in Nat
  BY <1>2, <1>4, EncodeVarintBytes
<1>6. PutBytes(num, bz, tail) = a \o b \o bz \o tail
  BY <1>1, <1>2 DEF PutBytes
<1>7. a \o b \in Seq(Byte) /\ Len(a \o b) = 1 + sov(Len(bz))
  BY <1>3, <1>5, Joined
<1>8. (a \o b) \o bz \in Seq(Byte) /\ Len((a \o b) \o bz) = 1 + sov(Len(bz)) + Len(bz)
  BY <1>7, Joined
<1>9. ((a \o b) \o bz) \o tail \in Seq(Byte)
      /\ Len(((a \o b) \o bz) \o tail) = 1 + sov(Len(bz)) + Len(bz) + Len(tail)
  BY <1>8, Joined
<1>. QED  BY <1>4, <1>5, <1>6, <1>9 DEF SizeBytes

LEMMA PutStringSize ==
  ASSUME NEW num \in 1..31, NEW s \in Seq(Byte), NEW tail \in Seq(Byte)
  PROVE  /\ PutString(num, s, tail) \in Seq(Byte)
         /\ Len(PutString(num, s, tail)) = SizeString(s) + Len(tail)
         /\ SizeString(s) \in Nat
<1>1. Len(s) \in Nat /\ Len(tail) \in Nat
  OBVIOUS
<1>2. CASE Len(s) > 0
  BY <1>2, PutBytesSize DEF PutString, SizeString
<1>3. CASE ~ (Len(s) > 0)
  BY <1>1, <1>3 DEF PutString, SizeString
<1>. QED  BY <1>2, <1>3

LEMMA PutUint64Size ==
  ASSUME NEW num \in 1..31, NEW v \in Nat, NEW tail \in Seq(Byte)
  PROVE  /\ PutUint64(num, v, tail) \in Seq(Byte)
         /\ Len(PutUint64(num, v, tail)) = SizeUint64(v) + Len(tail)
         /\ SizeUint64(v) \in Nat
<1>1. PICK a : a = Tag(num, 0)
  OBVIOUS
<1>2. PICK b : b = encodeVarint(v)
  OBVIOUS
<1>3. a \in Seq(Byte) /\ Len(a) = 1
  <2>1. 0 \in 0..5
    OBVIOUS
  <2>. QED  BY <1>1, <2>1, TagBytes
<1>4. b \in Seq(Byte) /\ Len(b) = sov(v) /\ sov(v) \in Nat
  BY <1>2, EncodeVarintBytes
<1>5. PutUint64(num, v, tail) = IF v # 0 THEN a \o b \o tail ELSE tail
  BY <1>1, <1>2 DEF PutUint64
<1>6. a \o b \in Seq(Byte) /\ Len(a \o b) = 1 + sov(v)
  BY <1>3, <1>4, Joined
<1>7. (a \o b) \o tail \in Seq(Byte) /\ Len((a \o b) \o tail) = 1 + sov(v) + Len(tail)
  BY <1>6, Joined
<1>8. Len(tail) \in Nat
  OBVIOUS
<1>. QED  BY <1>4, <1>5, <1>7, <1>8 DEF SizeUint64

\* With a Size that is exact Marshal returns what was written.
LEMMA MarshalExact ==
  ASSUME NEW written \in Seq(Byte), NEW size, size = Len(written)
  PROVE  Marshal(size, written) = [st |-> "ok", bz |-> written]
<1>. DEFINE zeros == [i \in 1..(size - Len(written)) |-> 0]
<1>1. Len(written) \in Nat /\ size - Len(written) = 0
  OBVIOUS
<1>2. zeros = <<>>
  BY <1>1
<1>3. zeros \o written = written
  BY <1>2
<1>4. SubSeq(written, 1, Len(written)) = written
  OBVIOUS
<1>5. Marshal(size, written) = [st |-> "ok", bz |-> SubSeq(zeros \o written, 1, Len(written))]
  BY <1>1 DEF Marshal
<1>. HIDE DEF zeros
<1>. QED  BY <1>3, <1>4, <1>5

-----------------------------------------------------------------------------
(* Numbers: their text are bytes, and any bytes are a number or an error.  *)

\* Digits(n), for as many k as there are digits: left[k] is n without its last k.
IsDigits(n, left, count) ==
  /\ count \in 1..(n + 1)
  /\ Digits(n) = [k \in 1..count |-> 48 + (left[count - k] % 10)]
  /\ left[0] = n /\ left[count] = 0
  /\ \A k \in 0..n : left[k + 1] = left[k] \div 10
  /\ \A k \in 0..(n + 1) : left[k] \in Nat
  /\ \A e \in 1..(count - 1) : left[e] # 0

LEMMA DigitsRun ==
  ASSUME NEW n \in Nat
  PROVE  \E left, count : IsDigits(n, left, count)
<1>. DEFINE Solves(f) == f = [k \in 0..(n + 1) |-> IF k = 0 THEN n ELSE f[k - 1] \div 10]
            left == CHOOSE f : Solves(f)
            IsCount(d) == left[d] = 0 /\ \A e \in 1..(d - 1) : left[e] # 0
            count == CHOOSE d \in 1..(n + 1) : IsCount(d)
            F == [k \in 1..(n + 1) |-> [s \in Nat |-> s \div 10]]
<1>1. Digits(n) = [k \in 1..count |-> 48 + (left[count - k] % 10)]
  BY Zenon DEF Digits
<1>2. n + 1 \in Nat
  OBVIOUS
<1>3. \E f : Solves(f)
  <2>1. /\ \A k \in 1..(n + 1) : \A s \in Nat : F[k][s] = s \div 10
        /\ \A k \in 1..(n + 1) : \A s \in Nat : F[k][s] \in Nat
    OBVIOUS
  <2>. HIDE DEF F
  <2>2. IsLoop(n + 1, Nat, n, F)
    BY <1>2, <2>1 DEF IsLoop
  <2>3. PICK f : IsRun(n + 1, Nat, n, F, f)
    BY <2>2, LoopExists
  <2>4. ASSUME NEW k \in 1..(n + 1) PROVE f[k] = f[k - 1] \div 10
    <3>1. k - 1 \in 0..(n + 1)
      OBVIOUS
    <3>2. f[k - 1] \in Nat
      BY <2>3, <3>1 DEF IsRun
    <3>. QED  BY <2>1, <2>3, <3>2 DEF IsRun
  <2>5. Solves(f)
    BY <2>3, <2>4 DEF IsRun
  <2>. QED  BY <2>5
<1>4. Solves(left)
  BY <1>3
<1>. HIDE DEF left
<1>5. left[0] = n
  BY <1>4
<1>6. ASSUME NEW k \in 0..n PROVE left[k + 1] = left[k] \div 10
  <2>1. k + 1 \in 0..(n + 1) /\ k + 1 # 0 /\ (k + 1) - 1 = k
    OBVIOUS
  <2>. QED  BY <1>4, <2>1
<1>. HIDE DEF Solves
<1>7. ASSUME NEW k \in 0..(n + 1)
      PROVE  left[k] \in Nat /\ (left[k] = 0 \/ left[k] + k <= n)
  <2>. DEFINE P == {j \in 0..(n + 1) : left[j] \in Nat /\ (left[j] = 0 \/ left[j] + j <= n)}
  <2>1. 0 \in P
    BY <1>5
  <2>2. ASSUME NEW j \in 0..((n + 1) - 1), j \in P PROVE j + 1 \in P
    <3>1. PICK l \in Nat : l = left[j] /\ (l = 0 \/ l + j <= n)
      BY <2>2
    <3>2. left[j + 1] = l \div 10
      BY <1>6, <3>1
    <3>3. l \div 10 \in Nat /\ (l = 0 => l \div 10 = 0) /\ (l # 0 => l \div 10 < l)
      OBVIOUS
    <3>4. left[j + 1] \in Nat /\ (left[j + 1] = 0 \/ left[j + 1] + (j + 1) <= n)
      BY <3>1, <3>2, <3>3
    <3>. QED  BY <3>4
  <2>. HIDE DEF P
  <2>3. \A j \in 0..(n + 1) : j \in P
    BY <1>2, <2>1, <2>2, CountUp
  <2>. QED  BY <2>3 DEF P
<1>8. \E d \in 1..(n + 1) : IsCount(d)
  <2>. DEFINE Ends == {d \in 1..(n + 1) : left[d] = 0}
  <2>1. n + 1 \in Ends
    BY <1>7
  <2>2. Ends \in SUBSET Nat
    OBVIOUS
  <2>3. PICK d \in Ends : \A e \in Ends : d <= e
    <3>. HIDE DEF Ends
    <3>. QED  BY <2>1, <2>2, LeastNat
  <2>4. IsCount(d)
    BY <2>3
  <2>. QED  BY <2>3, <2>4
<1>9. count \in 1..(n + 1) /\ IsCount(count)
  <2>. HIDE DEF IsCount
  <2>. QED  BY <1>8
<1>. HIDE DEF count
<1>10. IsDigits(n, left, count)
  BY <1>1, <1>5, <1>6, <1>7, <1>9 DEF IsDigits
<1>. QED  BY <1>10

\* Digits are digits, and the first of several is no zero.
LEMMA DigitsBytes ==
  ASSUME NEW n \in Nat
  PROVE  /\ Digits(n) \in Seq(Byte) /\ Len(Digits(n)) \in Nat \ {0}
         /\ \A k \in 1..Len(Digits(n)) : Digits(n)[k] \in 48..57
         /\ Len(Digits(n)) > 1 => Digits(n)[1] # 48
<1>1. PICK left, count : IsDigits(n, left, count)
  BY DigitsRun
<1>2. count \in 1..(n + 1) /\ Digits(n) = [k \in 1..count |-> 48 + (left[count - k] % 10)]
  BY <1>1 DEF IsDigits
<1>3. ASSUME NEW k \in 1..count PROVE 48 + (left[count - k] % 10) \in 48..57
  <2>1. count - k \in 0..(n + 1)
    BY <1>2
  <2>2. left[count - k] \in Nat
    BY <1>1, <2>1 DEF IsDigits
  <2>. QED  BY <2>2
<1>4. \A d \in 48..57 : d \in Byte
  BY DEF Byte
<1>5. Digits(n) \in Seq(Byte) /\ Len(Digits(n)) = count
  <2>1. \A k \in 1..count : 48 + (left[count - k] % 10) \in Byte
    BY <1>3, <1>4
  <2>2. count \in Nat
    BY <1>2
  <2>. DEFINE ds == [k \in 1..count |-> 48 + (left[count - k] % 10)]
  <2>3. \A k \in 1..count : ds[k] \in Byte
    BY <2>1
  <2>4. ds = [k \in 1..count |-> ds[k]]
    OBVIOUS
  <2>5. Digits(n) = ds
    BY <1>2
  <2>. HIDE DEF ds
  <2>. QED  BY <2>2, <2>3, <2>4, <2>5, ListType
<1>6. ASSUME count > 1 PROVE Digits(n)[1] # 48
  <2>1. count - 1 \in 1..(count - 1) /\ count - 1 \in 0..n /\ count - 1 \in 0..(n + 1)
        /\ (count - 1) + 1 = count /\ 1 \in 1..count
    BY <1>2, <1>6
  <2>2. PICK l \in Nat : l = left[count - 1]
    BY <1>1, <2>1 DEF IsDigits
  <2>3. l # 0 /\ l \div 10 = 0
    <3>1. left[(count - 1) + 1] = left[count - 1] \div 10 /\ left[count] = 0 /\ left[count - 1] # 0
      BY <1>1, <2>1 DEF IsDigits
    <3>. QED  BY <2>1, <2>2, <3>1
  <2>4. l % 10 # 0
    BY <2>3
  <2>5. Digits(n)[1] = 48 + (l % 10)
    BY <1>2, <2>1, <2>2
  <2>6. l % 10 \in 0..9
    OBVIOUS
  <2>. QED  BY <2>4, <2>5, <2>6
<1>. QED  BY <1>2, <1>3, <1>5, <1>6

LEMMA NumberFacts ==
  /\ Nil \in Numbers /\ Nil \in Strings
  /\ \A n \in Int : <<n>> \in Numbers
  /\ \A v \in Numbers : v # Nil => v[1] \in Int /\ v = <<v[1]>>
<1>1. ASSUME NEW v \in Numbers, v # Nil PROVE v[1] \in Int /\ v = <<v[1]>>
  <2>1. v \in Seq(Int) /\ Len(v) = 1
    <3>1. v \in Seq(Int) /\ Len(v) <= 1
      BY DEF Numbers
    <3>2. v # <<>>
      BY <1>1 DEF Nil
    <3>3. Len(v) \in Nat \ {0}
      BY <3>1, <3>2, EmptySeq
    <3>4. PICK l : l = Len(v)
      OBVIOUS
    <3>5. l \in Nat \ {0} /\ l <= 1
      BY <3>1, <3>3, <3>4, Zenon
    <3>6. l = 1
      BY <3>5
    <3>. QED  BY <3>1, <3>4, <3>6, Zenon
  <2>2. v[1] \in Int
    BY <2>1
  <2>3. v = <<v[1]>>
    BY <2>1
  <2>. QED  BY <2>2, <2>3
<1>. QED  BY <1>1 DEF Nil, Numbers, Strings

LEMMA NumberBytes ==
  ASSUME NEW v \in Numbers
  PROVE  Number_Marshal(v) \in Seq(Byte) /\ Number_Size(v) = Len(Number_Marshal(v))
<1>1. CASE v = Nil
  BY <1>1, DigitsBytes DEF Number_Marshal, Number_Size
<1>2. CASE v # Nil /\ v[1] < 0
  <2>1. -v[1] \in Nat
    BY <1>2, NumberFacts
  <2>2. Digits(-v[1]) \in Seq(Byte) /\ <<45>> \in Seq(Byte)
    BY <2>1, DigitsBytes, SMTT(30) DEF Byte
  <2>. QED  BY <1>2, <2>2 DEF Number_Marshal, Number_Size
<1>3. CASE v # Nil /\ ~ (v[1] < 0)
  <2>1. v[1] \in Nat
    BY <1>3, NumberFacts
  <2>. QED  BY <1>3, <2>1, DigitsBytes DEF Number_Marshal, Number_Size
<1>. QED  BY <1>1, <1>2, <1>3

\* The value of the first k digits.
IsValue(digits, base, u) ==
  /\ ValueOf(digits, base) = u[Len(digits)]
  /\ u[0] = 0
  /\ \A k \in 0..(Len(digits) - 1) : u[k + 1] = u[k] * base + (digits[k + 1] - 48)
  /\ \A k \in 0..Len(digits) : u[k] \in Int

LEMMA ValueRun ==
  ASSUME NEW digits \in Seq(Byte), NEW base \in Nat
  PROVE  \E u : IsValue(digits, base, u)
<1>. DEFINE n == Len(digits)
            Solves(f) == f = [k \in 0..n |->
                                IF k = 0 THEN 0 ELSE f[k - 1] * base + (digits[k] - 48)]
            F == [k \in 1..n |-> [s \in Int |-> s * base + (digits[k] - 48)]]
            u == CHOOSE f : Solves(f)
<1>1. n \in Nat /\ \A k \in 1..n : digits[k] \in Nat
  <2>1. \A k \in 1..Len(digits) : digits[k] \in Byte
    OBVIOUS
  <2>. QED  BY <2>1, ByteIsNat
<1>2. \A k \in 1..n : \A s \in Int : s * base + (digits[k] - 48) \in Int
  BY <1>1
<1>3. \A k \in 1..n : \A s \in Int : F[k][s] = s * base + (digits[k] - 48)
  OBVIOUS
<1>4. ValueOf(digits, base) = u[n]
  BY Zenon DEF ValueOf
<1>. HIDE DEF F, n
<1>5. IsLoop(n, Int, 0, F)
  <2>1. \A k \in 1..n : \A s \in Int : F[k][s] \in Int
    BY <1>2, <1>3, Zenon
  <2>2. 0 \in Int
    OBVIOUS
  <2>. QED  BY <1>1, <2>1, <2>2, Zenon DEF IsLoop
<1>6. PICK f : IsRun(n, Int, 0, F, f)
  BY <1>5, LoopExists
<1>7. ASSUME NEW k \in 1..n PROVE f[k] = f[k - 1] * base + (digits[k] - 48)
  <2>1. k - 1 \in 0..n
    BY <1>1
  <2>2. f[k - 1] \in Int
    BY <1>6, <2>1 DEF IsRun
  <2>. QED  BY <1>3, <1>6, <2>2 DEF IsRun
<1>8. Solves(f)
  BY <1>1, <1>6, <1>7 DEF IsRun
<1>9. Solves(u)
  <2>. HIDE DEF Solves
  <2>. QED  BY <1>8
<1>. HIDE DEF u
<1>10. u[0] = 0
  BY <1>1, <1>9
<1>11. ASSUME NEW k \in 0..(n - 1) PROVE u[k + 1] = u[k] * base + (digits[k + 1] - 48)
  <2>1. k + 1 \in 0..n /\ k + 1 # 0 /\ (k + 1) - 1 = k
    BY <1>1
  <2>. QED  BY <1>9, <2>1
<1>. HIDE DEF Solves
<1>12. \A k \in 0..n : u[k] \in Int
  <2>. DEFINE P == {k \in 0..n : u[k] \in Int}
  <2>1. 0 \in P
    BY <1>1, <1>10
  <2>2. ASSUME NEW k \in 0..(n - 1), k \in P PROVE k + 1 \in P
    <3>1. k + 1 \in 0..n /\ k + 1 \in 1..n /\ u[k] \in Int
      BY <1>1, <2>2
    <3>2. u[k] * base + (digits[k + 1] - 48) \in Int
      BY <1>2, <3>1, Zenon
    <3>3. u[k + 1] \in Int
      BY <1>11, <3>2, Zenon
    <3>. QED  BY <3>1, <3>3
  <2>. HIDE DEF P
  <2>3. \A k \in 0..n : k \in P
    BY <1>1, <2>1, <2>2, CountUp
  <2>. QED  BY <2>3 DEF P
<1>13. IsValue(digits, base, u)
  BY <1>4, <1>10, <1>11, <1>12 DEF IsValue, n
<1>. QED  BY <1>13

LEMMA ValueIsInt ==
  ASSUME NEW digits \in Seq(Byte), NEW base \in Nat
  PROVE  ValueOf(digits, base) \in Int
<1>1. PICK u : IsValue(digits, base, u)
  BY ValueRun
<1>2. Len(digits) \in 0..Len(digits)
  OBVIOUS
<1>. QED  BY <1>1, <1>2 DEF IsValue

LEMMA NumberReads ==
  ASSUME NEW old \in Numbers, NEW bz \in Seq(Byte)
  PROVE  LET r == Number_Unmarshal(old, bz) IN r.st \in {"ok", "err"} /\ r.m \in Numbers
<1>. DEFINE Parsed(sign, digits, base) ==
              IF IsNumber(digits, base) THEN [st |-> "ok", m |-> <<sign * ValueOf(digits, base)>>]
                                        ELSE [st |-> "err", m |-> old]
            Unsigned(sign, digits) ==
              Parsed(sign, digits, IF Len(digits) > 1 /\ digits[1] = 48 THEN 8 ELSE 10)
            Good(r) == r.st \in {"ok", "err"} /\ r.m \in Numbers
<1>1. Number_Unmarshal(old, bz) =
        IF bz = <<>> THEN [st |-> "ok", m |-> old]
        ELSE IF bz[1] = 45 THEN Unsigned(-1, Tail(bz))
        ELSE Unsigned(1, bz)
  BY Zenon DEF Number_Unmarshal
<1>2. ASSUME NEW sign \in {-1, 1}, NEW digits \in Seq(Byte), NEW base \in Nat
      PROVE  Good(Parsed(sign, digits, base))
  <2>1. ValueOf(digits, base) \in Int
    BY ValueIsInt
  <2>2. sign * ValueOf(digits, base) \in Int
    BY <2>1
  <2>. QED  BY <2>2, NumberFacts
<1>. HIDE DEF Parsed
<1>3. ASSUME NEW sign \in {-1, 1}, NEW digits \in Seq(Byte) PROVE Good(Unsigned(sign, digits))
  BY <1>2
<1>. HIDE DEF Unsigned
<1>4. CASE bz = <<>>
  BY <1>1, <1>4
<1>5. CASE bz # <<>> /\ bz[1] = 45
  <2>1. Tail(bz) \in Seq(Byte)
    BY <1>5
  <2>. QED  BY <1>1, <1>3, <1>5, <2>1
<1>6. CASE bz # <<>> /\ bz[1] # 45
  BY <1>1, <1>3, <1>6
<1>. QED  BY <1>4, <1>5, <1>6

\* The digits that are written have the value they were written for.
LEMMA DigitsValue ==
  ASSUME NEW n \in Nat
  PROVE  IsNumber(Digits(n), 10) /\ ValueOf(Digits(n), 10) = n
<1>1. PICK ds : ds = Digits(n)
  OBVIOUS
<1>2. PICK left, count : IsDigits(n, left, count)
  BY DigitsRun
<1>3. PICK u : IsValue(ds, 10, u)
  BY <1>1, DigitsBytes, ValueRun
<1>4. count \in 1..(n + 1) /\ count \in Nat /\ ds = [k \in 1..count |-> 48 + (left[count - k] % 10)]
      /\ Len(ds) = count
  BY <1>1, <1>2 DEF IsDigits
<1>5. ASSUME NEW k \in 0..(count - 1), u[k] = left[count - k] PROVE u[k + 1] = left[count - (k + 1)]
  <2>1. (count - (k + 1)) + 1 = count - k /\ count - (k + 1) \in 0..n /\ count - (k + 1) \in 0..(n + 1)
        /\ k + 1 \in 1..count
    BY <1>4
  <2>2. PICK l \in Nat : l = left[count - (k + 1)]
    BY <1>2, <2>1 DEF IsDigits
  <2>3. left[(count - (k + 1)) + 1] = l \div 10
    BY <1>2, <2>1, <2>2 DEF IsDigits
  <2>4. u[k] = l \div 10
    BY <1>5, <2>1, <2>3
  <2>5. ds[k + 1] = 48 + (l % 10)
    BY <1>4, <2>1, <2>2
  <2>6. u[k + 1] = u[k] * 10 + (ds[k + 1] - 48)
    BY <1>3, <1>4, <1>5 DEF IsValue
  <2>7. u[k + 1] = (l \div 10) * 10 + ((48 + (l % 10)) - 48)
    BY <2>4, <2>5, <2>6
  <2>8. (l \div 10) * 10 + ((48 + (l % 10)) - 48) = l
    OBVIOUS
  <2>. QED  BY <2>2, <2>7, <2>8
<1>6. u[0] = left[count - 0]
  <2>1. count - 0 = count
    BY <1>4
  <2>. QED  BY <1>2, <1>3, <2>1 DEF IsDigits, IsValue
<1>7. u[count] = left[count - count]
  <2>. DEFINE P == {k \in 0..count : u[k] = left[count - k]}
  <2>1. 0 \in P
    BY <1>4, <1>6
  <2>2. \A k \in 0..(count - 1) : k \in P => k + 1 \in P
    BY <1>4, <1>5
  <2>. HIDE DEF P
  <2>3. \A k \in 0..count : k \in P
    BY <1>4, <2>1, <2>2, CountUp
  <2>4. count \in P
    BY <1>4, <2>3
  <2>. QED  BY <2>4 DEF P
<1>8. ValueOf(ds, 10) = n
  <2>1. count - count = 0
    BY <1>4
  <2>. QED  BY <1>2, <1>3, <1>4, <1>7, <2>1 DEF IsDigits, IsValue
<1>9. IsNumber(ds, 10)
  <2>1. ds \in Seq(Byte) /\ Len(ds) \in Nat \ {0} /\ \A k \in 1..Len(ds) : ds[k] \in 48..57
    BY <1>1, DigitsBytes
  <2>2. DOMAIN ds = 1..Len(ds) /\ Len(ds) > 0 /\ 48 + 10 - 1 = 57
    BY <2>1
  <2>. QED  BY <2>1, <2>2 DEF IsNumber
<1>. QED  BY <1>1, <1>8, <1>9

\* What a number is after it was written and read: nil has become zero.
Normal(v) == IF v = Nil THEN <<0>> ELSE v

LEMMA NumberRoundTrip ==
  ASSUME NEW old, NEW v \in Numbers
  PROVE  /\ Number_Unmarshal(old, Number_Marshal(v)) = [st |-> "ok", m |-> Normal(v)]
         /\ Normal(v) \in Numbers
<1>. DEFINE Parsed(sign, digits, base) ==
              IF IsNumber(digits, base) THEN [st |-> "ok", m |-> <<sign * ValueOf(digits, base)>>]
                                        ELSE [st |-> "err", m |-> old]
            Unsigned(sign, digits) ==
              Parsed(sign, digits, IF Len(digits) > 1 /\ digits[1] = 48 THEN 8 ELSE 10)
<1>1. \A bz : Number_Unmarshal(old, bz) =
        IF bz = <<>> THEN [st |-> "ok", m |-> old]
        ELSE IF bz[1] = 45 THEN Unsigned(-1, Tail(bz))
        ELSE Unsigned(1, bz)
  BY Zenon DEF Number_Unmarshal
<1>2. ASSUME NEW sign \in {-1, 1}, NEW n \in Nat
      PROVE  Unsigned(sign, Digits(n)) = [st |-> "ok", m |-> <<sign * n>>]
  <2>1. PICK ds : ds = Digits(n)
    OBVIOUS
  <2>2. ds \in Seq(Byte) /\ ~ (Len(ds) > 1 /\ ds[1] = 48)
    BY <2>1, DigitsBytes
  <2>3. IsNumber(ds, 10) /\ ValueOf(ds, 10) = n
    BY <2>1, DigitsValue
  <2>4. Unsigned(sign, ds) = Parsed(sign, ds, 10)
    BY <2>2
  <2>. QED  BY <2>1, <2>3, <2>4
<1>. HIDE DEF Unsigned
<1>3. ASSUME NEW n \in Nat
      PROVE  Number_Unmarshal(old, Digits(n)) = [st |-> "ok", m |-> <<n>>]
  <2>1. PICK ds : ds = Digits(n)
    OBVIOUS
  <2>2. ds \in Seq(Byte) /\ Len(ds) \in Nat \ {0} /\ ds[1] \in 48..57
    <3>1. ds \in Seq(Byte) /\ Len(ds) \in Nat \ {0} /\ \A k \in 1..Len(ds) : ds[k] \in 48..57
      BY <2>1, DigitsBytes
    <3>2. 1 \in 1..Len(ds)
      BY <3>1
    <3>. QED  BY <3>1, <3>2
  <2>3. ds # <<>> /\ ds[1] # 45
    BY <2>2
  <2>4. Number_Unmarshal(old, ds) = Unsigned(1, ds)
    BY <1>1, <2>3
  <2>5. 1 * n = n
    OBVIOUS
  <2>. QED  BY <1>2, <2>1, <2>4, <2>5
<1>4. CASE v = Nil
  BY <1>3, <1>4, NumberFacts DEF Number_Marshal, Normal
<1>5. CASE v # Nil /\ ~ (v[1] < 0)
  <2>1. v[1] \in Nat /\ v = <<v[1]>>
    BY <1>5, NumberFacts
  <2>. QED  BY <1>3, <1>5, <2>1 DEF Number_Marshal, Normal
<1>6. CASE v # Nil /\ v[1] < 0
  <2>1. PICK n \in Nat : n = -v[1]
    BY <1>6, NumberFacts
  <2>2. v = <<v[1]>> /\ -1 * n = v[1]
    BY <1>6, <2>1, NumberFacts
  <2>3. PICK ds : ds = Digits(n)
    OBVIOUS
  <2>4. ds \in Seq(Byte)
    BY <2>3, DigitsBytes
  <2>5. PICK bz : bz = <<45>> \o ds
    OBVIOUS
  <2>6. bz # <<>> /\ bz[1] = 45 /\ Tail(bz) = ds
    BY <2>4, <2>5
  <2>7. Number_Unmarshal(old, bz) = Unsigned(-1, ds)
    BY <1>1, <2>6
  <2>8. Number_Marshal(v) = bz
    BY <1>6, <2>1, <2>3, <2>5 DEF Number_Marshal
  <2>. QED  BY <1>2, <1>6, <2>2, <2>3, <2>7, <2>8 DEF Normal
<1>. QED  BY <1>4, <1>5, <1>6

-----------------------------------------------------------------------------
(* The kinds of fields, at each depth.                                     *)

\* The records of M have a field of that name, and its values are those of S.
Holds(M, name, S) ==
  \A m \in M : m[name] \in S /\ \A v \in S : [m EXCEPT ![name] = v] \in M

LEMMA FieldFacts ==
  ASSUME NEW name, NEW fields, NEW zero
  PROVE  /\ String(name).kind = "string" /\ String(name).name = name
         /\ Uint64(name).kind = "uint64" /\ Uint64(name).name = name
         /\ Number(name).kind = "number" /\ Number(name).name = name
         /\ Message(name, fields).kind = "message" /\ Message(name, fields).name = name
         /\ Message(name, fields).fields = fields
         /\ Repeated(name, fields, zero).kind = "repeated" /\ Repeated(name, fields, zero).name = name
         /\ Repeated(name, fields, zero).fields = fields /\ Repeated(name, fields, zero).zero = zero
BY DEF String, Uint64, Number, Message, Repeated, Field

\* A decoder that yields a value of S, or an error.
LEMMA HoldsAccepts ==
  ASSUME NEW M, NEW name, NEW S, Holds(M, name, S), NEW m \in M,
         NEW new, new.st \in {"ok", "err"}, new.st = "ok" => new.m \in S
  PROVE  Accepts(M, m, name, new)
BY DEF Holds, Accepts

LEMMA StringTakes0 ==
  ASSUME NEW M, NEW name, Holds(M, name, Strings)
  PROVE  Takes(decodeScalar, String(name), M)
<1>1. PICK field : field = String(name)
  OBVIOUS
<1>2. field.kind = "string" /\ field.name = name
  BY <1>1, FieldFacts
<1>3. ASSUME NEW m \in M, NEW bz \in Buffers
      PROVE  Accepts(M, m, name, decodeScalar(field, m[name], bz))
  <2>1. decodeScalar(field, m[name], bz) = [st |-> "ok", m |-> bz]
    BY <1>2 DEF decodeScalar
  <2>2. bz \in Strings
    BY DEF Buffers, Strings
  <2>. QED  BY <2>1, <2>2, HoldsAccepts
<1>. QED  BY <1>1, <1>2, <1>3 DEF Takes

LEMMA NumberTakes0 ==
  ASSUME NEW M, NEW name, Holds(M, name, Numbers)
  PROVE  Takes(decodeScalar, Number(name), M)
<1>1. PICK field : field = Number(name)
  OBVIOUS
<1>2. field.kind = "number" /\ field.name = name
  BY <1>1, FieldFacts
<1>3. ASSUME NEW m \in M, NEW bz \in Buffers
      PROVE  Accepts(M, m, name, decodeScalar(field, m[name], bz))
  <2>1. PICK r : r = Number_Unmarshal(m[name], bz)
    OBVIOUS
  <2>2. decodeScalar(field, m[name], bz) = r
    BY <1>2, <2>1 DEF decodeScalar
  <2>3. m[name] \in Numbers /\ bz \in Seq(Byte)
    BY DEF Holds, Buffers
  <2>4. r.st \in {"ok", "err"} /\ r.m \in Numbers
    BY <2>1, <2>3, NumberReads
  <2>. QED  BY <2>2, <2>4, HoldsAccepts
<1>. QED  BY <1>1, <1>2, <1>3 DEF Takes

LEMMA StringTakes1 ==
  ASSUME NEW M, NEW name, Holds(M, name, Strings)
  PROVE  Takes(decodeField1, String(name), M)
<1>1. PICK field : field = String(name)
  OBVIOUS
<1>2. field.kind = "string" /\ field.name = name
  BY <1>1, FieldFacts
<1>3. ASSUME NEW m \in M, NEW bz \in Buffers
      PROVE  Accepts(M, m, name, decodeField1(field, m[name], bz))
  <2>1. decodeField1(field, m[name], bz) = [st |-> "ok", m |-> bz]
    BY <1>2 DEF decodeField1, decodeField, decodeScalar
  <2>2. bz \in Strings
    BY DEF Buffers, Strings
  <2>. QED  BY <2>1, <2>2, HoldsAccepts
<1>. QED  BY <1>1, <1>2, <1>3 DEF Takes

LEMMA NumberTakes1 ==
  ASSUME NEW M, NEW name, Holds(M, name, Numbers)
  PROVE  Takes(decodeField1, Number(name), M)
<1>1. PICK field : field = Number(name)
  OBVIOUS
<1>2. field.kind = "number" /\ field.name = name
  BY <1>1, FieldFacts
<1>3. ASSUME NEW m \in M, NEW bz \in Buffers
      PROVE  Accepts(M, m, name, decodeField1(field, m[name], bz))
  <2>1. PICK r : r = Number_Unmarshal(m[name], bz)
    OBVIOUS
  <2>2. decodeField1(field, m[name], bz) = r
    BY <1>2, <2>1 DEF decodeField1, decodeField, decodeScalar
  <2>3. m[name] \in Numbers /\ bz \in Seq(Byte)
    BY DEF Holds, Buffers
  <2>4. r.st \in {"ok", "err"} /\ r.m \in Numbers
    BY <2>1, <2>3, NumberReads
  <2>. QED  BY <2>2, <2>4, HoldsAccepts
<1>. QED  BY <1>1, <1>2, <1>3 DEF Takes

LEMMA MessageTakes1 ==
  ASSUME NEW M, NEW name, NEW S, Holds(M, name, S), NEW fields, Decodes(decodeScalar, fields, S)
  PROVE  Takes(decodeField1, Message(name, fields), M)
<1>1. PICK field : field = Message(name, fields)
  OBVIOUS
<1>2. field.kind = "message" /\ field.name = name /\ field.fields = fields
  BY <1>1, FieldFacts
<1>3. ASSUME NEW m \in M, NEW bz \in Buffers
      PROVE  Accepts(M, m, name, decodeField1(field, m[name], bz))
  <2>1. PICK r : r = Unmarshal0(fields, m[name], bz)
    OBVIOUS
  <2>2. decodeField1(field, m[name], bz) = r
    BY <1>2, <2>1 DEF decodeField1, decodeField
  <2>3. m[name] \in S
    BY DEF Holds
  <2>4. r.st \in {"ok", "err"} /\ r.m \in S
    BY <2>1, <2>3, Unmarshal0Types
  <2>. QED  BY <2>2, <2>4, HoldsAccepts
<1>. QED  BY <1>1, <1>2, <1>3 DEF Takes

LEMMA StringTakes2 ==
  ASSUME NEW M, NEW name, Holds(M, name, Strings)
  PROVE  Takes(decodeField2, String(name), M)
<1>1. PICK field : field = String(name)
  OBVIOUS
<1>2. field.kind = "string" /\ field.name = name
  BY <1>1, FieldFacts
<1>3. ASSUME NEW m \in M, NEW bz \in Buffers
      PROVE  Accepts(M, m, name, decodeField2(field, m[name], bz))
  <2>1. decodeField2(field, m[name], bz) = [st |-> "ok", m |-> bz]
    BY <1>2 DEF decodeField2, decodeField, decodeScalar
  <2>2. bz \in Strings
    BY DEF Buffers, Strings
  <2>. QED  BY <2>1, <2>2, HoldsAccepts
<1>. QED  BY <1>1, <1>2, <1>3 DEF Takes

LEMMA NumberTakes2 ==
  ASSUME NEW M, NEW name, Holds(M, name, Numbers)
  PROVE  Takes(decodeField2, Number(name), M)
<1>1. PICK field : field = Number(name)
  OBVIOUS
<1>2. field.kind = "number" /\ field.name = name
  BY <1>1, FieldFacts
<1>3. ASSUME NEW m \in M, NEW bz \in Buffers
      PROVE  Accepts(M, m, name, decodeField2(field, m[name], bz))
  <2>1. PICK r : r = Number_Unmarshal(m[name], bz)
    OBVIOUS
  <2>2. decodeField2(field, m[name], bz) = r
    BY <1>2, <2>1 DEF decodeField2, decodeField, decodeScalar
  <2>3. m[name] \in Numbers /\ bz \in Seq(Byte)
    BY DEF Holds, Buffers
  <2>4. r.st \in {"ok", "err"} /\ r.m \in Numbers
    BY <2>1, <2>3, NumberReads
  <2>. QED  BY <2>2, <2>4, HoldsAccepts
<1>. QED  BY <1>1, <1>2, <1>3 DEF Takes

LEMMA Uint64Takes2 ==
  ASSUME NEW M, NEW name, Holds(M, name, Word)
  PROVE  Takes(decodeField2, Uint64(name), M)
<1>1. PICK field : field = Uint64(name)
  OBVIOUS
<1>2. field.kind = "uint64" /\ field.name = name
  BY <1>1, FieldFacts
<1>. QED  BY <1>1, <1>2 DEF Takes, Holds

LEMMA MessageTakes2 ==
  ASSUME NEW M, NEW name, NEW S, Holds(M, name, S), NEW fields, Decodes(decodeField1, fields, S)
  PROVE  Takes(decodeField2, Message(name, fields), M)
<1>1. PICK field : field = Message(name, fields)
  OBVIOUS
<1>2. field.kind = "message" /\ field.name = name /\ field.fields = fields
  BY <1>1, FieldFacts
<1>3. ASSUME NEW m \in M, NEW bz \in Buffers
      PROVE  Accepts(M, m, name, decodeField2(field, m[name], bz))
  <2>1. PICK r : r = Unmarshal1(fields, m[name], bz)
    OBVIOUS
  <2>2. decodeField2(field, m[name], bz) = r
    BY <1>2, <2>1 DEF decodeField2, decodeField
  <2>3. m[name] \in S
    BY DEF Holds
  <2>4. r.st \in {"ok", "err"} /\ r.m \in S
    BY <2>1, <2>3, Unmarshal1Types
  <2>. QED  BY <2>2, <2>4, HoldsAccepts
<1>. QED  BY <1>1, <1>2, <1>3 DEF Takes

LEMMA RepeatedTakes2 ==
  ASSUME NEW M, NEW name, NEW S, Holds(M, name, Seq(S)), NEW fields, Decodes(decodeField1, fields, S),
         NEW zero \in S
  PROVE  Takes(decodeField2, Repeated(name, fields, zero), M)
<1>1. PICK field : field = Repeated(name, fields, zero)
  OBVIOUS
<1>2. /\ field.kind = "repeated" /\ field.name = name
      /\ field.fields = fields /\ field.zero = zero
  BY <1>1, FieldFacts
<1>3. ASSUME NEW m \in M, NEW bz \in Buffers
      PROVE  Accepts(M, m, name, decodeField2(field, m[name], bz))
  <2>1. PICK r : r = Unmarshal1(fields, zero, bz)
    OBVIOUS
  <2>2. decodeField2(field, m[name], bz) = [st |-> r.st, m |-> Append(m[name], r.m)]
    BY <1>2, <2>1 DEF decodeField2, decodeField
  <2>3. m[name] \in Seq(S)
    BY DEF Holds
  <2>4. r.st \in {"ok", "err"} /\ r.m \in S
    BY <2>1, Unmarshal1Types
  <2>5. Append(m[name], r.m) \in Seq(S)
    BY <2>3, <2>4
  <2>. QED  BY <2>2, <2>4, <2>5, HoldsAccepts, SMTT(30)
<1>. QED  BY <1>1, <1>2, <1>3 DEF Takes

-----------------------------------------------------------------------------
(* Division.                                                               *)

LEMMA DivisionUnique ==
  ASSUME NEW b \in Nat \ {0}, NEW q \in Nat, NEW r \in Nat, r < b, NEW a, a = b * q + r
  PROVE  a \div b = q /\ a % b = r
OBVIOUS

LEMMA DivisionExact ==
  ASSUME NEW b \in Nat \ {0}, NEW a \in Nat
  PROVE  /\ a \div b \in Nat /\ a % b \in Nat /\ a % b < b
         /\ a = (b * (a \div b)) + (a % b)
OBVIOUS

LEMMA Distribute ==
  ASSUME NEW p \in Nat, NEW x \in Nat, NEW d \in Nat, NEW r \in Nat
  PROVE  /\ (p * ((128 * x) + d)) + r = ((128 * p) * x) + ((d * p) + r)
         /\ d * p \in Nat /\ (128 * p) * x \in Nat
OBVIOUS

LEMMA DigitBound ==
  ASSUME NEW p \in Nat \ {0}, NEW d \in 0..127, NEW r \in Nat, r < p
  PROVE  (d * p) + r < 128 * p /\ (d * p) + r \in Nat /\ 128 * p \in Nat \ {0}
<1>1. (127 - d) * p \in Nat
  OBVIOUS
<1>2. (127 - d) * p = (127 * p) - (d * p)
  OBVIOUS
<1>3. d * p \in Nat
  OBVIOUS
<1>. QED  BY <1>1, <1>2, <1>3

LEMMA NextDigit ==
  ASSUME NEW p \in Nat \ {0}, NEW v \in Nat
  PROVE  v % (128 * p) = (v % p) + (((v \div p) % 128) * p)
<1>1. PICK q \in Nat : q = v \div p
  BY DivisionExact
<1>2. PICK r \in Nat : r = v % p
  BY DivisionExact
<1>3. v = (p * q) + r /\ r < p
  BY <1>1, <1>2, DivisionExact
<1>4. PICK x \in Nat : x = q \div 128
  OBVIOUS
<1>5. PICK d \in 0..127 : d = q % 128
  OBVIOUS
<1>6. q = (128 * x) + d
  BY <1>4, <1>5
<1>7. v = ((128 * p) * x) + ((d * p) + r)
  BY <1>3, <1>6, Distribute
<1>8. (d * p) + r < 128 * p /\ (d * p) + r \in Nat /\ 128 * p \in Nat \ {0}
  BY <1>3, DigitBound
<1>9. PICK c \in Nat \ {0} : c = 128 * p
  BY <1>8
<1>10. PICK e \in Nat : e = (d * p) + r
  BY <1>8
<1>11. v % c = e
  <2>1. v = (c * x) + e /\ e < c
    BY <1>7, <1>8, <1>9, <1>10
  <2>. QED  BY <2>1, DivisionUnique
<1>12. d * p \in Nat
  OBVIOUS
<1>13. e = r + (d * p)
  BY <1>10, <1>12
<1>. QED  BY <1>1, <1>2, <1>5, <1>9, <1>11, <1>13

-----------------------------------------------------------------------------
(* What was written is what is read: varints.                              *)

\* What dAtA holds from index i on.
IsTail(dAtA, i, t) ==
  /\ i \in Nat /\ t \in Seq(Byte) /\ i + Len(t) = Len(dAtA)
  /\ \A k \in 1..Len(t) : dAtA[i + k] = t[k]

LEMMA TailOf ==
  ASSUME NEW dAtA, NEW i, NEW s \in Seq(Byte), NEW t \in Seq(Byte), IsTail(dAtA, i, s \o t)
  PROVE  /\ IsTail(dAtA, i + Len(s), t)
         /\ i \in Nat /\ i + Len(s) <= Len(dAtA)
         /\ \A k \in 1..Len(s) : dAtA[i + k] = s[k]
<1>1. /\ i \in Nat /\ i + (Len(s) + Len(t)) = Len(dAtA)
      /\ \A k \in 1..(Len(s) + Len(t)) : dAtA[i + k] = (s \o t)[k]
  BY DEF IsTail
<1>2. Len(s) \in Nat /\ Len(t) \in Nat
  OBVIOUS
<1>3. ASSUME NEW k \in 1..Len(s) PROVE dAtA[i + k] = s[k]
  BY <1>1, <1>2
<1>4. ASSUME NEW k \in 1..Len(t) PROVE dAtA[(i + Len(s)) + k] = t[k]
  <2>1. Len(s) + k \in 1..(Len(s) + Len(t)) /\ (i + Len(s)) + k = i + (Len(s) + k)
    BY <1>1, <1>2
  <2>2. (s \o t)[Len(s) + k] = t[k]
    BY <1>2
  <2>. QED  BY <1>1, <2>1, <2>2
<1>. QED  BY <1>1, <1>2, <1>3, <1>4 DEF IsTail

LEMMA PowersOf128 ==
  /\ Pow2[7] = 128
  /\ \A k \in 0..(WordBits - 1) : Pow2[k + 7] = 128 * Pow2[k]
<1>1. \A k \in 0..(WordBits + 6) : Pow2[k] \in Nat
  BY Powers
<1>2. ASSUME NEW k \in 0..(WordBits - 1) PROVE Pow2[k + 7] = 128 * Pow2[k]
  <2>1. /\ k \in 0..(WordBits + 5) /\ k + 1 \in 0..(WordBits + 5) /\ k + 2 \in 0..(WordBits + 5)
        /\ k + 3 \in 0..(WordBits + 5) /\ k + 4 \in 0..(WordBits + 5)
        /\ k + 5 \in 0..(WordBits + 5) /\ k + 6 \in 0..(WordBits + 5)
    BY Widths
  <2>2. /\ Pow2[k + 1] = 2 * Pow2[k] /\ Pow2[(k + 1) + 1] = 2 * Pow2[k + 1]
        /\ Pow2[(k + 2) + 1] = 2 * Pow2[k + 2] /\ Pow2[(k + 3) + 1] = 2 * Pow2[k + 3]
        /\ Pow2[(k + 4) + 1] = 2 * Pow2[k + 4] /\ Pow2[(k + 5) + 1] = 2 * Pow2[k + 5]
        /\ Pow2[(k + 6) + 1] = 2 * Pow2[k + 6]
    BY <2>1, Powers
  <2>3. /\ (k + 1) + 1 = k + 2 /\ (k + 2) + 1 = k + 3 /\ (k + 3) + 1 = k + 4
        /\ (k + 4) + 1 = k + 5 /\ (k + 5) + 1 = k + 6 /\ (k + 6) + 1 = k + 7
    OBVIOUS
  <2>4. Pow2[k] \in Nat
    BY <1>1, Widths
  <2>. QED  BY <2>2, <2>3, <2>4
<1>3. Pow2[0 + 7] = 128 * Pow2[0]
  BY <1>2, Widths
<1>. QED  BY <1>2, <1>3, Powers

LEMMA PowersGrow ==
  ASSUME NEW a \in Nat, NEW b \in Nat, a <= b, b <= WordBits + 6
  PROVE  Pow2[a] <= Pow2[b]
<1>. DEFINE P == {k \in 0..(b - a) : Pow2[a] <= Pow2[a + k]}
<1>1. b - a \in Nat /\ \A k \in 0..(WordBits + 6) : Pow2[k] \in Nat
  BY Powers
<1>2. 0 \in P
  <2>1. Pow2[a] \in Nat /\ a + 0 = a
    BY <1>1, Widths
  <2>. QED  BY <1>1, <2>1
<1>3. ASSUME NEW k \in 0..((b - a) - 1), k \in P PROVE k + 1 \in P
  <2>1. a + k \in 0..(WordBits + 5) /\ a \in 0..(WordBits + 6) /\ a + (k + 1) = (a + k) + 1
    BY Widths
  <2>2. Pow2[(a + k) + 1] = 2 * Pow2[a + k] /\ Pow2[a + k] \in Nat /\ Pow2[a] \in Nat
    BY <1>1, <2>1, Powers, Widths
  <2>3. Pow2[a] <= Pow2[a + k]
    BY <1>3
  <2>4. k + 1 \in 0..(b - a)
    BY <1>1
  <2>. QED  BY <2>1, <2>2, <2>3, <2>4
<1>. HIDE DEF P
<1>4. \A k \in 0..(b - a) : k \in P
  BY <1>1, <1>2, <1>3, CountUp
<1>5. b - a \in P
  BY <1>1, <1>4
<1>6. Pow2[a] <= Pow2[a + (b - a)]
  BY <1>5 DEF P
<1>7. a + (b - a) = b
  OBVIOUS
<1>. QED  BY <1>6, <1>7

\* A word fits in the bytes that sov counts, and in no fewer.
LEMMA SovFits ==
  ASSUME NEW v \in Word
  PROVE  /\ v \in Nat /\ sov(v) \in Nat \ {0} /\ sov(v) - 1 \in 0..((WordBits - 1) \div 7)
         /\ 7 * sov(v) <= WordBits + 6
         /\ v < Pow2[7 * sov(v)]
         /\ v < Pow2[WordBits]
<1>1. v \in Nat /\ v < Pow2[WordBits] /\ Pow2[WordBits] \in Nat
  BY HalfFacts DEF Word
<1>2. PICK top : top = (WordBits + 6) \div 7
  OBVIOUS
<1>3. top \in Nat \ {0} /\ 7 * top <= WordBits + 6 /\ WordBits <= 7 * top /\ top - 1 = (WordBits - 1) \div 7
  BY <1>2, Widths
<1>4. PICK n : n = sov(v)
  OBVIOUS
<1>5. n \in 1..top /\ (v < Pow2[7 * n] \/ n = top)
  BY <1>1, <1>2, <1>4, SovType
<1>6. Pow2[WordBits] <= Pow2[7 * top]
  BY <1>3, PowersGrow, Widths
<1>7. Pow2[7 * top] \in Nat
  BY <1>3, Powers, Widths
<1>8. v < Pow2[7 * n]
  BY <1>1, <1>5, <1>6, <1>7
<1>9. n \in Nat \ {0} /\ n - 1 \in 0..(top - 1) /\ 7 * n <= WordBits + 6
  BY <1>3, <1>5, Widths
<1>. QED  BY <1>1, <1>3, <1>4, <1>8, <1>9

LEMMA VarintRoundTrip ==
  ASSUME NEW dAtA \in Seq(Byte), NEW i, NEW v \in Word, NEW tail \in Seq(Byte),
         IsTail(dAtA, i, encodeVarint(v) \o tail)
  PROVE  /\ decodeVarint(dAtA, i) = [st |-> "ok", i |-> i + sov(v), v |-> v]
         /\ IsTail(dAtA, i + sov(v), tail)
         /\ i \in Nat /\ i + sov(v) <= Len(dAtA)
<1>. DEFINE P(k) == Pow2[7 * k]
<1>1. PICK n : n = sov(v)
  OBVIOUS
<1>2. PICK l : l = n - 1
  OBVIOUS
<1>3. /\ v \in Nat /\ n \in Nat \ {0} /\ l \in 0..((WordBits - 1) \div 7) /\ l \in Nat /\ l + 1 = n
      /\ 7 * n <= WordBits + 6 /\ v < P(n) /\ v < Pow2[WordBits]
  BY <1>1, <1>2, SovFits
<1>4. encodeVarint(v) \in Seq(Byte) /\ Len(encodeVarint(v)) = n
  BY <1>1, <1>3, EncodeVarintBytes
<1>5. /\ IsTail(dAtA, i + n, tail) /\ i \in Nat /\ i + n <= Len(dAtA)
      /\ \A k \in 1..n : dAtA[i + k] = encodeVarint(v)[k]
  BY <1>4, TailOf
<1>6. ASSUME NEW k \in 0..l
      PROVE  /\ P(k) \in Nat \ {0} /\ (v \div P(k)) % 128 \in 0..127
             /\ dAtA[i + k + 1] = ((v \div P(k)) % 128) + (IF k < l THEN 128 ELSE 0)
  <2>1. k + 1 \in 1..n /\ (k + 1) - 1 = k /\ i + (k + 1) = i + k + 1 /\ (k + 1 < n <=> k < l)
    BY <1>3, <1>5
  <2>2. encodeVarint(v)[k + 1] =
          ((v \div Pow2[7 * ((k + 1) - 1)]) % 128) + (IF k + 1 < n THEN 128 ELSE 0)
    BY <1>1, <2>1 DEF encodeVarint
  <2>3. encodeVarint(v)[k + 1] = ((v \div P(k)) % 128) + (IF k < l THEN 128 ELSE 0)
    BY <2>1, <2>2
  <2>4. 7 * k \in 0..(WordBits + 6)
    BY <1>3, Widths
  <2>5. P(k) \in Nat \ {0}
    BY <2>4, Powers
  <2>6. PICK p \in Nat \ {0} : p = P(k)
    BY <2>5
  <2>7. PICK q \in Nat : q = v \div p
    BY <1>3, DivisionExact
  <2>8. q % 128 \in 0..127
    OBVIOUS
  <2>. QED  BY <1>5, <2>1, <2>3, <2>5, <2>6, <2>7, <2>8
<1>. HIDE DEF P
<1>7. IsVarint(dAtA, i, l)
  <2>1. i + l < Len(dAtA)
    BY <1>3, <1>5
  <2>2. ASSUME NEW k \in 0..(l - 1) PROVE dAtA[i + k + 1] >= 128
    <3>1. k \in 0..l /\ k < l
      BY <1>3
    <3>2. PICK d \in 0..127 : d = (v \div P(k)) % 128
      BY <1>6, <3>1
    <3>3. dAtA[i + k + 1] = d + 128
      BY <1>6, <3>1, <3>2
    <3>. QED  BY <3>3
  <2>3. dAtA[i + l + 1] < 128
    <3>1. l \in 0..l /\ ~ (l < l)
      BY <1>3
    <3>2. PICK d \in 0..127 : d = (v \div P(l)) % 128
      BY <1>6, <3>1
    <3>3. dAtA[i + l + 1] = d + 0
      BY <1>6, <3>1, <3>2
    <3>. QED  BY <3>3
  <2>. QED  BY <1>3, <2>1, <2>2, <2>3 DEF IsVarint
<1>8. PICK value :
        /\ IsVarintSum(dAtA, i, l, value)
        /\ decodeVarint(dAtA, i) = [st |-> "ok", i |-> i + l + 1, v |-> value[l] % Pow2[WordBits]]
  BY <1>3, <1>5, <1>7, VarintSum
<1>9. ASSUME NEW k \in 0..l
      PROVE  (dAtA[i + k + 1] % 128) * Pow2[7 * k] = ((v \div P(k)) % 128) * P(k)
  <2>1. PICK d \in 0..127 : d = (v \div P(k)) % 128
    BY <1>6
  <2>2. dAtA[i + k + 1] = d + 0 \/ dAtA[i + k + 1] = d + 128
    BY <1>6, <2>1
  <2>3. (d + 0) % 128 = d /\ (d + 128) % 128 = d
    OBVIOUS
  <2>4. dAtA[i + k + 1] % 128 = d
    BY <2>2, <2>3
  <2>. QED  BY <2>1, <2>4 DEF P
<1>10. value[0] = ((v \div P(0)) % 128) * P(0)
  <2>1. value[0] = (dAtA[i + 0 + 1] % 128) * Pow2[7 * 0]
    BY <1>8 DEF IsVarintSum
  <2>2. 0 \in 0..l
    BY <1>3
  <2>. QED  BY <1>9, <2>1, <2>2
<1>11. ASSUME NEW k \in 0..(l - 1)
       PROVE  value[k + 1] = value[k] + (((v \div P(k + 1)) % 128) * P(k + 1))
  <2>1. value[k + 1] = value[k] + ((dAtA[i + (k + 1) + 1] % 128) * Pow2[7 * (k + 1)])
    BY <1>8, <1>11 DEF IsVarintSum
  <2>2. k + 1 \in 0..l
    BY <1>3
  <2>. QED  BY <1>9, <2>1, <2>2
<1>12. ASSUME NEW k \in 0..l
       PROVE  v % P(k + 1) = (v % P(k)) + (((v \div P(k)) % 128) * P(k))
  <2>1. 7 * k \in 0..(WordBits - 1) /\ 7 * (k + 1) = (7 * k) + 7
    BY <1>3, Widths
  <2>2. P(k + 1) = 128 * P(k)
    BY <2>1, PowersOf128 DEF P
  <2>3. PICK p \in Nat \ {0} : p = P(k)
    BY <1>6
  <2>4. v % (128 * p) = (v % p) + (((v \div p) % 128) * p)
    BY <1>3, NextDigit
  <2>. QED  BY <2>2, <2>3, <2>4
<1>13. v % P(0) = 0
  <2>1. P(0) = 1
    BY Powers DEF P
  <2>. QED  BY <1>3, <2>1
<1>14. ASSUME NEW k \in 0..l PROVE v % P(k) \in Nat /\ ((v \div P(k)) % 128) * P(k) \in Nat
  <2>1. PICK p \in Nat \ {0} : p = P(k)
    BY <1>6
  <2>2. PICK d \in 0..127 : d = (v \div P(k)) % 128
    BY <1>6
  <2>3. v % p \in Nat
    BY <1>3, DivisionExact
  <2>4. d * p \in Nat
    OBVIOUS
  <2>. QED  BY <2>1, <2>2, <2>3, <2>4
<1>15. value[l] = v % P(l + 1)
  <2>. DEFINE Q == {k \in 0..l : value[k] = v % P(k + 1)}
  <2>1. 0 \in Q
    <3>1. 0 \in 0..l
      BY <1>3
    <3>2. v % P(0 + 1) = 0 + (((v \div P(0)) % 128) * P(0))
      BY <1>12, <1>13, <3>1
    <3>3. ((v \div P(0)) % 128) * P(0) \in Nat
      BY <1>14, <3>1
    <3>4. value[0] = v % P(0 + 1)
      BY <1>10, <3>2, <3>3
    <3>. QED  BY <3>1, <3>4
  <2>2. ASSUME NEW k \in 0..(l - 1), k \in Q PROVE k + 1 \in Q
    <3>1. k + 1 \in 0..l
      BY <1>3
    <3>2. value[k] = v % P(k + 1)
      BY <2>2
    <3>3. v % P((k + 1) + 1) = (v % P(k + 1)) + (((v \div P(k + 1)) % 128) * P(k + 1))
      BY <1>12, <3>1
    <3>4. value[k + 1] = v % P((k + 1) + 1)
      BY <1>11, <3>2, <3>3
    <3>. QED  BY <3>1, <3>4
  <2>. HIDE DEF Q
  <2>3. \A k \in 0..l : k \in Q
    BY <1>3, <2>1, <2>2, CountUp
  <2>4. l \in Q
    BY <1>3, <2>3
  <2>. QED  BY <2>4 DEF Q
<1>16. value[l] % Pow2[WordBits] = v
  <2>1. PICK p : p = P(n)
    OBVIOUS
  <2>2. p \in Nat \ {0}
    <3>1. 7 * n \in 0..(WordBits + 6)
      BY <1>3, Widths
    <3>. QED  BY <2>1, <3>1, Powers DEF P
  <2>3. PICK w \in Nat \ {0} : w = Pow2[WordBits]
    BY HalfFacts
  <2>4. value[l] = v % p /\ v < p /\ v < w
    BY <1>3, <1>15, <2>1, <2>3
  <2>5. v % p = v /\ v % w = v
    BY <1>3, <2>2, <2>4, SMTT(30)
  <2>. QED  BY <2>3, <2>4, <2>5
<1>17. i + l + 1 = i + n
  BY <1>3, <1>5
<1>. QED  BY <1>1, <1>5, <1>8, <1>16, <1>17

-----------------------------------------------------------------------------
(* What was written is what is read: fields.                               *)

LEMMA SmallVarint ==
  ASSUME NEW x \in 0..127
  PROVE  x \in Word /\ encodeVarint(x) = <<x>>
<1>1. Pow2[7] = 128 /\ Pow2[0] = 1
  BY PowersOf128, Powers
<1>2. x \in Word
  <2>1. Pow2[7] <= Pow2[WordBits]
    BY PowersGrow, Widths
  <2>2. Pow2[WordBits] \in Nat
    BY HalfFacts
  <2>. QED  BY <1>1, <2>1, <2>2 DEF Word
<1>3. PICK n : n = sov(x)
  OBVIOUS
<1>4. n = 1
  <2>1. n \in 1..((WordBits + 6) \div 7) /\ (n = 1 \/ x >= Pow2[7 * (n - 1)])
    BY <1>3, SovType
  <2>2. SUFFICES ASSUME n # 1 PROVE FALSE
    OBVIOUS
  <2>3. 7 * (n - 1) \in Nat /\ 7 <= 7 * (n - 1) /\ 7 * (n - 1) <= WordBits + 6
    BY <2>1, <2>2, VarintLength, Widths
  <2>4. PICK m \in Nat : m = 7 * (n - 1)
    BY <2>3
  <2>5. Pow2[7] <= Pow2[m]
    BY <2>3, <2>4, PowersGrow
  <2>6. m \in 0..(WordBits + 6)
    BY <2>3, <2>4, Widths
  <2>7. Pow2[m] \in Nat
    BY <2>6, Powers
  <2>8. x >= Pow2[m]
    BY <2>1, <2>2, <2>4
  <2>. QED  BY <1>1, <2>5, <2>7, <2>8
<1>5. encodeVarint(x) = [k \in 1..1 |-> ((x \div Pow2[7 * (k - 1)]) % 128) + (IF k < 1 THEN 128 ELSE 0)]
  BY <1>3, <1>4 DEF encodeVarint
<1>6. ASSUME NEW k \in 1..1
      PROVE  ((x \div Pow2[7 * (k - 1)]) % 128) + (IF k < 1 THEN 128 ELSE 0) = x
  <2>1. k = 1 /\ 7 * (k - 1) = 0
    OBVIOUS
  <2>2. (x \div 1) % 128 = x
    OBVIOUS
  <2>. QED  BY <1>1, <2>1, <2>2
<1>. QED  BY <1>2, <1>5, <1>6

\* Where the loop stands after a tag that was written.
LEMMA TagReads ==
  ASSUME NEW dAtA \in Seq(Byte), NEW i, NEW num \in 1..15, NEW wireType \in {0, 2},
         NEW tail \in Seq(Byte), IsTail(dAtA, i, Tag(num, wireType) \o tail)
  PROVE  /\ readTag(dAtA, i) =
              [st |-> "ok", dAtA |-> dAtA, pre |-> i, i |-> i + 1, type |-> wireType, num |-> num]
         /\ IsTail(dAtA, i + 1, tail)
         /\ i \in Nat /\ i + 1 <= Len(dAtA)
<1>1. PICK x \in 0..127 : x = 8 * num + wireType
  OBVIOUS
<1>2. x % 8 = wireType /\ x \div 8 = num
  <2>1. wireType \in Nat /\ wireType < 8 /\ num \in Nat /\ 8 \in Nat \ {0}
    OBVIOUS
  <2>2. PICK q \in Nat : q = num
    OBVIOUS
  <2>3. PICK r \in Nat : r = wireType
    BY <2>1
  <2>4. r < 8 /\ x = 8 * q + r
    BY <1>1, <2>1, <2>2, <2>3
  <2>5. x \div 8 = q /\ x % 8 = r
    BY <2>1, <2>4, Z3
  <2>. QED  BY <2>2, <2>3, <2>5
<1>3. encodeVarint(x) = Tag(num, wireType) /\ x \in Word
  BY <1>1, SmallVarint DEF Tag
<1>4. sov(x) = 1
  <2>1. x \in Nat
    OBVIOUS
  <2>2. Len(encodeVarint(x)) = sov(x)
    BY <2>1, EncodeVarintBytes
  <2>3. Len(Tag(num, wireType)) = 1
    BY DEF Tag
  <2>. QED  BY <1>3, <2>2, <2>3
<1>5. IsTail(dAtA, i, encodeVarint(x) \o tail)
  BY <1>3
<1>6. PICK wire : wire = decodeVarint(dAtA, i)
  OBVIOUS
<1>7. /\ wire = [st |-> "ok", i |-> i + 1, v |-> x]
      /\ IsTail(dAtA, i + 1, tail) /\ i \in Nat /\ i + 1 <= Len(dAtA)
  BY <1>3, <1>4, <1>5, <1>6, VarintRoundTrip
<1>8. Signed(num, FieldNumBits) = num
  <2>. DEFINE H == Pow2[FieldNumBits - 1]
  <2>1. FieldNumBits - 1 \in 0..(WordBits + 5) /\ (FieldNumBits - 1) + 1 = FieldNumBits
        /\ FieldNumBits - 1 \in Nat /\ 4 <= FieldNumBits - 1 /\ FieldNumBits - 1 <= WordBits + 6
        /\ FieldNumBits - 1 \in 0..(WordBits + 6)
    BY Widths
  <2>2. H \in Nat \ {0} /\ Pow2[FieldNumBits] = 2 * H
    BY <2>1, Powers
  <2>3. Pow2[4] <= H
    BY <2>1, PowersGrow
  <2>4. Pow2[4] = 16
    <3>1. /\ Pow2[0 + 1] = 2 * Pow2[0] /\ Pow2[1 + 1] = 2 * Pow2[1]
          /\ Pow2[2 + 1] = 2 * Pow2[2] /\ Pow2[3 + 1] = 2 * Pow2[3]
      BY Powers, Widths, SMTT(30)
    <3>. QED  BY <3>1, Powers
  <2>5. Signed(num, FieldNumBits) = ((num + H) % (2 * H)) - H
    BY <2>2 DEF Signed
  <2>. HIDE DEF H
  <2>6. (num + H) % (2 * H) = num + H
    <3>1. PICK b \in Nat \ {0} : b = 2 * H
      BY <2>2
    <3>2. PICK r \in Nat : r = num + H
      BY <2>2
    <3>3. r < b
      BY <2>2, <2>3, <2>4, <3>1, <3>2
    <3>. QED  BY <3>1, <3>2, <3>3, SMTT(30)
  <2>. QED  BY <2>2, <2>5, <2>6
<1>9. ~ (wireType = 4 \/ num <= 0)
  OBVIOUS
<1>10. readTag(dAtA, i) =
         [st   |-> IF wire.st = "ok" /\ (wire.v % 8 = 4 \/ Signed(wire.v \div 8, FieldNumBits) <= 0)
                   THEN "err" ELSE wire.st,
          dAtA |-> dAtA, pre |-> i, i |-> wire.i, type |-> wire.v % 8,
          num  |-> Signed(wire.v \div 8, FieldNumBits)]
  BY <1>6 DEF readTag
<1>11. wire.st = "ok" /\ wire.i = i + 1 /\ wire.v = x
  BY <1>7
<1>12. wire.v % 8 = wireType /\ Signed(wire.v \div 8, FieldNumBits) = num
  BY <1>2, <1>8, <1>11
<1>. QED  BY <1>7, <1>9, <1>10, <1>11, <1>12

LEMMA Joining ==
  ASSUME NEW x \in Seq(Byte), NEW y \in Seq(Byte), NEW z \in Seq(Byte)
  PROVE  (x \o y) \o z = x \o (y \o z)
  BY ConcatAssociative

LEMMA PutBytesParts ==
  ASSUME NEW num \in 1..15, NEW bz \in Seq(Byte), NEW tail \in Seq(Byte)
  PROVE  /\ Tag(num, 2) \in Seq(Byte) /\ encodeVarint(Len(bz)) \in Seq(Byte)
         /\ encodeVarint(Len(bz)) \o (bz \o tail) \in Seq(Byte)
         /\ PutBytes(num, bz, tail) = Tag(num, 2) \o (encodeVarint(Len(bz)) \o (bz \o tail))
<1>1. PICK a : a = Tag(num, 2)
  OBVIOUS
<1>2. PICK b : b = encodeVarint(Len(bz))
  OBVIOUS
<1>3. a \in Seq(Byte)
  <2>1. 2 \in 0..5 /\ num \in 1..31
    OBVIOUS
  <2>. QED  BY <1>1, <2>1, TagBytes
<1>4. b \in Seq(Byte)
  <2>1. Len(bz) \in Nat
    OBVIOUS
  <2>. QED  BY <1>2, <2>1, EncodeVarintBytes
<1>5. PutBytes(num, bz, tail) = ((a \o b) \o bz) \o tail
  BY <1>1, <1>2 DEF PutBytes
<1>6. bz \o tail \in Seq(Byte)
  OBVIOUS
<1>7. b \o (bz \o tail) \in Seq(Byte)
  BY <1>4, <1>6
<1>8. ((a \o b) \o bz) \o tail = a \o (b \o (bz \o tail))
  <2>1. a \o b \in Seq(Byte)
    BY <1>3, <1>4
  <2>2. PICK ab \in Seq(Byte) : ab = a \o b
    BY <2>1
  <2>3. PICK bt \in Seq(Byte) : bt = bz \o tail
    BY <1>6
  <2>4. (ab \o bz) \o tail = ab \o (bz \o tail)
    BY Joining
  <2>5. (a \o b) \o bt = a \o (b \o bt)
    BY <1>3, <1>4, Joining, ZenonT(40)
  <2>. QED  BY <2>2, <2>3, <2>4, <2>5
<1>. QED  BY <1>1, <1>2, <1>3, <1>4, <1>5, <1>7, <1>8

\* A length-delimited field.
LEMMA BytesRoundTrip ==
  ASSUME NEW dAtA \in Buffers, NEW i, NEW num \in 1..15, NEW bz \in Seq(Byte),
         NEW tail \in Seq(Byte), IsTail(dAtA, i, PutBytes(num, bz, tail))
  PROVE  LET at == readTag(dAtA, i)
         IN /\ at.st = "ok" /\ at.num = num
            /\ \E j \in (i + 2)..Len(dAtA) : fieldBytes(at) = Read(bz, j) /\ IsTail(dAtA, j, tail)
            /\ i \in Nat /\ i < Len(dAtA) /\ bz \in Buffers
<1>1. PICK at : at = readTag(dAtA, i)
  OBVIOUS
<1>2. PICK l \in Nat : l = Len(bz)
  OBVIOUS
<1>3. dAtA \in Seq(Byte) /\ Len(dAtA) \in Nat /\ Len(dAtA) < Half
  BY BufferFacts
<1>4. PICK b : b = encodeVarint(l)
  OBVIOUS
<1>5. /\ b \in Seq(Byte) /\ b \o (bz \o tail) \in Seq(Byte) /\ bz \o tail \in Seq(Byte)
      /\ IsTail(dAtA, i, Tag(num, 2) \o (b \o (bz \o tail)))
  <2>1. b = encodeVarint(Len(bz))
    BY <1>2, <1>4
  <2>2. /\ b \in Seq(Byte) /\ b \o (bz \o tail) \in Seq(Byte)
        /\ PutBytes(num, bz, tail) = Tag(num, 2) \o (b \o (bz \o tail))
    BY <2>1, PutBytesParts
  <2>3. bz \o tail \in Seq(Byte)
    BY Joined
  <2>. QED  BY <2>2, <2>3
<1>6. /\ at = [st |-> "ok", dAtA |-> dAtA, pre |-> i, i |-> i + 1, type |-> 2, num |-> num]
      /\ IsTail(dAtA, i + 1, b \o (bz \o tail))
      /\ i \in Nat /\ i + 1 <= Len(dAtA)
  <2>1. 2 \in {0, 2}
    OBVIOUS
  <2>. QED  BY <1>1, <1>3, <1>5, <2>1, TagReads, ZenonT(40)
<1>7. b \in Seq(Byte) /\ Len(b) = sov(l) /\ sov(l) \in Nat /\ sov(l) >= 1
  <2>1. sov(l) \in 1..((WordBits + 6) \div 7)
    BY SovType
  <2>. QED  BY <1>4, <2>1, EncodeVarintBytes
<1>8. PICK c \in Nat : c = i + 1 + sov(l)
  BY <1>6, <1>7
<1>9. IsTail(dAtA, c, bz \o tail)
  <2>1. (i + 1) + Len(b) = c
    BY <1>6, <1>7, <1>8
  <2>. QED  BY <1>5, <1>6, <2>1, TailOf
<1>10. /\ IsTail(dAtA, c + l, tail) /\ c + l <= Len(dAtA)
       /\ \A k \in 1..l : dAtA[c + k] = bz[k]
  BY <1>2, <1>9, TailOf
<1>11. l < Half /\ l \in Word /\ c + l < Half
  BY <1>3, <1>10, HalfFacts DEF Word
<1>12. PICK n : n = decodeVarint(dAtA, i + 1)
  OBVIOUS
<1>13. n = [st |-> "ok", i |-> c, v |-> l]
  <2>1. decodeVarint(dAtA, i + 1) = [st |-> "ok", i |-> (i + 1) + sov(l), v |-> l]
    BY <1>3, <1>4, <1>5, <1>6, <1>11, VarintRoundTrip
  <2>. QED  BY <1>8, <1>12, <2>1
<1>14. Int64(l) = l /\ Int64(c + l) = c + l
  BY <1>11, Int64Facts
<1>15. lengthPrefix(dAtA, i + 1) = [st |-> "ok", i |-> c, v |-> c + l]
  <2>1. lengthPrefix(dAtA, i + 1) =
          IF n.st # "ok" THEN n
          ELSE IF Int64(n.v) < 0 \/ Int64(n.i + Int64(n.v)) < 0 \/ Int64(n.i + Int64(n.v)) > Len(dAtA)
               THEN Failed("err")
          ELSE [n EXCEPT !.v = Int64(n.i + Int64(n.v))]
    BY <1>12 DEF lengthPrefix
  <2>2. n.st = "ok" /\ n.v = l /\ n.i = c
    BY <1>13
  <2>3. ~ (Int64(n.v) < 0 \/ Int64(n.i + Int64(n.v)) < 0 \/ Int64(n.i + Int64(n.v)) > Len(dAtA))
    BY <1>3, <1>10, <1>14, <2>2
  <2>4. lengthPrefix(dAtA, i + 1) = [n EXCEPT !.v = Int64(n.i + Int64(n.v))]
    BY <2>1, <2>2, <2>3, Zenon
  <2>. QED  BY <1>13, <1>14, <2>2, <2>4
<1>16. Slice(dAtA, c, c + l) = bz
  <2>1. Slice(dAtA, c, c + l) = [k \in 1..((c + l) - c) |-> dAtA[((c + 1) + k) - 1]]
    <3>1. SubSeq(dAtA, c + 1, c + l) = [k \in 1..((c + l) - (c + 1) + 1) |-> dAtA[((c + 1) + k) - 1]]
      OBVIOUS
    <3>2. (c + l) - (c + 1) + 1 = (c + l) - c
      OBVIOUS
    <3>. QED  BY <3>1, <3>2 DEF Slice
  <2>2. (c + l) - c = l /\ \A k \in 1..l : ((c + 1) + k) - 1 = c + k
    OBVIOUS
  <2>3. bz = [k \in 1..l |-> bz[k]]
    BY <1>2
  <2>. QED  BY <1>10, <2>1, <2>2, <2>3
<1>17. InRange(dAtA, c, c + l)
  BY <1>3, <1>10 DEF InRange
<1>18. fieldBytes(at) = Read(bz, c + l)
  <2>. DEFINE end == [st |-> "ok", i |-> c, v |-> c + l]
  <2>1. at.dAtA = dAtA /\ at.i = i + 1 /\ at.type = 2
    BY <1>6
  <2>2. fieldBytes(at) =
          IF at.type # 2 THEN Stop(<<>>, "err")
          ELSE IF end.st # "ok" THEN Stop(<<>>, end.st)
          ELSE IF ~InRange(at.dAtA, end.i, end.v) THEN Stop(<<>>, "panic")
          ELSE Read(Slice(at.dAtA, end.i, end.v), end.v)
    BY <1>15, <2>1 DEF fieldBytes
  <2>3. end.st = "ok" /\ end.i = c /\ end.v = c + l
    OBVIOUS
  <2>. QED  BY <1>16, <1>17, <2>1, <2>2, <2>3
<1>19. c + l \in (i + 2)..Len(dAtA)
  BY <1>3, <1>6, <1>7, <1>8, <1>10, SMTT(30)
<1>20. bz \in Buffers
  BY <1>2, <1>11 DEF Buffers, Fits, Half
<1>. QED  BY <1>1, <1>3, <1>6, <1>10, <1>18, <1>19, <1>20

\* A uint64 field: the tag at i is that of field num, which takes m to new where
\* tail is left.
ReadsUint64(dAtA, i, num, name, m, new, tail) ==
  LET at == readTag(dAtA, i)
  IN /\ at.st = "ok" /\ at.num = num
     /\ \E j \in (i + 2)..Len(dAtA) :
          Uint64Field(m, name, at) = Read(new, j) /\ IsTail(dAtA, j, tail)
     /\ i \in Nat /\ i < Len(dAtA)

LEMMA Uint64RoundTrip ==
  ASSUME NEW dAtA \in Buffers, NEW i, NEW num \in 1..15, NEW v \in Word, v # 0,
         NEW tail \in Seq(Byte), IsTail(dAtA, i, PutUint64(num, v, tail)),
         NEW m, NEW name, NEW new, new = [m EXCEPT ![name] = v]
  PROVE  ReadsUint64(dAtA, i, num, name, m, new, tail)
<1>1. PICK at : at = readTag(dAtA, i)
  OBVIOUS
<1>2. PICK b : b = encodeVarint(v)
  OBVIOUS
<1>3. dAtA \in Seq(Byte) /\ Len(dAtA) \in Nat
  BY BufferFacts
<1>4. v \in Nat /\ sov(v) \in Nat \ {0}
  BY SovFits
<1>5. b \in Seq(Byte) /\ b \o tail \in Seq(Byte)
  BY <1>2, <1>4, EncodeVarintBytes
<1>6. IsTail(dAtA, i, Tag(num, 0) \o (b \o tail))
  <2>1. PICK a \in Seq(Byte) : a = Tag(num, 0)
    <3>1. 0 \in 0..5 /\ num \in 1..31
      OBVIOUS
    <3>. QED  BY <3>1, TagBytes
  <2>2. (a \o b) \o tail = a \o (b \o tail)
    BY <1>5, Joining
  <2>. QED  BY <1>2, <2>1, <2>2 DEF PutUint64
<1>7. /\ at = [st |-> "ok", dAtA |-> dAtA, pre |-> i, i |-> i + 1, type |-> 0, num |-> num]
      /\ IsTail(dAtA, i + 1, b \o tail)
      /\ i \in Nat /\ i + 1 <= Len(dAtA)
  <2>1. 0 \in {0, 2}
    OBVIOUS
  <2>. QED  BY <1>6, <1>1, <1>3, <1>5, <2>1, TagReads
<1>8. PICK j \in Nat : j = (i + 1) + sov(v)
  BY <1>4, <1>7
<1>9. decodeVarint(dAtA, i + 1) = [st |-> "ok", i |-> j, v |-> v] /\ IsTail(dAtA, j, tail) /\ j <= Len(dAtA)
  BY <1>2, <1>3, <1>7, <1>8, VarintRoundTrip
<1>10. Uint64Field(m, name, at) = Read(new, j)
  <2>. DEFINE n == [st |-> "ok", i |-> j, v |-> v]
  <2>1. at.dAtA = dAtA /\ at.i = i + 1 /\ at.type = 0
    BY <1>7
  <2>2. Uint64Field(m, name, at) =
          IF at.type # 0 THEN Stop(m, "err")
          ELSE IF n.st # "ok" THEN Stop(m, n.st)
          ELSE Read([m EXCEPT ![name] = n.v], n.i)
    BY <1>9, <2>1 DEF Uint64Field
  <2>3. n.st = "ok" /\ n.v = v /\ n.i = j
    OBVIOUS
  <2>. QED  BY <2>1, <2>2, <2>3
<1>11. j \in (i + 2)..Len(dAtA)
  BY <1>3, <1>4, <1>7, <1>8, <1>9
<1>. QED  BY <1>1, <1>3, <1>7, <1>9, <1>10, <1>11 DEF ReadsUint64

-----------------------------------------------------------------------------
(* What was written is what is read: the loop.                             *)

\* The loop has m and the bytes t of dAtA still to read.
Left(after, dAtA, m, t) ==
  \E k \in 0..Rounds(dAtA), i \in Nat :
    2 * k <= i /\ after[k] = Read(m, i) /\ IsTail(dAtA, i, t)

\* Whatever follows them, the bytes bz take the loop from old to new.
Writes(after, dAtA, old, bz, new) ==
  /\ bz \in Seq(Byte)
  /\ \A t \in Seq(Byte) : Left(after, dAtA, old, bz \o t) => Left(after, dAtA, new, t)

\* One iteration takes the loop from old at i to new where t is left.
MovesTo(T, dAtA, old, i, new, t) ==
  \E j \in (i + 2)..Len(dAtA) : T[Read(old, i)] = Read(new, j) /\ IsTail(dAtA, j, t)

LEMMA TailIsLeft ==
  ASSUME NEW dAtA \in Seq(Byte), NEW i, NEW t, IsTail(dAtA, i, t)
  PROVE  i \in Nat /\ t \in Seq(Byte) /\ i <= Len(dAtA) /\ i + Len(t) = Len(dAtA) /\ Len(t) \in Nat
BY DEF IsTail

LEMMA LeftMoves ==
  ASSUME NEW M, NEW m0 \in M, NEW dAtA \in Buffers, NEW T, NEW after, NEW out,
         IsUnmarshal(T, M, m0, dAtA, after, out),
         NEW old, NEW new, NEW s, NEW t, Left(after, dAtA, old, s),
         \A i \in Nat : IsTail(dAtA, i, s) => MovesTo(T, dAtA, old, i, new, t)
  PROVE  Left(after, dAtA, new, t)
<1>1. PICK k \in 0..Rounds(dAtA), i \in Nat :
        2 * k <= i /\ after[k] = Read(old, i) /\ IsTail(dAtA, i, s)
  BY DEF Left
<1>2. PICK j \in (i + 2)..Len(dAtA) : T[Read(old, i)] = Read(new, j) /\ IsTail(dAtA, j, t)
  BY <1>1 DEF MovesTo
<1>3. Rounds(dAtA) \in Nat /\ Len(dAtA) <= 2 * Rounds(dAtA) /\ after[k] \in Results(M)
  BY MovesOn
<1>4. Len(dAtA) \in Nat /\ j \in Nat
  BY BufferFacts
<1>5. k \in 0..(Rounds(dAtA) - 1) /\ k + 1 \in 0..Rounds(dAtA) /\ 2 * (k + 1) <= j
  BY <1>1, <1>3, <1>4
<1>6. after[k + 1] = T[after[k]]
  BY <1>3, <1>5 DEF IsUnmarshal
<1>. QED  BY <1>1, <1>2, <1>4, <1>5, <1>6 DEF Left

LEMMA WritesNothing ==
  ASSUME NEW after, NEW dAtA, NEW m
  PROVE  Writes(after, dAtA, m, <<>>, m)
<1>1. \A t \in Seq(Byte) : <<>> \o t = t
  OBVIOUS
<1>. QED  BY <1>1 DEF Writes

LEMMA WritesJoined ==
  ASSUME NEW after, NEW dAtA, NEW a, NEW b, NEW c, NEW s, NEW t,
         Writes(after, dAtA, a, s, b), Writes(after, dAtA, b, t, c)
  PROVE  Writes(after, dAtA, a, s \o t, c)
<1>1. s \in Seq(Byte) /\ t \in Seq(Byte) /\ s \o t \in Seq(Byte)
  BY Joined DEF Writes
<1>2. ASSUME NEW u \in Seq(Byte), Left(after, dAtA, a, (s \o t) \o u)
      PROVE  Left(after, dAtA, c, u)
  <2>1. (s \o t) \o u = s \o (t \o u) /\ t \o u \in Seq(Byte)
    BY <1>1, Joining, Joined
  <2>2. Left(after, dAtA, b, t \o u)
    BY <1>2, <2>1 DEF Writes
  <2>. QED  BY <2>2 DEF Writes
<1>. QED  BY <1>1, <1>2 DEF Writes

\* A loop that has ended stays where it is.
LEMMA EndStays ==
  ASSUME NEW M, NEW m0 \in M, NEW dAtA \in Buffers, NEW T, NEW after, NEW out,
         IsUnmarshal(T, M, m0, dAtA, after, out),
         NEW k \in 0..Rounds(dAtA), NEW l \in 0..Rounds(dAtA), k <= l,
         ~ (after[k].st = "ok" /\ after[k].i < Len(dAtA))
  PROVE  after[l] = after[k]
<1>1. PICK s : s = after[k]
  OBVIOUS
<1>2. PICK n \in Nat : n = Rounds(dAtA)
  BY MovesOn
<1>3. s \in Results(M) /\ T[s] = s
  <2>1. s \in Results(M)
    BY <1>1, MovesOn
  <2>2. Moves(T, M, dAtA)
    BY DEF IsUnmarshal
  <2>. QED  BY <1>1, <2>1, <2>2 DEF Moves
<1>. DEFINE P == {d \in 0..(n - k) : after[k + d] = s}
<1>4. 0 \in P
  BY <1>1, <1>2
<1>5. ASSUME NEW d \in 0..((n - k) - 1), d \in P PROVE d + 1 \in P
  <2>1. k + d \in 0..(n - 1) /\ (k + d) + 1 = k + (d + 1) /\ d + 1 \in 0..(n - k)
    BY <1>2
  <2>2. after[k + d] = s
    BY <1>5
  <2>3. after[(k + d) + 1] = T[s]
    BY <1>2, <1>3, <2>1, <2>2 DEF IsUnmarshal
  <2>. QED  BY <1>3, <2>1, <2>3
<1>6. n - k \in Nat /\ l - k \in 0..(n - k) /\ k + (l - k) = l
  BY <1>2
<1>7. l - k \in P
  <2>. HIDE DEF P
  <2>. QED  BY <1>4, <1>5, <1>6, CountUp
<1>. QED  BY <1>1, <1>6, <1>7

\* What the loop returns when every byte has been read.
LEMMA NothingLeft ==
  ASSUME NEW M, NEW m0 \in M, NEW dAtA \in Buffers, NEW T, NEW after, NEW out,
         IsUnmarshal(T, M, m0, dAtA, after, out), NEW m, Left(after, dAtA, m, <<>>)
  PROVE  out = [st |-> "ok", m |-> m]
<1>. DEFINE Result(end) == [st |-> IF end.st # "ok" THEN end.st
                                   ELSE IF end.i < Len(dAtA) THEN "loop"
                                   ELSE IF end.i > Len(dAtA) THEN "err"
                                   ELSE "ok",
                            m  |-> end.m]
<1>1. PICK l \in 0..Rounds(dAtA) :
        /\ l = Rounds(dAtA) \/ after[l].st # "ok" \/ after[l].i >= Len(dAtA)
        /\ out = Result(after[l])
  BY DEF IsUnmarshal
<1>2. PICK k \in 0..Rounds(dAtA), i \in Nat :
        after[k] = Read(m, i) /\ IsTail(dAtA, i, <<>>)
  BY DEF Left
<1>3. i = Len(dAtA) /\ Len(dAtA) \in Nat
  BY <1>2, BufferFacts DEF IsTail
<1>4. PICK end : end = Read(m, Len(dAtA))
  OBVIOUS
<1>5. after[k] = end /\ end.st = "ok" /\ end.i = Len(dAtA) /\ end.m = m
  BY <1>2, <1>3, <1>4 DEF Read
<1>6. after[l] = end
  <2>1. Rounds(dAtA) \in Nat /\ after[l] \in Results(M)
    BY MovesOn
  <2>2. CASE k <= l
    <3>1. ~ (after[k].st = "ok" /\ after[k].i < Len(dAtA))
      BY <1>3, <1>5
    <3>. QED  BY <1>5, <2>2, <3>1, EndStays
  <2>3. CASE l <= k
    <3>1. CASE l = Rounds(dAtA)
      BY <2>1, <2>2, <2>3, <3>1
    <3>2. CASE after[l].st # "ok" \/ after[l].i >= Len(dAtA)
      <4>1. ~ (after[l].st = "ok" /\ after[l].i < Len(dAtA))
        BY <1>3, <2>1, <3>2 DEF Results
      <4>. QED  BY <1>5, <2>3, <4>1, EndStays
    <3>. QED  BY <1>1, <3>1, <3>2
  <2>. QED  BY <2>1, <2>2, <2>3
<1>7. Result(end) = [st |-> "ok", m |-> m]
  BY <1>3, <1>5
<1>. QED  BY <1>1, <1>6, <1>7

\* The bytes of a buffer are what the loop has to read at its start.
LEMMA AllLeft ==
  ASSUME NEW M, NEW m0 \in M, NEW dAtA \in Buffers, NEW T, NEW after, NEW out,
         IsUnmarshal(T, M, m0, dAtA, after, out)
  PROVE  Left(after, dAtA, m0, dAtA)
<1>1. after[0] = Read(m0, 0) /\ Rounds(dAtA) \in Nat
  BY MovesOn DEF IsUnmarshal
<1>2. IsTail(dAtA, 0, dAtA)
  BY BufferFacts DEF IsTail
<1>3. 0 \in 0..Rounds(dAtA) /\ 2 * 0 <= 0
  BY <1>1
<1>. QED  BY <1>1, <1>2, <1>3 DEF Left

\* A buffer that was written is decoded to what was written.
LEMMA WrittenIsRead ==
  ASSUME NEW M, NEW m0 \in M, NEW dAtA \in Buffers, NEW T, NEW after, NEW out,
         IsUnmarshal(T, M, m0, dAtA, after, out),
         NEW m, Writes(after, dAtA, m0, dAtA, m)
  PROVE  out = [st |-> "ok", m |-> m]
<1>1. dAtA \in Seq(Byte) /\ dAtA \o <<>> = dAtA /\ <<>> \in Seq(Byte)
  BY BufferFacts
<1>2. Left(after, dAtA, m0, dAtA \o <<>>)
  BY <1>1, AllLeft
<1>3. Left(after, dAtA, m, <<>>)
  BY <1>1, <1>2 DEF Writes
<1>. QED  BY <1>3, NothingLeft

-----------------------------------------------------------------------------
(* What was written is what is read: a field of a message.                 *)

\* The loop of an Unmarshal, after any number of iterations.
Loops(M, dAtA, T, after) ==
  dAtA \in Buffers /\ \E m0, out : m0 \in M /\ IsUnmarshal(T, M, m0, dAtA, after, out)

Loops0(fields, M, dAtA, T, after) ==
  Loops(M, dAtA, T, after) /\ Switches(decodeScalar, fields, M, dAtA, T)
Loops1(fields, M, dAtA, T, after) ==
  Loops(M, dAtA, T, after) /\ Switches(decodeField1, fields, M, dAtA, T)
Loops2(fields, M, dAtA, T, after) ==
  Loops(M, dAtA, T, after) /\ Switches(decodeField2, fields, M, dAtA, T)

\* A message with another value in one of its fields.
With(m, name, v) == [m EXCEPT ![name] = v]

\* An iteration that finds the bytes bz in field num takes old to new.
SetsField(T, dAtA, old, num, bz, new) ==
  \A i \in Nat, j \in Nat :
    (/\ i < Len(dAtA) /\ bz \in Buffers
     /\ readTag(dAtA, i).st = "ok" /\ readTag(dAtA, i).num = num
     /\ fieldBytes(readTag(dAtA, i)) = Read(bz, j))
    => T[Read(old, i)] = Read(new, j)

LEMMA PutBytesJoined ==
  ASSUME NEW num \in 1..15, NEW bz \in Seq(Byte), NEW tail \in Seq(Byte), NEW more \in Seq(Byte)
  PROVE  PutBytes(num, bz, tail) \o more = PutBytes(num, bz, tail \o more)
<1>1. PICK p : p = Tag(num, 2) \o encodeVarint(Len(bz)) \o bz
  OBVIOUS
<1>2. p \in Seq(Byte)
  <2>1. Tag(num, 2) \in Seq(Byte) /\ encodeVarint(Len(bz)) \in Seq(Byte)
    BY PutBytesParts
  <2>. QED  BY <1>1, <2>1
<1>3. PutBytes(num, bz, tail) = p \o tail /\ PutBytes(num, bz, tail \o more) = p \o (tail \o more)
  BY <1>1 DEF PutBytes
<1>4. (p \o tail) \o more = p \o (tail \o more)
  BY <1>2, Joining
<1>. QED  BY <1>3, <1>4

LEMMA PutUint64Joined ==
  ASSUME NEW num \in 1..15, NEW v \in Word, v # 0, NEW tail \in Seq(Byte), NEW more \in Seq(Byte)
  PROVE  PutUint64(num, v, tail) \o more = PutUint64(num, v, tail \o more)
<1>1. PICK p : p = Tag(num, 0) \o encodeVarint(v)
  OBVIOUS
<1>2. p \in Seq(Byte)
  <2>1. 0 \in 0..5 /\ num \in 1..31 /\ v \in Nat
    BY SovFits
  <2>2. Tag(num, 0) \in Seq(Byte)
    BY <2>1, TagBytes
  <2>3. encodeVarint(v) \in Seq(Byte)
    BY <2>1, EncodeVarintBytes
  <2>. QED  BY <1>1, <2>2, <2>3
<1>3. PutUint64(num, v, tail) = p \o tail /\ PutUint64(num, v, tail \o more) = p \o (tail \o more)
  BY <1>1 DEF PutUint64
<1>4. (p \o tail) \o more = p \o (tail \o more)
  BY <1>2, Joining
<1>. QED  BY <1>3, <1>4

LEMMA BytesWrites ==
  ASSUME NEW M, NEW dAtA, NEW T, NEW after, Loops(M, dAtA, T, after),
         NEW num \in 1..15, NEW bz \in Seq(Byte), NEW old, NEW mid,
         SetsField(T, dAtA, old, num, bz, mid),
         NEW tail, NEW new, Writes(after, dAtA, mid, tail, new)
  PROVE  Writes(after, dAtA, old, PutBytes(num, bz, tail), new)
<1>1. tail \in Seq(Byte)
  BY DEF Writes
<1>2. dAtA \in Buffers
  BY DEF Loops
<1>3. \A t \in Seq(Byte) : PutBytes(num, bz, tail) \o t = PutBytes(num, bz, tail \o t)
  BY <1>1, PutBytesJoined
<1>4. PICK m0, out : m0 \in M /\ IsUnmarshal(T, M, m0, dAtA, after, out)
  BY DEF Loops
<1>5. ASSUME NEW t \in Seq(Byte), Left(after, dAtA, old, PutBytes(num, bz, tail) \o t)
      PROVE  Left(after, dAtA, new, t)
  <2>1. PICK rest \in Seq(Byte) : rest = tail \o t
    BY <1>1, Joined
  <2>2. Left(after, dAtA, old, PutBytes(num, bz, rest))
    BY <1>3, <1>5, <2>1
  <2>3. ASSUME NEW i \in Nat, IsTail(dAtA, i, PutBytes(num, bz, rest))
        PROVE  MovesTo(T, dAtA, old, i, mid, rest)
    <3>1. PICK at : at = readTag(dAtA, i)
      OBVIOUS
    <3>2. /\ at.st = "ok" /\ at.num = num
          /\ \E j \in (i + 2)..Len(dAtA) : fieldBytes(at) = Read(bz, j) /\ IsTail(dAtA, j, rest)
          /\ i < Len(dAtA) /\ bz \in Buffers
      BY <1>2, <2>3, <3>1, BytesRoundTrip
    <3>3. PICK j \in (i + 2)..Len(dAtA) : fieldBytes(at) = Read(bz, j) /\ IsTail(dAtA, j, rest)
      BY <3>2
    <3>4. j \in Nat
      BY <1>2, BufferFacts
    <3>5. T[Read(old, i)] = Read(mid, j)
      BY <3>1, <3>2, <3>3, <3>4 DEF SetsField
    <3>. QED  BY <3>3, <3>5 DEF MovesTo
  <2>4. Left(after, dAtA, mid, rest)
    BY <1>2, <1>4, <2>2, <2>3, LeftMoves
  <2>. QED  BY <2>1, <2>4 DEF Writes
<1>6. PutBytes(num, bz, tail) \in Seq(Byte)
  <2>1. num \in 1..31
    OBVIOUS
  <2>. QED  BY <1>1, <2>1, PutBytesSize
<1>. QED  BY <1>5, <1>6 DEF Writes

LEMMA StringWrites ==
  ASSUME NEW M, NEW dAtA, NEW T, NEW after, Loops(M, dAtA, T, after),
         NEW num \in 1..15, NEW s \in Strings, NEW old, NEW mid,
         IF Len(s) > 0 THEN SetsField(T, dAtA, old, num, s, mid) ELSE mid = old,
         NEW tail, NEW new, Writes(after, dAtA, mid, tail, new)
  PROVE  Writes(after, dAtA, old, PutString(num, s, tail), new)
<1>1. s \in Seq(Byte)
  BY DEF Strings
<1>2. CASE Len(s) > 0
  <2>1. PutString(num, s, tail) = PutBytes(num, s, tail)
    BY <1>2 DEF PutString
  <2>. QED  BY <1>1, <1>2, <2>1, BytesWrites
<1>3. CASE ~ (Len(s) > 0)
  BY <1>3 DEF PutString
<1>. QED  BY <1>2, <1>3

LEMMA Uint64Writes2 ==
  ASSUME NEW fields, NEW M, NEW dAtA, NEW T, NEW after, Loops2(fields, M, dAtA, T, after),
         NEW num \in 1..15, NEW name, num \in DOMAIN fields, fields[num] = Uint64(name),
         NEW old \in M, NEW v \in Word,
         NEW mid, mid = (IF v # 0 THEN With(old, name, v) ELSE old),
         NEW tail, NEW new, Writes(after, dAtA, mid, tail, new)
  PROVE  Writes(after, dAtA, old, PutUint64(num, v, tail), new)
<1>1. CASE v = 0
  BY <1>1 DEF PutUint64
<1>2. CASE v # 0
  <2>1. mid = With(old, name, v)
    BY <1>2
  <2>2. tail \in Seq(Byte)
    BY DEF Writes
  <2>3. dAtA \in Buffers
    BY DEF Loops2, Loops
  <2>4. PICK m0, out : m0 \in M /\ IsUnmarshal(T, M, m0, dAtA, after, out)
    BY DEF Loops2, Loops
  <2>5. \A t \in Seq(Byte) : PutUint64(num, v, tail) \o t = PutUint64(num, v, tail \o t)
    BY <1>2, <2>2, PutUint64Joined
  <2>6. ASSUME NEW t \in Seq(Byte), Left(after, dAtA, old, PutUint64(num, v, tail) \o t)
        PROVE  Left(after, dAtA, new, t)
    <3>1. PICK rest \in Seq(Byte) : rest = tail \o t
      BY <2>2, Joined
    <3>2. PICK s : s = PutUint64(num, v, rest)
      OBVIOUS
    <3>3. Left(after, dAtA, old, s)
      BY <2>5, <2>6, <3>1, <3>2
    <3>4. ASSUME NEW i \in Nat, IsTail(dAtA, i, s)
          PROVE  MovesTo(T, dAtA, old, i, mid, rest)
      <4>1. PICK at : at = readTag(dAtA, i)
        OBVIOUS
      <4>2. IsTail(dAtA, i, PutUint64(num, v, rest))
        BY <3>2, <3>4
      <4>3. /\ at.st = "ok" /\ at.num = num
            /\ \E j \in (i + 2)..Len(dAtA) :
                 Uint64Field(old, name, at) = Read(mid, j) /\ IsTail(dAtA, j, rest)
            /\ i \in Nat /\ i < Len(dAtA)
        <5>1. ReadsUint64(dAtA, i, num, name, old, mid, rest)
          BY <1>2, <2>1, <2>3, <4>2, Uint64RoundTrip DEF With
        <5>. QED  BY <4>1, <5>1 DEF ReadsUint64
      <4>4. PICK j \in (i + 2)..Len(dAtA) :
              Uint64Field(old, name, at) = Read(mid, j) /\ IsTail(dAtA, j, rest)
        BY <4>3
      <4>5. T[Read(old, i)] = switchField(decodeField2, fields, old, at)
        <5>1. PICK r : r = Read(old, i)
          OBVIOUS
        <5>2. r \in Results(M) /\ r.st = "ok" /\ r.i = i /\ r.m = old
          BY <5>1 DEF Read, Results
        <5>. QED  BY <4>1, <4>3, <5>1, <5>2 DEF Loops2, Switches
      <4>6. switchField(decodeField2, fields, old, at) = Uint64Field(old, name, at)
        <5>1. fields[at.num].kind = "uint64" /\ fields[at.num].name = name
          BY <4>3, FieldFacts
        <5>. QED  BY <4>3, <5>1 DEF switchField
      <4>. QED  BY <4>4, <4>5, <4>6 DEF MovesTo
    <3>5. Left(after, dAtA, mid, rest)
      BY <2>3, <2>4, <3>3, <3>4, LeftMoves
    <3>. QED  BY <2>2, <3>1, <3>5 DEF Writes
  <2>7. PutUint64(num, v, tail) \in Seq(Byte)
    <3>1. num \in 1..31 /\ v \in Nat
      BY SovFits
    <3>. QED  BY <2>2, <3>1, PutUint64Size
  <2>. QED  BY <2>6, <2>7 DEF Writes
<1>. QED  BY <1>1, <1>2

(* The three depths, each by the same proof.                               *)

LEMMA Sets0 ==
  ASSUME NEW fields, NEW M, NEW dAtA, NEW T, NEW after, Loops0(fields, M, dAtA, T, after),
         NEW num, NEW field, num \in DOMAIN fields, fields[num] = field, field.kind # "uint64",
         NEW old \in M, NEW bz, NEW v,
         bz \in Buffers => decodeScalar(field, old[field.name], bz) = [st |-> "ok", m |-> v],
         NEW new, new = With(old, field.name, v)
  PROVE  SetsField(T, dAtA, old, num, bz, new)
<1>1. ASSUME NEW i \in Nat, NEW j \in Nat, i < Len(dAtA), bz \in Buffers,
             readTag(dAtA, i).st = "ok", readTag(dAtA, i).num = num,
             fieldBytes(readTag(dAtA, i)) = Read(bz, j)
      PROVE  T[Read(old, i)] = Read(new, j)
  <2>1. PICK at : at = readTag(dAtA, i)
    OBVIOUS
  <2>2. T[Read(old, i)] = switchField(decodeScalar, fields, old, at)
    <3>1. PICK r : r = Read(old, i)
      OBVIOUS
    <3>2. r \in Results(M) /\ r.st = "ok" /\ r.i = i /\ r.m = old
      BY <3>1 DEF Read, Results
    <3>. QED  BY <1>1, <2>1, <3>1, <3>2 DEF Loops0, Switches
  <2>3. switchField(decodeScalar, fields, old, at) = BytesField(decodeScalar, old, field, at)
    BY <1>1, <2>1 DEF switchField
  <2>4. PICK b : b = fieldBytes(at)
    OBVIOUS
  <2>5. b.st = "ok" /\ b.m = bz /\ b.i = j
    BY <1>1, <2>1, <2>4 DEF Read
  <2>6. PICK c : c = decodeScalar(field, old[field.name], bz)
    OBVIOUS
  <2>7. c.st = "ok" /\ c.m = v
    BY <1>1, <2>6
  <2>8. BytesField(decodeScalar, old, field, at) =
          IF b.st = "ok"
          THEN IF c.st = "ok" THEN Read(With(old, field.name, c.m), b.i)
                              ELSE Stop(old, c.st)
          ELSE Stop(old, b.st)
    BY <2>4, <2>5, <2>6 DEF BytesField, With
  <2>. QED  BY <2>2, <2>3, <2>5, <2>7, <2>8
<1>. QED  BY <1>1 DEF SetsField

LEMMA StringWrites0 ==
  ASSUME NEW fields, NEW M, NEW dAtA, NEW T, NEW after, Loops0(fields, M, dAtA, T, after),
         NEW num \in 1..15, NEW name, num \in DOMAIN fields, fields[num] = String(name),
         NEW old \in M, NEW s \in Strings,
         NEW mid, mid = (IF Len(s) > 0 THEN With(old, name, s) ELSE old),
         NEW tail, NEW new, Writes(after, dAtA, mid, tail, new)
  PROVE  Writes(after, dAtA, old, PutString(num, s, tail), new)
<1>1. PICK field : field = String(name)
  OBVIOUS
<1>2. field.kind = "string" /\ field.name = name
  BY <1>1, FieldFacts
<1>3. decodeScalar(field, old[name], s) = [st |-> "ok", m |-> s]
  BY <1>2 DEF decodeScalar
<1>4. ASSUME Len(s) > 0 PROVE SetsField(T, dAtA, old, num, s, mid)
  <2>1. mid = With(old, field.name, s) /\ field.kind # "uint64"
    BY <1>2, <1>4
  <2>. QED  BY <1>1, <1>2, <1>3, <2>1, Sets0
<1>5. Loops(M, dAtA, T, after)
  BY DEF Loops0
<1>. QED  BY <1>4, <1>5, StringWrites

LEMMA NumberWrites0 ==
  ASSUME NEW fields, NEW M, NEW dAtA, NEW T, NEW after, Loops0(fields, M, dAtA, T, after),
         NEW num \in 1..15, NEW name, num \in DOMAIN fields, fields[num] = Number(name),
         NEW old \in M, NEW v \in Numbers,
         NEW mid, mid = With(old, name, Normal(v)),
         NEW tail, NEW new, Writes(after, dAtA, mid, tail, new)
  PROVE  Writes(after, dAtA, old, PutBytes(num, Number_Marshal(v), tail), new)
<1>1. PICK field : field = Number(name)
  OBVIOUS
<1>2. PICK bz : bz = Number_Marshal(v)
  OBVIOUS
<1>3. field.kind = "number" /\ field.name = name
  BY <1>1, FieldFacts
<1>4. decodeScalar(field, old[name], bz) = Number_Unmarshal(old[name], bz)
  BY <1>3 DEF decodeScalar
<1>5. decodeScalar(field, old[name], bz) = [st |-> "ok", m |-> Normal(v)]
  BY <1>2, <1>4, NumberRoundTrip
<1>6. SetsField(T, dAtA, old, num, bz, mid)
  <2>1. mid = With(old, field.name, Normal(v)) /\ field.kind # "uint64"
    BY <1>3
  <2>. QED  BY <1>1, <1>3, <1>5, <2>1, Sets0
<1>7. Loops(M, dAtA, T, after) /\ bz \in Seq(Byte)
  BY <1>2, NumberBytes DEF Loops0
<1>. QED  BY <1>2, <1>6, <1>7, BytesWrites

LEMMA Sets1 ==
  ASSUME NEW fields, NEW M, NEW dAtA, NEW T, NEW after, Loops1(fields, M, dAtA, T, after),
         NEW num, NEW field, num \in DOMAIN fields, fields[num] = field, field.kind # "uint64",
         NEW old \in M, NEW bz, NEW v,
         bz \in Buffers => decodeField1(field, old[field.name], bz) = [st |-> "ok", m |-> v],
         NEW new, new = With(old, field.name, v)
  PROVE  SetsField(T, dAtA, old, num, bz, new)
<1>1. ASSUME NEW i \in Nat, NEW j \in Nat, i < Len(dAtA), bz \in Buffers,
             readTag(dAtA, i).st = "ok", readTag(dAtA, i).num = num,
             fieldBytes(readTag(dAtA, i)) = Read(bz, j)
      PROVE  T[Read(old, i)] = Read(new, j)
  <2>1. PICK at : at = readTag(dAtA, i)
    OBVIOUS
  <2>2. T[Read(old, i)] = switchField(decodeField1, fields, old, at)
    <3>1. PICK r : r = Read(old, i)
      OBVIOUS
    <3>2. r \in Results(M) /\ r.st = "ok" /\ r.i = i /\ r.m = old
      BY <3>1 DEF Read, Results
    <3>. QED  BY <1>1, <2>1, <3>1, <3>2 DEF Loops1, Switches
  <2>3. switchField(decodeField1, fields, old, at) = BytesField(decodeField1, old, field, at)
    BY <1>1, <2>1 DEF switchField
  <2>4. PICK b : b = fieldBytes(at)
    OBVIOUS
  <2>5. b.st = "ok" /\ b.m = bz /\ b.i = j
    BY <1>1, <2>1, <2>4 DEF Read
  <2>6. PICK c : c = decodeField1(field, old[field.name], bz)
    OBVIOUS
  <2>7. c.st = "ok" /\ c.m = v
    BY <1>1, <2>6
  <2>8. BytesField(decodeField1, old, field, at) =
          IF b.st = "ok"
          THEN IF c.st = "ok" THEN Read(With(old, field.name, c.m), b.i)
                              ELSE Stop(old, c.st)
          ELSE Stop(old, b.st)
    BY <2>4, <2>5, <2>6 DEF BytesField, With
  <2>. QED  BY <2>2, <2>3, <2>5, <2>7, <2>8
<1>. QED  BY <1>1 DEF SetsField

LEMMA StringWrites1 ==
  ASSUME NEW fields, NEW M, NEW dAtA, NEW T, NEW after, Loops1(fields, M, dAtA, T, after),
         NEW num \in 1..15, NEW name, num \in DOMAIN fields, fields[num] = String(name),
         NEW old \in M, NEW s \in Strings,
         NEW mid, mid = (IF Len(s) > 0 THEN With(old, name, s) ELSE old),
         NEW tail, NEW new, Writes(after, dAtA, mid, tail, new)
  PROVE  Writes(after, dAtA, old, PutString(num, s, tail), new)
<1>1. PICK field : field = String(name)
  OBVIOUS
<1>2. field.kind = "string" /\ field.name = name
  BY <1>1, FieldFacts
<1>3. decodeField1(field, old[name], s) = [st |-> "ok", m |-> s]
  BY <1>2 DEF decodeField1, decodeField, decodeScalar
<1>4. ASSUME Len(s) > 0 PROVE SetsField(T, dAtA, old, num, s, mid)
  <2>1. mid = With(old, field.name, s) /\ field.kind # "uint64"
    BY <1>2, <1>4
  <2>. QED  BY <1>1, <1>2, <1>3, <2>1, Sets1
<1>5. Loops(M, dAtA, T, after)
  BY DEF Loops1
<1>. QED  BY <1>4, <1>5, StringWrites

LEMMA NumberWrites1 ==
  ASSUME NEW fields, NEW M, NEW dAtA, NEW T, NEW after, Loops1(fields, M, dAtA, T, after),
         NEW num \in 1..15, NEW name, num \in DOMAIN fields, fields[num] = Number(name),
         NEW old \in M, NEW v \in Numbers,
         NEW mid, mid = With(old, name, Normal(v)),
         NEW tail, NEW new, Writes(after, dAtA, mid, tail, new)
  PROVE  Writes(after, dAtA, old, PutBytes(num, Number_Marshal(v), tail), new)
<1>1. PICK field : field = Number(name)
  OBVIOUS
<1>2. PICK bz : bz = Number_Marshal(v)
  OBVIOUS
<1>3. field.kind = "number" /\ field.name = name
  BY <1>1, FieldFacts
<1>4. decodeField1(field, old[name], bz) = Number_Unmarshal(old[name], bz)
  BY <1>3 DEF decodeField1, decodeField, decodeScalar
<1>5. decodeField1(field, old[name], bz) = [st |-> "ok", m |-> Normal(v)]
  BY <1>2, <1>4, NumberRoundTrip
<1>6. SetsField(T, dAtA, old, num, bz, mid)
  <2>1. mid = With(old, field.name, Normal(v)) /\ field.kind # "uint64"
    BY <1>3
  <2>. QED  BY <1>1, <1>3, <1>5, <2>1, Sets1
<1>7. Loops(M, dAtA, T, after) /\ bz \in Seq(Byte)
  BY <1>2, NumberBytes DEF Loops1
<1>. QED  BY <1>2, <1>6, <1>7, BytesWrites

LEMMA MessageWrites1 ==
  ASSUME NEW fields, NEW M, NEW dAtA, NEW T, NEW after, Loops1(fields, M, dAtA, T, after),
         NEW num \in 1..15, NEW name, NEW cases,
         num \in DOMAIN fields, fields[num] = Message(name, cases),
         NEW old \in M, NEW bz \in Seq(Byte), NEW v,
         bz \in Buffers => Unmarshal0(cases, old[name], bz) = [st |-> "ok", m |-> v],
         NEW mid, mid = With(old, name, v),
         NEW tail, NEW new, Writes(after, dAtA, mid, tail, new)
  PROVE  Writes(after, dAtA, old, PutBytes(num, bz, tail), new)
<1>1. PICK field : field = Message(name, cases)
  OBVIOUS
<1>2. field.kind = "message" /\ field.name = name /\ field.fields = cases
  BY <1>1, FieldFacts
<1>3. decodeField1(field, old[name], bz) = Unmarshal0(cases, old[name], bz)
  BY <1>2 DEF decodeField1, decodeField
<1>4. SetsField(T, dAtA, old, num, bz, mid)
  <2>1. mid = With(old, field.name, v) /\ field.kind # "uint64"
    BY <1>2
  <2>. QED  BY <1>1, <1>2, <1>3, <2>1, Sets1
<1>5. Loops(M, dAtA, T, after)
  BY DEF Loops1
<1>. QED  BY <1>4, <1>5, BytesWrites

LEMMA Sets2 ==
  ASSUME NEW fields, NEW M, NEW dAtA, NEW T, NEW after, Loops2(fields, M, dAtA, T, after),
         NEW num, NEW field, num \in DOMAIN fields, fields[num] = field, field.kind # "uint64",
         NEW old \in M, NEW bz, NEW v,
         bz \in Buffers => decodeField2(field, old[field.name], bz) = [st |-> "ok", m |-> v],
         NEW new, new = With(old, field.name, v)
  PROVE  SetsField(T, dAtA, old, num, bz, new)
<1>1. ASSUME NEW i \in Nat, NEW j \in Nat, i < Len(dAtA), bz \in Buffers,
             readTag(dAtA, i).st = "ok", readTag(dAtA, i).num = num,
             fieldBytes(readTag(dAtA, i)) = Read(bz, j)
      PROVE  T[Read(old, i)] = Read(new, j)
  <2>1. PICK at : at = readTag(dAtA, i)
    OBVIOUS
  <2>2. T[Read(old, i)] = switchField(decodeField2, fields, old, at)
    <3>1. PICK r : r = Read(old, i)
      OBVIOUS
    <3>2. r \in Results(M) /\ r.st = "ok" /\ r.i = i /\ r.m = old
      BY <3>1 DEF Read, Results
    <3>. QED  BY <1>1, <2>1, <3>1, <3>2 DEF Loops2, Switches
  <2>3. switchField(decodeField2, fields, old, at) = BytesField(decodeField2, old, field, at)
    BY <1>1, <2>1 DEF switchField
  <2>4. PICK b : b = fieldBytes(at)
    OBVIOUS
  <2>5. b.st = "ok" /\ b.m = bz /\ b.i = j
    BY <1>1, <2>1, <2>4 DEF Read
  <2>6. PICK c : c = decodeField2(field, old[field.name], bz)
    OBVIOUS
  <2>7. c.st = "ok" /\ c.m = v
    BY <1>1, <2>6
  <2>8. BytesField(decodeField2, old, field, at) =
          IF b.st = "ok"
          THEN IF c.st = "ok" THEN Read(With(old, field.name, c.m), b.i)
                              ELSE Stop(old, c.st)
          ELSE Stop(old, b.st)
    BY <2>4, <2>5, <2>6 DEF BytesField, With
  <2>. QED  BY <2>2, <2>3, <2>5, <2>7, <2>8
<1>. QED  BY <1>1 DEF SetsField

LEMMA StringWrites2 ==
  ASSUME NEW fields, NEW M, NEW dAtA, NEW T, NEW after, Loops2(fields, M, dAtA, T, after),
         NEW num \in 1..15, NEW name, num \in DOMAIN fields, fields[num] = String(name),
         NEW old \in M, NEW s \in Strings,
         NEW mid, mid = (IF Len(s) > 0 THEN With(old, name, s) ELSE old),
         NEW tail, NEW new, Writes(after, dAtA, mid, tail, new)
  PROVE  Writes(after, dAtA, old, PutString(num, s, tail), new)
<1>1. PICK field : field = String(name)
  OBVIOUS
<1>2. field.kind = "string" /\ field.name = name
  BY <1>1, FieldFacts
<1>3. decodeField2(field, old[name], s) = [st |-> "ok", m |-> s]
  BY <1>2 DEF decodeField2, decodeField, decodeScalar
<1>4. ASSUME Len(s) > 0 PROVE SetsField(T, dAtA, old, num, s, mid)
  <2>1. mid = With(old, field.name, s) /\ field.kind # "uint64"
    BY <1>2, <1>4
  <2>. QED  BY <1>1, <1>2, <1>3, <2>1, Sets2
<1>5. Loops(M, dAtA, T, after)
  BY DEF Loops2
<1>. QED  BY <1>4, <1>5, StringWrites

LEMMA NumberWrites2 ==
  ASSUME NEW fields, NEW M, NEW dAtA, NEW T, NEW after, Loops2(fields, M, dAtA, T, after),
         NEW num \in 1..15, NEW name, num \in DOMAIN fields, fields[num] = Number(name),
         NEW old \in M, NEW v \in Numbers,
         NEW mid, mid = With(old, name, Normal(v)),
         NEW tail, NEW new, Writes(after, dAtA, mid, tail, new)
  PROVE  Writes(after, dAtA, old, PutBytes(num, Number_Marshal(v), tail), new)
<1>1. PICK field : field = Number(name)
  OBVIOUS
<1>2. PICK bz : bz = Number_Marshal(v)
  OBVIOUS
<1>3. field.kind = "number" /\ field.name = name
  BY <1>1, FieldFacts
<1>4. decodeField2(field, old[name], bz) = Number_Unmarshal(old[name], bz)
  BY <1>3 DEF decodeField2, decodeField, decodeScalar
<1>5. decodeField2(field, old[name], bz) = [st |-> "ok", m |-> Normal(v)]
  BY <1>2, <1>4, NumberRoundTrip
<1>6. SetsField(T, dAtA, old, num, bz, mid)
  <2>1. mid = With(old, field.name, Normal(v)) /\ field.kind # "uint64"
    BY <1>3
  <2>. QED  BY <1>1, <1>3, <1>5, <2>1, Sets2
<1>7. Loops(M, dAtA, T, after) /\ bz \in Seq(Byte)
  BY <1>2, NumberBytes DEF Loops2
<1>. QED  BY <1>2, <1>6, <1>7, BytesWrites

LEMMA MessageWrites2 ==
  ASSUME NEW fields, NEW M, NEW dAtA, NEW T, NEW after, Loops2(fields, M, dAtA, T, after),
         NEW num \in 1..15, NEW name, NEW cases,
         num \in DOMAIN fields, fields[num] = Message(name, cases),
         NEW old \in M, NEW bz \in Seq(Byte), NEW v,
         bz \in Buffers => Unmarshal1(cases, old[name], bz) = [st |-> "ok", m |-> v],
         NEW mid, mid = With(old, name, v),
         NEW tail, NEW new, Writes(after, dAtA, mid, tail, new)
  PROVE  Writes(after, dAtA, old, PutBytes(num, bz, tail), new)
<1>1. PICK field : field = Message(name, cases)
  OBVIOUS
<1>2. field.kind = "message" /\ field.name = name /\ field.fields = cases
  BY <1>1, FieldFacts
<1>3. decodeField2(field, old[name], bz) = Unmarshal1(cases, old[name], bz)
  BY <1>2 DEF decodeField2, decodeField
<1>4. SetsField(T, dAtA, old, num, bz, mid)
  <2>1. mid = With(old, field.name, v) /\ field.kind # "uint64"
    BY <1>2
  <2>. QED  BY <1>1, <1>2, <1>3, <2>1, Sets2
<1>5. Loops(M, dAtA, T, after)
  BY DEF Loops2
<1>. QED  BY <1>4, <1>5, BytesWrites

LEMMA RepeatedWrites2 ==
  ASSUME NEW fields, NEW M, NEW dAtA, NEW T, NEW after, Loops2(fields, M, dAtA, T, after),
         NEW num \in 1..15, NEW name, NEW cases, NEW zero,
         num \in DOMAIN fields, fields[num] = Repeated(name, cases, zero),
         NEW old \in M, NEW bz \in Seq(Byte), NEW v,
         bz \in Buffers => Unmarshal1(cases, zero, bz) = [st |-> "ok", m |-> v],
         NEW mid, mid = With(old, name, Append(old[name], v)),
         NEW tail, NEW new, Writes(after, dAtA, mid, tail, new)
  PROVE  Writes(after, dAtA, old, PutBytes(num, bz, tail), new)
<1>1. PICK field : field = Repeated(name, cases, zero)
  OBVIOUS
<1>2. /\ field.kind = "repeated" /\ field.name = name
      /\ field.fields = cases /\ field.zero = zero
  BY <1>1, FieldFacts
<1>3. PICK c : c = Unmarshal1(cases, zero, bz)
  OBVIOUS
<1>4. decodeField2(field, old[name], bz) = [st |-> c.st, m |-> Append(old[name], c.m)]
  BY <1>2, <1>3 DEF decodeField2, decodeField
<1>5. ASSUME bz \in Buffers
      PROVE  decodeField2(field, old[name], bz) = [st |-> "ok", m |-> Append(old[name], v)]
  <2>1. c = [st |-> "ok", m |-> v]
    BY <1>3, <1>5
  <2>2. c.st = "ok" /\ c.m = v
    BY <2>1
  <2>. QED  BY <1>4, <2>2
<1>6. PICK w : w = Append(old[name], v)
  OBVIOUS
<1>7. SetsField(T, dAtA, old, num, bz, mid)
  <2>1. bz \in Buffers => decodeField2(field, old[field.name], bz) = [st |-> "ok", m |-> w]
    BY <1>2, <1>5, <1>6
  <2>2. mid = With(old, field.name, w) /\ field.kind # "uint64"
    BY <1>2, <1>6
  <2>. QED  BY <1>1, <2>1, <2>2, Sets2
<1>8. Loops(M, dAtA, T, after)
  BY DEF Loops2
<1>. QED  BY <1>7, <1>8, BytesWrites

-----------------------------------------------------------------------------
(* Fields of another schema are skipped.                                   *)

\* The tag of any field number.
LEMMA TagNumber ==
  ASSUME NEW num \in FieldNums, NEW type \in 0..5, NEW x, x = 8 * num + type
  PROVE  /\ x \in Word /\ x % 8 = type /\ x \div 8 = num
         /\ Signed(num, FieldNumBits) = num /\ num > 0
<1>1. PICK H \in Nat \ {0} : H = Pow2[FieldNumBits - 1]
  BY Powers, Widths
<1>2. num \in Nat /\ 0 < num /\ num < H
  BY <1>1 DEF FieldNums
<1>3. x % 8 = type /\ x \div 8 = num
  <2>1. PICK q \in Nat, r \in Nat : q = num /\ r = type
    BY <1>2
  <2>2. r < 8 /\ x = 8 * q + r
    BY <2>1
  <2>3. x \div 8 = q /\ x % 8 = r
    BY <2>2, Z3
  <2>. QED  BY <2>1, <2>3
<1>4. Pow2[FieldNumBits] = 2 * H /\ Pow2[FieldNumBits + 2] = 8 * H
  <2>1. /\ FieldNumBits - 1 \in 0..(WordBits + 5) /\ (FieldNumBits - 1) + 1 = FieldNumBits
        /\ FieldNumBits \in 0..(WordBits + 5)
        /\ FieldNumBits + 1 \in 0..(WordBits + 5) /\ (FieldNumBits + 1) + 1 = FieldNumBits + 2
    BY Widths
  <2>2. Pow2[FieldNumBits] = 2 * H
    BY <1>1, <2>1, Powers
  <2>3. Pow2[FieldNumBits + 1] = 2 * Pow2[FieldNumBits]
    BY <2>1, Powers
  <2>4. Pow2[FieldNumBits + 2] = 2 * Pow2[FieldNumBits + 1]
    BY <2>1, Powers
  <2>. QED  BY <2>2, <2>3, <2>4
<1>5. x \in Word
  <2>1. /\ FieldNumBits + 2 \in Nat /\ WordBits \in Nat /\ FieldNumBits + 2 <= WordBits
        /\ WordBits <= WordBits + 6
    BY Widths
  <2>2. Pow2[FieldNumBits + 2] <= Pow2[WordBits]
    BY <2>1, PowersGrow
  <2>3. x \in Nat /\ x < 8 * H
    BY <1>2
  <2>. QED  BY <1>4, <2>2, <2>3, HalfFacts DEF Word
<1>6. Signed(num, FieldNumBits) = num
  <2>1. Signed(num, FieldNumBits) = ((num + H) % (2 * H)) - H
    BY <1>1, <1>4 DEF Signed
  <2>2. PICK b \in Nat \ {0}, r \in Nat : b = 2 * H /\ r = num + H
    BY <1>2
  <2>3. r < b
    BY <1>2, <2>2
  <2>4. r % b = r
    BY <2>3
  <2>. QED  BY <1>2, <2>1, <2>2, <2>4
<1>. QED  BY <1>2, <1>3, <1>5, <1>6

\* What follows a tag, by its wire type.
IsPayload(type, bz) ==
  \/ type = 0 /\ \E v \in Word : bz = encodeVarint(v)
  \/ type = 1 /\ Len(bz) = 8
  \/ type = 2 /\ \E u \in Seq(Byte) : Fits(u) /\ bz = encodeVarint(Len(u)) \o u
  \/ type \in {3, 4} /\ bz = <<>>
  \/ type = 5 /\ Len(bz) = 4

LEMMA TokenFacts ==
  ASSUME NEW t \in Tokens
  PROVE  /\ t.num \in FieldNums /\ t.type \in 0..5
         /\ Payload_Marshal(t) \in Seq(Byte) /\ IsPayload(t.type, Payload_Marshal(t))
<1>1. t.num \in FieldNums /\ t.type \in 0..5 /\ t.value \in ValuesOf(t.type)
  BY DEF Tokens
<1>2. PICK type \in 0..5 : t.type = type /\ t.num \in FieldNums
  BY <1>1
<1>3. PICK value, p : value = t.value /\ p = Payload_Marshal(t)
  OBVIOUS
<1>4. value \in ValuesOf(type)
  BY <1>1, <1>2, <1>3
<1>5. CASE type = 0
  <2>1. value \in [1..1 -> Word] /\ p = encodeVarint(value[1])
    BY <1>2, <1>3, <1>4, <1>5 DEF Payload_Marshal, ValuesOf
  <2>2. PICK v \in Word : v = value[1]
    BY <2>1
  <2>3. p = encodeVarint(v) /\ p \in Seq(Byte)
    <3>1. v \in Nat
      BY SovFits
    <3>. QED  BY <2>1, <2>2, <3>1, EncodeVarintBytes
  <2>. QED  BY <1>2, <1>3, <1>5, <2>3 DEF IsPayload
<1>6. CASE type = 2
  <2>1. value \in Seq(Byte) /\ Fits(value) /\ p = encodeVarint(Len(value)) \o value
    BY <1>2, <1>3, <1>4, <1>6 DEF Payload_Marshal, ValuesOf, Strings
  <2>2. encodeVarint(Len(value)) \in Seq(Byte)
    <3>1. Len(value) \in Nat
      BY <2>1
    <3>. QED  BY <3>1, EncodeVarintBytes
  <2>3. p \in Seq(Byte)
    BY <2>1, <2>2, Joined
  <2>. QED  BY <1>2, <1>3, <1>6, <2>1, <2>3 DEF IsPayload
<1>7. CASE type \in {3, 4}
  <2>1. p = <<>>
    BY <1>2, <1>3, <1>4, <1>7 DEF Payload_Marshal, ValuesOf
  <2>. QED  BY <1>2, <1>3, <1>7, <2>1 DEF IsPayload
<1>8. CASE type = 1 \/ type = 5
  <2>1. PICK n \in Nat : n = IF type = 1 THEN 8 ELSE 4
    OBVIOUS
  <2>2. p = value /\ value \in [1..n -> Byte]
    BY <1>2, <1>3, <1>4, <1>8, <2>1 DEF Payload_Marshal, ValuesOf
  <2>3. p \in Seq(Byte) /\ Len(p) = n
    BY <2>2, <2>1
  <2>. QED  BY <1>2, <1>3, <1>8, <2>1, <2>3 DEF IsPayload
<1>. QED  BY <1>2, <1>5, <1>6, <1>7, <1>8

LEMMA TokenReads ==
  ASSUME NEW s \in Seq(Byte), NEW t \in Tokens
  PROVE  \E x \in Word :
           /\ x % 8 = t.type /\ x \div 8 = t.num
           /\ encodeVarint(x) \in Seq(Byte) /\ sov(x) \in Nat \ {0} /\ Payload_Marshal(t) \in Seq(Byte)
           /\ Token_Marshal(t) \in Seq(Byte) /\ Len(Token_Marshal(t)) = sov(x) + Len(Payload_Marshal(t))
           /\ \A i : \A rest \in Seq(Byte) : IsTail(s, i, Token_Marshal(t) \o rest) =>
                /\ decodeVarint(s, i) = [st |-> "ok", i |-> i + sov(x), v |-> x]
                /\ IsTail(s, i + sov(x), Payload_Marshal(t) \o rest)
                /\ i \in Nat
<1>1. t.num \in FieldNums /\ t.type \in 0..5 /\ Payload_Marshal(t) \in Seq(Byte)
  BY TokenFacts
<1>2. PICK x : x = 8 * t.num + t.type
  OBVIOUS
<1>3. x \in Word /\ x % 8 = t.type /\ x \div 8 = t.num
  BY <1>1, <1>2, TagNumber
<1>4. PICK tag, p : tag = encodeVarint(x) /\ p = Payload_Marshal(t)
  OBVIOUS
<1>5. /\ tag \in Seq(Byte) /\ Len(tag) = sov(x) /\ sov(x) \in Nat \ {0}
  <2>1. x \in Nat /\ sov(x) \in Nat \ {0}
    BY <1>3, SovFits
  <2>. QED  BY <1>4, <2>1, EncodeVarintBytes
<1>6. Token_Marshal(t) = tag \o p
  BY <1>2, <1>4 DEF Token_Marshal
<1>7. p \in Seq(Byte) /\ tag \o p \in Seq(Byte) /\ Len(tag \o p) = Len(tag) + Len(p)
  BY <1>1, <1>4, <1>5, Joined
<1>8. ASSUME NEW i, NEW rest \in Seq(Byte), IsTail(s, i, Token_Marshal(t) \o rest)
      PROVE  /\ decodeVarint(s, i) = [st |-> "ok", i |-> i + sov(x), v |-> x]
             /\ IsTail(s, i + sov(x), p \o rest)
             /\ i \in Nat
  <2>1. (tag \o p) \o rest = tag \o (p \o rest) /\ p \o rest \in Seq(Byte)
    BY <1>5, <1>7, Joining, Joined, SMTT(30)
  <2>2. IsTail(s, i, encodeVarint(x) \o (p \o rest))
    BY <1>4, <1>6, <1>8, <2>1
  <2>3. PICK u \in Seq(Byte) : u = p \o rest
    BY <2>1
  <2>4. IsTail(s, i, encodeVarint(x) \o u)
    BY <2>2, <2>3
  <2>5. /\ decodeVarint(s, i) = [st |-> "ok", i |-> i + sov(x), v |-> x]
        /\ IsTail(s, i + sov(x), u) /\ i \in Nat
    BY <1>3, <2>4, VarintRoundTrip, SMTT(30)
  <2>. QED  BY <2>3, <2>5
<1>. QED  BY <1>3, <1>4, <1>5, <1>6, <1>7, <1>8

\* One iteration of skipTx reads a tag and its payload.
LEMMA TokenSkipped ==
  ASSUME NEW s \in Buffers, NEW i, NEW t \in Tokens,
         NEW rest \in Seq(Byte), IsTail(s, i, Token_Marshal(t) \o rest),
         NEW depth \in Nat, t.type = 4 => depth # 0
  PROVE  skipOne(s, i, depth) =
           [st |-> "ok", i |-> i + Len(Token_Marshal(t)), v |-> depth + Opened(t.type)]
<1>. DEFINE Ends(n) == IF n < 0 THEN Failed("err") ELSE [st |-> "ok", i |-> n, v |-> depth]
<1>1. s \in Seq(Byte) /\ Len(s) \in Nat /\ Len(s) < Half /\ Half \in Nat
  BY BufferFacts, HalfFacts
<1>2. PICK x \in Word :
        /\ x % 8 = t.type /\ sov(x) \in Nat \ {0} /\ Payload_Marshal(t) \in Seq(Byte)
        /\ Len(Token_Marshal(t)) = sov(x) + Len(Payload_Marshal(t))
        /\ decodeVarint(s, i) = [st |-> "ok", i |-> i + sov(x), v |-> x]
        /\ IsTail(s, i + sov(x), Payload_Marshal(t) \o rest)
        /\ i \in Nat
  BY <1>1, TokenReads
<1>3. PICK c \in Nat, p \in Seq(Byte), type \in 0..5 : c = i + sov(x) /\ p = Payload_Marshal(t) /\ type = t.type
  BY <1>2, TokenFacts
<1>4. PICK l \in Nat : l = Len(p)
  BY <1>3
<1>5. /\ i + Len(Token_Marshal(t)) = c + l
      /\ IsTail(s, c, p \o rest) /\ IsPayload(type, p) /\ type \in 0..5
      /\ type = 4 => depth # 0
  BY <1>2, <1>3, <1>4, TokenFacts
<1>6. c + l <= Len(s) /\ c + l < Half /\ IsTail(s, c + l, rest)
  <2>1. c + Len(p) <= Len(s) /\ IsTail(s, c + Len(p), rest)
    BY <1>5, TailOf
  <2>. QED  BY <1>1, <1>4, <2>1
<1>7. PICK wire : wire = decodeVarint(s, i)
  OBVIOUS
<1>8. wire.st = "ok" /\ wire.i = c /\ wire.v % 8 = type
  BY <1>2, <1>3, <1>7
<1>9. PICK val : val = decodeVarint(s, c)
  OBVIOUS
<1>10. skipOne(s, i, depth) =
         IF type = 0 THEN (IF val.st = "ok" THEN Ends(val.i) ELSE val)
         ELSE IF type = 1 THEN Ends(Int64(c + 8))
         ELSE IF type = 2 THEN (IF val.st # "ok" THEN val
                                ELSE IF Int64(val.v) < 0 THEN Failed("err")
                                ELSE Ends(Int64(val.i + Int64(val.v))))
         ELSE IF type = 3 THEN [st |-> "ok", i |-> c, v |-> depth + 1]
         ELSE IF type = 4 /\ depth # 0 THEN [st |-> "ok", i |-> c, v |-> depth - 1]
         ELSE IF type = 5 THEN Ends(Int64(c + 4))
         ELSE Failed("err")
  BY <1>7, <1>8, <1>9 DEF skipOne, openGroup
<1>11. Ends(c + l) = [st |-> "ok", i |-> c + l, v |-> depth]
  OBVIOUS
<1>12. Int64(c + l) = c + l
  BY <1>6, Int64Facts
<1>. HIDE DEF Ends
<1>13. CASE type = 0
  <2>1. PICK v \in Word : p = encodeVarint(v)
    BY <1>5, <1>13 DEF IsPayload
  <2>2. IsTail(s, c, encodeVarint(v) \o rest)
    BY <1>5, <2>1
  <2>3. val = [st |-> "ok", i |-> c + sov(v), v |-> v]
    BY <1>1, <1>9, <2>2, VarintRoundTrip
  <2>4. sov(v) = l
    <3>1. v \in Nat
      BY SovFits
    <3>. QED  BY <1>4, <2>1, <3>1, EncodeVarintBytes
  <2>5. val.st = "ok" /\ val.i = c + l
    BY <2>3, <2>4
  <2>6. skipOne(s, i, depth) = Ends(c + l)
    BY <1>10, <1>13, <2>5
  <2>7. Opened(type) = 0
    BY <1>13 DEF Opened
  <2>. QED  BY <1>3, <1>5, <1>11, <2>6, <2>7
<1>14. CASE type = 1 \/ type = 5
  <2>1. l = IF type = 1 THEN 8 ELSE 4
    BY <1>4, <1>5, <1>14 DEF IsPayload
  <2>2. skipOne(s, i, depth) = Ends(Int64(c + l))
    BY <1>10, <1>14, <2>1
  <2>3. Opened(type) = 0
    BY <1>14 DEF Opened
  <2>. QED  BY <1>3, <1>5, <1>11, <1>12, <2>2, <2>3
<1>15. CASE type = 2
  <2>1. PICK u \in Seq(Byte) : p = encodeVarint(Len(u)) \o u
    <3>1. type # 0 /\ type # 1 /\ type \notin {3, 4} /\ type # 5
      BY <1>15
    <3>. QED  BY <1>5, <3>1, Zenon DEF IsPayload
  <2>2. PICK n \in Nat : n = Len(u)
    BY <2>1
  <2>3. u \in Seq(Byte) /\ Len(u) = n /\ p = encodeVarint(n) \o u
    BY <2>1, <2>2
  <2>4. n \in Nat /\ n < Half /\ n \in Word
    <3>1. PICK e \in Seq(Byte) : e = encodeVarint(n)
      BY EncodeVarintBytes
    <3>2. Len(e \o u) = Len(e) + Len(u) /\ Len(e) \in Nat
      <4>1. u \in Seq(Byte)
        BY <2>3
      <4>. QED  BY <3>1, <4>1, Joined
    <3>3. n <= l
      BY <1>4, <2>3, <3>1, <3>2
    <3>. QED  BY <1>6, <3>3, HalfFacts DEF Word
  <2>5. PICK e : e = encodeVarint(n)
    OBVIOUS
  <2>6. e \in Seq(Byte) /\ Len(e) = sov(n) /\ sov(n) \in Nat
    BY <2>4, <2>5, EncodeVarintBytes
  <2>7. p \o rest = e \o (u \o rest) /\ u \o rest \in Seq(Byte) /\ l = sov(n) + n
    <3>1. p = e \o u
      BY <2>3, <2>5
    <3>2. (e \o u) \o rest = e \o (u \o rest)
      BY <2>3, <2>6, Joining, SMTT(30)
    <3>3. Len(e \o u) = Len(e) + Len(u) /\ u \o rest \in Seq(Byte)
      BY <2>3, <2>6, Joined
    <3>. QED  BY <1>4, <2>3, <2>6, <3>1, <3>2, <3>3
  <2>8. val = [st |-> "ok", i |-> c + sov(n), v |-> n]
    <3>1. IsTail(s, c, encodeVarint(n) \o (u \o rest))
      BY <1>5, <2>5, <2>7
    <3>. QED  BY <1>1, <1>9, <2>4, <2>7, <3>1, VarintRoundTrip
  <2>9. val.st = "ok" /\ val.i = c + sov(n) /\ Int64(val.v) = n
    BY <2>4, <2>8, Int64Facts
  <2>10. val.i + Int64(val.v) = c + l
    BY <2>4, <2>6, <2>7, <2>9
  <2>11. skipOne(s, i, depth) = Ends(c + l)
    BY <1>10, <1>12, <1>15, <2>4, <2>9, <2>10
  <2>12. Opened(type) = 0
    BY <1>15 DEF Opened
  <2>. QED  BY <1>3, <1>5, <1>11, <2>11, <2>12
<1>16. CASE type = 3 \/ type = 4
  <2>1. l = 0
    BY <1>4, <1>5, <1>16 DEF IsPayload
  <2>2. skipOne(s, i, depth) = [st |-> "ok", i |-> c + l, v |-> depth + Opened(type)]
    BY <1>5, <1>10, <1>16, <2>1 DEF Opened
  <2>. QED  BY <1>3, <1>5, <2>2
<1>. QED  BY <1>5, <1>13, <1>14, <1>15, <1>16

\* The bytes of the k first tags of a field.
IsTokens(tokens, written) ==
  /\ written[0] = <<>>
  /\ \A k \in 0..(Len(tokens) - 1) : written[k + 1] = written[k] \o Token_Marshal(tokens[k + 1])
  /\ \A k \in 0..Len(tokens) : written[k] \in Seq(Byte) /\ k <= Len(written[k])
  /\ Tokens_Marshal(tokens) = written[Len(tokens)]

LEMMA TokenBytes ==
  ASSUME NEW t \in Tokens
  PROVE  Token_Marshal(t) \in Seq(Byte) /\ Len(Token_Marshal(t)) \in Nat \ {0}
<1>1. PICK x \in Word : /\ sov(x) \in Nat \ {0} /\ Payload_Marshal(t) \in Seq(Byte)
                        /\ Token_Marshal(t) \in Seq(Byte)
                        /\ Len(Token_Marshal(t)) = sov(x) + Len(Payload_Marshal(t))
  <2>1. <<>> \in Seq(Byte)
    OBVIOUS
  <2>. QED  BY <2>1, TokenReads
<1>. QED  BY <1>1

LEMMA TokensWritten ==
  ASSUME NEW tokens \in Seq(Tokens)
  PROVE  \E written : IsTokens(tokens, written)
<1>. DEFINE n == Len(tokens)
            Solves(f) == f = [k \in 0..n |-> IF k = 0 THEN <<>> ELSE f[k - 1] \o Token_Marshal(tokens[k])]
            written == CHOOSE f : Solves(f)
            F == [k \in 1..n |-> [s \in Seq(Byte) |-> s \o Token_Marshal(tokens[k])]]
<1>1. n \in Nat
  OBVIOUS
<1>2. Tokens_Marshal(tokens) = written[n]
  BY Zenon DEF Tokens_Marshal
<1>3. ASSUME NEW k \in 1..n
      PROVE  Token_Marshal(tokens[k]) \in Seq(Byte) /\ Len(Token_Marshal(tokens[k])) \in Nat \ {0}
  <2>1. tokens[k] \in Tokens
    OBVIOUS
  <2>. QED  BY <2>1, TokenBytes
<1>. HIDE DEF n
<1>4. Solves(written)
  <2>1. /\ \A k \in 1..n : \A s \in Seq(Byte) : F[k][s] = s \o Token_Marshal(tokens[k])
        /\ \A k \in 1..n : \A s \in Seq(Byte) : F[k][s] \in Seq(Byte)
    BY <1>3, Joined
  <2>. HIDE DEF F
  <2>2. IsLoop(n, Seq(Byte), <<>>, F)
    <3>1. <<>> \in Seq(Byte)
      OBVIOUS
    <3>. QED  BY <1>1, <2>1, <3>1, Zenon DEF IsLoop
  <2>3. PICK f : IsRun(n, Seq(Byte), <<>>, F, f)
    BY <2>2, LoopExists
  <2>4. ASSUME NEW k \in 1..n PROVE f[k] = f[k - 1] \o Token_Marshal(tokens[k])
    <3>1. k - 1 \in 0..n
      BY <1>1
    <3>2. f[k - 1] \in Seq(Byte)
      BY <2>3, <3>1 DEF IsRun
    <3>. QED  BY <2>1, <2>3, <3>2, Zenon DEF IsRun
  <2>5. f = [k \in 0..n |-> f[k]] /\ f[0] = <<>>
    BY <1>1, <2>3 DEF IsRun
  <2>6. \A k \in 0..n : f[k] = IF k = 0 THEN <<>> ELSE f[k - 1] \o Token_Marshal(tokens[k])
    <3>1. \A k \in 0..n : k = 0 \/ k \in 1..n
      BY <1>1
    <3>. QED  BY <2>4, <2>5, <3>1, Zenon
  <2>7. Solves(f)
    BY <2>5, <2>6, Zenon
  <2>. HIDE DEF Solves
  <2>. QED  BY <2>7
<1>. HIDE DEF written
<1>5. ASSUME NEW k \in 0..(n - 1)
      PROVE  written[k + 1] = written[k] \o Token_Marshal(tokens[k + 1])
  <2>1. k + 1 \in 0..n /\ k + 1 # 0 /\ (k + 1) - 1 = k
    BY <1>1
  <2>. QED  BY <1>4, <2>1
<1>6. written[0] = <<>>
  BY <1>1, <1>4
<1>. HIDE DEF Solves
<1>7. \A k \in 0..n : written[k] \in Seq(Byte) /\ k <= Len(written[k])
  <2>. DEFINE P == {k \in 0..n : written[k] \in Seq(Byte) /\ k <= Len(written[k])}
  <2>1. 0 \in P
    <3>1. <<>> \in Seq(Byte) /\ 0 <= Len(<<>>) /\ 0 \in 0..n
      BY <1>1
    <3>. QED  BY <1>6, <3>1
  <2>2. ASSUME NEW k \in 0..(n - 1), k \in P PROVE k + 1 \in P
    <3>1. PICK s \in Seq(Byte), t \in Seq(Byte) : s = written[k] /\ t = Token_Marshal(tokens[k + 1])
      BY <1>1, <1>3, <2>2
    <3>2. k <= Len(s) /\ Len(t) \in Nat \ {0}
      BY <1>1, <1>3, <2>2, <3>1
    <3>3. written[k + 1] = s \o t /\ s \o t \in Seq(Byte) /\ Len(s \o t) = Len(s) + Len(t)
      BY <1>5, <3>1, Joined
    <3>4. k + 1 <= Len(s \o t) /\ k + 1 \in 0..n
      BY <1>1, <3>2, <3>3
    <3>. QED  BY <3>3, <3>4
  <2>. HIDE DEF P
  <2>3. \A k \in 0..n : k \in P
    BY <1>1, <2>1, <2>2, CountUp
  <2>. QED  BY <2>3 DEF P
<1>8. IsTokens(tokens, written)
  BY <1>2, <1>5, <1>6, <1>7 DEF IsTokens, n
<1>. QED  BY <1>8

\* What follows the k first tags.
LEMMA TokensLeft ==
  ASSUME NEW tokens \in Seq(Tokens), NEW written, IsTokens(tokens, written),
         NEW k \in 0..(Len(tokens) - 1)
  PROVE  \E u \in Seq(Byte) :
           Tokens_Marshal(tokens) = written[k] \o (Token_Marshal(tokens[k + 1]) \o u)
<1>1. PICK n, all : n \in Nat /\ n = Len(tokens) /\ all = Tokens_Marshal(tokens)
  OBVIOUS
<1>2. /\ \A l \in 0..(n - 1) : written[l + 1] = written[l] \o Token_Marshal(tokens[l + 1])
      /\ \A l \in 0..n : written[l] \in Seq(Byte)
      /\ all = written[n]
  BY <1>1 DEF IsTokens
<1>3. \A l \in 1..n : Token_Marshal(tokens[l]) \in Seq(Byte)
  <2>. SUFFICES ASSUME NEW l \in 1..n PROVE Token_Marshal(tokens[l]) \in Seq(Byte)
    OBVIOUS
  <2>1. tokens[l] \in Tokens
    BY <1>1
  <2>. QED  BY <2>1, TokenBytes
<1>. DEFINE P == {d \in 0..n : \E u \in Seq(Byte) : all = written[n - d] \o u}
<1>4. 0 \in P
  <2>1. n - 0 = n /\ n \in 0..n /\ 0 \in 0..n
    BY <1>1
  <2>2. all \in Seq(Byte)
    BY <1>2, <2>1
  <2>3. all \o <<>> = all /\ <<>> \in Seq(Byte)
    BY <2>2
  <2>4. \E u \in Seq(Byte) : all = written[n - 0] \o u
    BY <1>2, <2>1, <2>3
  <2>. QED  BY <2>1, <2>4
<1>5. \A l \in 0..(n - 1) : \A u \in Seq(Byte) :
        all = written[l + 1] \o u =>
          /\ all = written[l] \o (Token_Marshal(tokens[l + 1]) \o u)
          /\ Token_Marshal(tokens[l + 1]) \o u \in Seq(Byte)
  <2>. SUFFICES ASSUME NEW l \in 0..(n - 1), NEW u \in Seq(Byte), all = written[l + 1] \o u
                PROVE  /\ all = written[l] \o (Token_Marshal(tokens[l + 1]) \o u)
                       /\ Token_Marshal(tokens[l + 1]) \o u \in Seq(Byte)
    OBVIOUS
  <2>1. l \in 0..n /\ l + 1 \in 1..n
    BY <1>1
  <2>2. PICK s \in Seq(Byte), t \in Seq(Byte) : s = written[l] /\ t = Token_Marshal(tokens[l + 1])
    BY <1>2, <1>3, <2>1
  <2>3. (s \o t) \o u = s \o (t \o u) /\ t \o u \in Seq(Byte)
    BY Joining, Joined
  <2>4. written[l + 1] = s \o t
    BY <1>2, <2>2
  <2>. QED  BY <2>2, <2>3, <2>4
<1>6. ASSUME NEW d \in 0..(n - 1), d \in P PROVE d + 1 \in P
  <2>1. PICK l \in 0..(n - 1) : l = n - (d + 1) /\ n - d = l + 1
    BY <1>1
  <2>2. PICK u \in Seq(Byte) : all = written[l + 1] \o u
    BY <1>6, <2>1
  <2>3. \E v \in Seq(Byte) : all = written[l] \o v
    BY <1>5, <2>2
  <2>4. d + 1 \in 0..n /\ n - (d + 1) = l
    BY <1>1, <2>1
  <2>. QED  BY <2>3, <2>4
<1>7. \A d \in 0..n : d \in P
  <2>. HIDE DEF P
  <2>. QED  BY <1>1, <1>4, <1>6, CountUp
<1>8. PICK u \in Seq(Byte) : all = written[k + 1] \o u
  <2>1. n - (k + 1) \in 0..n /\ n - (n - (k + 1)) = k + 1
    BY <1>1
  <2>2. n - (k + 1) \in P
    BY <1>7, <2>1
  <2>. QED  BY <2>1, <2>2
<1>9. all = written[k] \o (Token_Marshal(tokens[k + 1]) \o u)
  BY <1>1, <1>5, <1>8
<1>. QED  BY <1>1, <1>9

\* The end of a sequence.
LEMMA TailAfter ==
  ASSUME NEW a \in Seq(Byte), NEW b \in Seq(Byte)
  PROVE  IsTail(a \o b, Len(a), b)
  BY DEF IsTail

\* skipTx reads a field of another schema, whatever follows it.
LEMMA FieldSkipped ==
  ASSUME NEW f, IsWireField(f), NEW rest \in Seq(Byte), Tokens_Marshal(f) \o rest \in Buffers
  PROVE  skip(Tokens_Marshal(f) \o rest) = [st |-> "ok", i |-> Len(Tokens_Marshal(f)), v |-> 0]
<1>1. f \in Seq(Tokens) /\ f # <<>>
  BY DEF IsWireField
<1>2. PICK n \in Nat \ {0} : n = Len(f)
  BY <1>1
<1>3. PICK depth \in [0..n -> 0..n] :
        /\ depth[0] = 0
        /\ \A k \in 1..n : /\ depth[k] = depth[k - 1] + Opened(f[k].type)
                           /\ (depth[k] = 0) <=> (k = n)
  BY <1>2 DEF IsWireField
<1>4. PICK written : IsTokens(f, written)
  BY <1>1, TokensWritten
<1>5. PICK all \in Seq(Byte) : all = Tokens_Marshal(f)
  BY <1>1, <1>2, <1>4 DEF IsTokens
<1>6. PICK s \in Buffers : s = all \o rest
  BY <1>5
<1>7. /\ written[0] = <<>> /\ all = written[n]
      /\ \A k \in 0..n : written[k] \in Seq(Byte) /\ k <= Len(written[k])
      /\ \A k \in 0..(n - 1) : written[k + 1] = written[k] \o Token_Marshal(f[k + 1])
  BY <1>2, <1>4, <1>5 DEF IsTokens
<1>8. Len(s) \in Nat /\ Len(s) = Len(all) + Len(rest) /\ n <= Len(all) /\ Len(all) \in Nat
  <2>1. n <= Len(all)
    BY <1>2, <1>7
  <2>. QED  BY <1>5, <1>6, <2>1, Joined, SMTT(30)
<1>9. PICK after : IsSkipRun(s, after, skip(s))
  BY SkipRuns
<1>10. PICK state : state = [k \in 0..n |-> [st |-> "ok", i |-> Len(written[k]), v |-> depth[k]]]
  OBVIOUS
<1>11. \A k \in 0..n : after[k] = state[k]
  <2>. DEFINE P == {k \in 0..n : after[k] = state[k]}
  <2>1. 0 \in P
    <3>1. Len(written[0]) = 0 /\ 0 \in 0..n
      BY <1>7
    <3>. QED  BY <1>3, <1>9, <1>10, <3>1 DEF IsSkipRun
  <2>2. ASSUME NEW k \in 0..(n - 1), k \in P PROVE k + 1 \in P
    <3>1. k \in 0..n /\ k + 1 \in 0..n /\ k + 1 \in 1..n /\ (k + 1) - 1 = k /\ k \in 0..(Len(s) - 1)
      BY <1>2, <1>8
    <3>2. PICK w \in Seq(Byte), t \in Tokens, d \in Nat :
            w = written[k] /\ t = f[k + 1] /\ d = depth[k]
      <4>1. written[k] \in Seq(Byte)
        BY <1>7, <3>1
      <4>2. f[k + 1] \in Tokens
        BY <1>1, <1>2, <3>1
      <4>3. depth[k] \in Nat
        BY <1>3, <3>1
      <4>. QED  BY <4>1, <4>2, <4>3
    <3>3. PICK u \in Seq(Byte) : all = w \o (Token_Marshal(t) \o u)
      <4>1. k \in 0..(Len(f) - 1)
        BY <1>2
      <4>2. PICK u \in Seq(Byte) : Tokens_Marshal(f) = written[k] \o (Token_Marshal(f[k + 1]) \o u)
        BY <1>1, <1>4, <4>1, TokensLeft
      <4>3. all = w \o (Token_Marshal(t) \o u)
        BY <1>5, <3>2, <4>2
      <4>. QED  BY <4>3
    <3>4. PICK tag \in Seq(Byte) : tag = Token_Marshal(t) /\ Len(tag) \in Nat \ {0}
      BY TokenBytes
    <3>5. IsTail(s, Len(w), tag \o (u \o rest)) /\ u \o rest \in Seq(Byte)
      <4>1. /\ tag \o u \in Seq(Byte) /\ u \o rest \in Seq(Byte) /\ tag \o (u \o rest) \in Seq(Byte)
            /\ (tag \o u) \o rest = tag \o (u \o rest)
        BY Joining, Joined
      <4>2. (w \o (tag \o u)) \o rest = w \o ((tag \o u) \o rest)
        BY <4>1, Joining, ZenonT(40)
      <4>3. s = w \o (tag \o (u \o rest))
        BY <1>6, <3>3, <3>4, <4>1, <4>2
      <4>. QED  BY <4>1, <4>3, TailAfter
    <3>6. PICK c : c = [st |-> "ok", i |-> Len(w), v |-> d]
      OBVIOUS
    <3>7. c.st = "ok" /\ c.i = Len(w) /\ c.v = d /\ after[k] = c
      BY <1>10, <2>2, <3>1, <3>2, <3>6
    <3>8. Len(w) < Len(s) /\ Len(w) \in Nat
      <4>1. PICK v \in Seq(Byte) : v = u \o rest
        BY <3>5
      <4>2. Len(tag \o v) = Len(tag) + Len(v) /\ tag \o v \in Seq(Byte)
        BY Joined
      <4>3. PICK m \in Nat : m = Len(w)
        OBVIOUS
      <4>4. m + Len(tag \o v) = Len(s)
        BY <3>5, <4>1, <4>3 DEF IsTail
      <4>5. Len(v) \in Nat
        OBVIOUS
      <4>. QED  BY <1>8, <3>4, <4>2, <4>3, <4>4, <4>5
    <3>9. k + 1 > 1 => d # 0
      <4>1. k + 1 > 1 => k \in 1..n /\ k # n
        BY <3>1
      <4>. QED  BY <1>3, <3>2, <4>1
    <3>10. after[k + 1] = skipOne(s, Len(w), d)
      <4>1. after[k + 1] = SkipStep(s, k + 1, c)
        BY <1>9, <3>1, <3>7 DEF IsSkipRun
      <4>2. ~ (c.st # "ok" \/ (k + 1 > 1 /\ c.v = 0)) /\ ~ (c.i >= Len(s))
        <5>1. PICK m \in Nat, l \in Nat : m = Len(w) /\ l = Len(s) /\ m < l
          BY <1>8, <3>8
        <5>2. ~ (m >= l)
          BY <5>1
        <5>. QED  BY <3>7, <3>9, <5>1, <5>2, Zenon
      <4>3. SkipStep(s, k + 1, c) = skipOne(s, c.i, c.v)
        BY <4>2, Zenon DEF SkipStep
      <4>. QED  BY <3>7, <4>1, <4>3
    <3>11. depth[k + 1] = d + Opened(t.type) /\ depth[k + 1] \in 0..n /\ t.type \in 0..5
      BY <1>3, <3>1, <3>2, TokenFacts
    <3>12. t.type = 4 => d # 0
      BY <3>11 DEF Opened
    <3>13. skipOne(s, Len(w), d) = [st |-> "ok", i |-> Len(w) + Len(tag), v |-> d + Opened(t.type)]
      BY <3>4, <3>5, <3>12, TokenSkipped, ZenonT(40)
    <3>14. Len(written[k + 1]) = Len(w) + Len(tag)
      BY <1>7, <3>2, <3>4, Joined
    <3>. QED  BY <1>10, <3>1, <3>10, <3>11, <3>13, <3>14
  <2>. HIDE DEF P
  <2>3. \A k \in 0..n : k \in P
    BY <1>2, <2>1, <2>2, CountUp
  <2>. QED  BY <2>3 DEF P
<1>12. PICK done : done = [st |-> "ok", i |-> Len(all), v |-> 0]
  OBVIOUS
<1>13. done.st = "ok" /\ done.i = Len(all) /\ done.v = 0
  BY <1>12
<1>14. after[n] = done
  <2>1. n \in 0..n /\ n \in 1..n
    BY <1>2
  <2>2. depth[n] = 0
    BY <1>3, <2>1
  <2>. QED  BY <1>7, <1>10, <1>11, <1>12, <2>1, <2>2
<1>15. \A d \in 0..(Len(s) - n) : after[n + d] = done
  <2>. DEFINE P == {d \in 0..(Len(s) - n) : after[n + d] = done}
  <2>1. Len(s) - n \in Nat
    BY <1>2, <1>8
  <2>2. 0 \in P
    BY <1>2, <1>14, <2>1
  <2>3. ASSUME NEW d \in 0..((Len(s) - n) - 1), d \in P PROVE d + 1 \in P
    <3>1. /\ n + d \in 0..(Len(s) - 1) /\ (n + d) + 1 = n + (d + 1) /\ d + 1 \in 0..(Len(s) - n)
          /\ (n + d) + 1 > 1
      BY <1>2, <2>1
    <3>2. after[(n + d) + 1] = SkipStep(s, (n + d) + 1, done)
      BY <1>9, <2>3, <3>1 DEF IsSkipRun
    <3>3. SkipStep(s, (n + d) + 1, done) = done
      BY <1>13, <3>1 DEF SkipStep
    <3>. QED  BY <3>1, <3>2, <3>3
  <2>. HIDE DEF P
  <2>4. \A d \in 0..(Len(s) - n) : d \in P
    BY <2>1, <2>2, <2>3, CountUp
  <2>. QED  BY <2>4 DEF P
<1>16. PICK k \in 0..Len(s) :
         /\ k = Len(s) \/ (k > 0 /\ (after[k].st # "ok" \/ after[k].v = 0))
         /\ skip(s) = IF after[k].st = "ok" /\ (after[k].v # 0 \/ after[k].i = 0)
                      THEN Failed("err") ELSE after[k]
  BY <1>9 DEF IsSkipRun
<1>17. after[k] = done
  <2>1. CASE k >= n
    <3>1. k - n \in 0..(Len(s) - n) /\ n + (k - n) = k
      BY <1>2, <1>8, <2>1
    <3>. QED  BY <1>15, <3>1
  <2>2. CASE k < n
    <3>1. k \in 1..n /\ k \in 0..n /\ k # n /\ (after[k].st # "ok" \/ after[k].v = 0)
      BY <1>2, <1>8, <1>16, <2>2
    <3>2. after[k].st = "ok" /\ after[k].v = depth[k]
      <4>1. PICK c : c = [st |-> "ok", i |-> Len(written[k]), v |-> depth[k]]
        OBVIOUS
      <4>2. after[k] = c
        BY <1>10, <1>11, <3>1, <4>1
      <4>. QED  BY <4>1, <4>2
    <3>3. depth[k] # 0
      BY <1>3, <3>1
    <3>. QED  BY <3>1, <3>2, <3>3
  <2>. QED  BY <1>2, <1>8, <2>1, <2>2
<1>18. skip(s) = done
  BY <1>2, <1>8, <1>13, <1>16, <1>17
<1>. QED  BY <1>5, <1>6, <1>12, <1>18

\* Where a buffer's slice starts is where what is left of it starts.
LEMMA SliceIsTail ==
  ASSUME NEW dAtA \in Seq(Byte), NEW i, NEW t, IsTail(dAtA, i, t)
  PROVE  Slice(dAtA, i, Len(dAtA)) = t
<1>1. i \in Nat /\ t \in Seq(Byte) /\ i + Len(t) = Len(dAtA) /\ Len(t) \in Nat /\ i <= Len(dAtA)
  BY TailIsLeft
<1>2. PICK b : b = Slice(dAtA, i, Len(dAtA))
  OBVIOUS
<1>3. b \in Seq(Byte) /\ Len(b) = Len(t) /\ \A k \in 1..Len(t) : b[k] = dAtA[i + k]
  <2>1. PICK n \in Nat : n = Len(dAtA)
    OBVIOUS
  <2>2. b \in Seq(Byte) /\ Len(b) = n - i
    BY <1>1, <1>2, <2>1, SubSeqFacts DEF Slice
  <2>3. Len(b) = Len(t)
    BY <1>1, <2>1, <2>2
  <2>4. b = SubSeq(dAtA, i + 1, n)
    BY <1>2, <2>1 DEF Slice
  <2>5. \A k \in 1..Len(t) : b[k] = dAtA[i + k]
    BY <1>1, <2>1, <2>4
  <2>. QED  BY <2>2, <2>3, <2>5
<1>4. \A k \in 1..Len(t) : b[k] = t[k]
  BY <1>3 DEF IsTail
<1>. QED  BY <1>1, <1>2, <1>3, <1>4

\* The first tag of a field of another schema is none that ends a group.
LEMMA FirstToken ==
  ASSUME NEW f, IsWireField(f)
  PROVE  /\ f[1] \in Tokens /\ f[1].type # 4
         /\ Tokens_Marshal(f) \in Seq(Byte)
         /\ \E u \in Seq(Byte) : Tokens_Marshal(f) = Token_Marshal(f[1]) \o u
<1>1. f \in Seq(Tokens) /\ f # <<>> /\ Len(f) \in Nat \ {0}
  BY DEF IsWireField
<1>2. PICK depth \in [0..Len(f) -> 0..Len(f)] :
        /\ depth[0] = 0
        /\ \A k \in 1..Len(f) : depth[k] = depth[k - 1] + Opened(f[k].type)
  BY DEF IsWireField
<1>3. f[1] \in Tokens
  BY <1>1
<1>4. f[1].type # 4
  <2>1. 1 \in 1..Len(f) /\ 1 - 1 = 0 /\ 1 \in 0..Len(f)
    BY <1>1
  <2>2. depth[1] = depth[0] + Opened(f[1].type) /\ depth[1] \in Nat
    BY <1>2, <2>1
  <2>. QED  BY <1>2, <2>2 DEF Opened
<1>5. PICK written : IsTokens(f, written)
  BY <1>1, TokensWritten
<1>6. Tokens_Marshal(f) \in Seq(Byte)
  <2>1. Len(f) \in 0..Len(f)
    BY <1>1
  <2>. QED  BY <1>5, <2>1 DEF IsTokens
<1>7. PICK u \in Seq(Byte) : Tokens_Marshal(f) = written[0] \o (Token_Marshal(f[0 + 1]) \o u)
  <2>1. 0 \in 0..(Len(f) - 1)
    BY <1>1
  <2>. QED  BY <1>1, <1>5, <2>1, TokensLeft
<1>8. Token_Marshal(f[1]) \in Seq(Byte)
  BY <1>3, TokenBytes
<1>9. PICK v \in Seq(Byte) : v = Token_Marshal(f[1]) \o u
  BY <1>8, Joined
<1>10. written[0] = <<>> /\ <<>> \o v = v /\ 0 + 1 = 1
  BY <1>5 DEF IsTokens
<1>11. Tokens_Marshal(f) = v
  BY <1>7, <1>9, <1>10
<1>. QED  BY <1>3, <1>4, <1>6, <1>9, <1>11

\* The tag of such a field, and what the loop then skips.
LEMMA FieldRead ==
  ASSUME NEW dAtA \in Buffers, NEW i, NEW f, IsWireField(f), NEW rest \in Seq(Byte),
         IsTail(dAtA, i, Tokens_Marshal(f) \o rest), NEW M, NEW m \in M
  PROVE  /\ i \in Nat /\ i < Len(dAtA)
         /\ readTag(dAtA, i).st = "ok" /\ readTag(dAtA, i).num = f[1].num
         /\ \E j \in (i + 2)..Len(dAtA) :
              SkipField(m, readTag(dAtA, i)) = Read(m, j) /\ IsTail(dAtA, j, rest)
<1>1. dAtA \in Seq(Byte) /\ Len(dAtA) \in Nat /\ Len(dAtA) < Half
  BY BufferFacts
<1>2. PICK t \in Tokens, all \in Seq(Byte) : t = f[1] /\ all = Tokens_Marshal(f) /\ t.type # 4
  BY FirstToken
<1>3. PICK u \in Seq(Byte) : all = Token_Marshal(t) \o u
  BY <1>2, FirstToken
<1>4. PICK tag \in Seq(Byte) : tag = Token_Marshal(t) /\ Len(tag) \in Nat \ {0}
  BY TokenBytes
<1>5. u \o rest \in Seq(Byte) /\ all \o rest = tag \o (u \o rest) /\ all \o rest \in Seq(Byte)
  <2>1. u \o rest \in Seq(Byte) /\ (tag \o u) \o rest = tag \o (u \o rest) /\ all \o rest \in Seq(Byte)
    BY Joining, Joined
  <2>. QED  BY <1>3, <1>4, <2>1
<1>6. IsTail(dAtA, i, all \o rest)
  BY <1>2
<1>7. i \in Nat /\ i < Len(dAtA)
  <2>1. PICK v \in Seq(Byte) : v = u \o rest
    BY <1>5
  <2>2. IsTail(dAtA, i, tag \o v)
    BY <1>5, <1>6, <2>1
  <2>3. i \in Nat /\ i + Len(tag) <= Len(dAtA)
    BY <2>2, TailOf
  <2>. QED  BY <1>1, <1>4, <2>3
<1>8. PICK x \in Word : /\ x % 8 = t.type /\ x \div 8 = t.num /\ sov(x) \in Nat \ {0}
                        /\ decodeVarint(dAtA, i) = [st |-> "ok", i |-> i + sov(x), v |-> x]
  <2>1. IsTail(dAtA, i, Token_Marshal(t) \o (u \o rest))
    BY <1>4, <1>5, <1>6
  <2>2. PICK v \in Seq(Byte) : v = u \o rest
    BY <1>5
  <2>3. PICK x \in Word :
          /\ x % 8 = t.type /\ x \div 8 = t.num /\ sov(x) \in Nat \ {0}
          /\ \A j : \A z \in Seq(Byte) : IsTail(dAtA, j, Token_Marshal(t) \o z) =>
               decodeVarint(dAtA, j) = [st |-> "ok", i |-> j + sov(x), v |-> x]
    BY <1>1, TokenReads
  <2>4. IsTail(dAtA, i, Token_Marshal(t) \o v)
    BY <2>1, <2>2
  <2>. QED  BY <2>3, <2>4
<1>9. t.num \in FieldNums /\ t.type \in 0..5
  BY TokenFacts
<1>10. Signed(t.num, FieldNumBits) = t.num /\ t.num > 0
  <2>1. \A y : y = 8 * t.num + t.type => Signed(t.num, FieldNumBits) = t.num /\ t.num > 0
    BY <1>9, TagNumber
  <2>. QED  BY <2>1
<1>11. PICK wire : wire = decodeVarint(dAtA, i)
  OBVIOUS
<1>12. wire.st = "ok" /\ wire.v = x
  BY <1>8, <1>11
<1>13. PICK at : at = readTag(dAtA, i)
  OBVIOUS
<1>14. at =
         [st   |-> IF wire.st = "ok" /\ (wire.v % 8 = 4 \/ Signed(wire.v \div 8, FieldNumBits) <= 0)
                   THEN "err" ELSE wire.st,
          dAtA |-> dAtA, pre |-> i, i |-> wire.i, type |-> wire.v % 8,
          num  |-> Signed(wire.v \div 8, FieldNumBits)]
  BY <1>11, <1>13 DEF readTag
<1>15. wire.v % 8 = t.type /\ Signed(wire.v \div 8, FieldNumBits) = t.num
  BY <1>8, <1>10, <1>12
<1>16. at.st = "ok" /\ at.num = t.num /\ at.dAtA = dAtA /\ at.pre = i
  <2>1. ~ (wire.v % 8 = 4 \/ Signed(wire.v \div 8, FieldNumBits) <= 0)
    <3>1. t.num \in Int
      <4>1. PICK h : h = Pow2[FieldNumBits - 1] - 1
        OBVIOUS
      <4>2. t.num \in 1..h
        BY <1>9, <4>1 DEF FieldNums
      <4>. QED  BY <4>2
    <3>2. ~ (t.num <= 0)
      BY <1>10, <3>1
    <3>. QED  BY <1>2, <1>15, <3>2
  <2>. QED  BY <1>12, <1>14, <1>15, <2>1
<1>17. Slice(dAtA, i, Len(dAtA)) = all \o rest
  BY <1>1, <1>6, SliceIsTail
<1>18. all \o rest \in Buffers
  <2>1. i <= Len(dAtA) /\ Len(dAtA) <= Len(dAtA)
    BY <1>1, <1>7
  <2>2. Slice(dAtA, i, Len(dAtA)) \in Buffers
    BY <1>1, <1>7, <2>1, SliceFacts
  <2>. QED  BY <1>17, <2>2
<1>19. PICK skippy : skippy = skip(Slice(at.dAtA, at.pre, Len(at.dAtA)))
  OBVIOUS
<1>20. skippy = [st |-> "ok", i |-> Len(all), v |-> 0]
  BY <1>2, <1>16, <1>17, <1>18, <1>19, FieldSkipped
<1>21. skippy.st = "ok" /\ skippy.i = Len(all) /\ Len(all) \in Nat
  BY <1>20
<1>22. IsTail(dAtA, i + Len(all), rest) /\ i + Len(all) <= Len(dAtA)
  BY <1>6, TailOf
<1>23. PICK j \in Nat : j = i + Len(all) /\ j <= Len(dAtA) /\ IsTail(dAtA, j, rest)
  BY <1>7, <1>21, <1>22
<1>24. Int64(at.pre + skippy.i) = j
  <2>1. j < Half
    BY <1>1, <1>23, HalfFacts
  <2>2. at.pre + skippy.i = j
    BY <1>16, <1>21, <1>23
  <2>. QED  BY <2>1, <2>2, Int64Facts
<1>25. PICK r : r = SkipField(m, at)
  OBVIOUS
<1>26. r = Read(m, j)
  <2>1. r = IF skippy.st # "ok" THEN Stop(m, skippy.st)
            ELSE IF skippy.i < 0 \/ j < 0 \/ j > Len(dAtA) THEN Stop(m, "err")
            ELSE Read(m, j)
    BY <1>16, <1>19, <1>24, <1>25 DEF SkipField
  <2>2. ~ (skippy.i < 0) /\ ~ (j < 0) /\ ~ (j > Len(dAtA))
    BY <1>1, <1>21, <1>23
  <2>. QED  BY <1>21, <2>1, <2>2
<1>27. j \in (i + 2)..Len(dAtA)
  <2>1. Stands(at, dAtA, i)
    BY <1>7, <1>13, ReadTagStands
  <2>2. Advances(r, M, dAtA, i)
    BY <1>7, <1>25, <2>1, SkipFieldAdvances
  <2>3. r.st = "ok" /\ r.i = j
    BY <1>26 DEF Read
  <2>. QED  BY <2>2, <2>3 DEF Advances
<1>. QED  BY <1>2, <1>7, <1>13, <1>16, <1>23, <1>25, <1>26, <1>27

\* A field that the switch has no case for changes nothing.
LEMMA FieldWrites2 ==
  ASSUME NEW fields, NEW M, NEW dAtA, NEW T, NEW after, Loops2(fields, M, dAtA, T, after),
         NEW f, IsWireField(f), f[1].num \notin DOMAIN fields, NEW m \in M
  PROVE  Writes(after, dAtA, m, Tokens_Marshal(f), m)
<1>1. PICK bz \in Seq(Byte) : bz = Tokens_Marshal(f)
  BY FirstToken
<1>2. dAtA \in Buffers
  BY DEF Loops2, Loops
<1>3. PICK m0, out : m0 \in M /\ IsUnmarshal(T, M, m0, dAtA, after, out)
  BY DEF Loops2, Loops
<1>4. ASSUME NEW t \in Seq(Byte), Left(after, dAtA, m, bz \o t)
      PROVE  Left(after, dAtA, m, t)
  <2>1. ASSUME NEW i \in Nat, IsTail(dAtA, i, bz \o t)
        PROVE  MovesTo(T, dAtA, m, i, m, t)
    <3>1. PICK at : at = readTag(dAtA, i)
      OBVIOUS
    <3>2. /\ i < Len(dAtA) /\ at.st = "ok" /\ at.num = f[1].num
          /\ \E j \in (i + 2)..Len(dAtA) : SkipField(m, at) = Read(m, j) /\ IsTail(dAtA, j, t)
      BY <1>1, <1>2, <2>1, <3>1, FieldRead
    <3>3. PICK j \in (i + 2)..Len(dAtA) : SkipField(m, at) = Read(m, j) /\ IsTail(dAtA, j, t)
      BY <3>2
    <3>4. T[Read(m, i)] = switchField(decodeField2, fields, m, at)
      <4>1. PICK r : r = Read(m, i)
        OBVIOUS
      <4>2. r \in Results(M) /\ r.st = "ok" /\ r.i = i /\ r.m = m
        BY <4>1 DEF Read, Results
      <4>. QED  BY <3>1, <3>2, <4>1, <4>2 DEF Loops2, Switches
    <3>5. switchField(decodeField2, fields, m, at) = SkipField(m, at)
      BY <3>2 DEF switchField
    <3>. QED  BY <3>3, <3>4, <3>5 DEF MovesTo
  <2>. QED  BY <1>2, <1>3, <1>4, <2>1, LeftMoves
<1>. QED  BY <1>1, <1>4 DEF Writes

-----------------------------------------------------------------------------
(* What the end of an encoding is cut off: either a field is cut, and that *)
(* is noticed, or the fields that are left are read as they were sent.     *)

\* t is the beginning of bz.
Begins(t, bz) ==
  t \in Seq(Byte) /\ Len(t) <= Len(bz) /\ \A k \in 1..Len(t) : t[k] = bz[k]

LEMMA BeginsJoined ==
  ASSUME NEW p \in Seq(Byte), NEW s \in Seq(Byte), NEW t, Begins(t, p \o s)
  PROVE  \/ Len(t) < Len(p) /\ Begins(t, p)
         \/ \E u \in Seq(Byte) : t = p \o u /\ Begins(u, s)
<1>1. PICK a \in Nat, b \in Nat, c \in Nat : a = Len(p) /\ b = Len(s) /\ c = Len(t)
  BY DEF Begins
<1>2. /\ t \in Seq(Byte) /\ c <= a + b
      /\ \A k \in 1..c : t[k] = IF k <= a THEN p[k] ELSE s[k - a]
  BY <1>1 DEF Begins
<1>3. CASE c < a
  BY <1>1, <1>2, <1>3 DEF Begins
<1>4. CASE a <= c
  <2>1. PICK u : u = [k \in 1..(c - a) |-> t[a + k]]
    OBVIOUS
  <2>2. \A k \in 1..(c - a) : a + k \in 1..c /\ ~ (a + k <= a) /\ (a + k) - a = k
    BY <1>4
  <2>3. u \in Seq(Byte) /\ Len(u) = c - a
    <3>1. c - a \in Nat /\ \A k \in 1..(c - a) : t[a + k] \in Byte
      BY <1>1, <1>2, <1>4, <2>2
    <3>. QED  BY <2>1, <3>1
  <2>4. Begins(u, s)
    <3>1. \A k \in 1..(c - a) : u[k] = s[k]
      BY <1>2, <2>1, <2>2
    <3>2. c - a <= b
      BY <1>2, <1>4
    <3>. QED  BY <1>1, <2>3, <3>1, <3>2 DEF Begins
  <2>5. t = p \o u
    <3>1. p \o u \in Seq(Byte) /\ Len(p \o u) = c
      BY <1>1, <1>4, <2>3, Joined
    <3>2. ASSUME NEW k \in 1..c PROVE t[k] = (p \o u)[k]
      <4>1. CASE k <= a
        <5>1. (p \o u)[k] = p[k]
          BY <1>1, <2>3, <3>1, <4>1
        <5>. QED  BY <1>2, <4>1, <5>1
      <4>2. CASE ~ (k <= a)
        <5>1. k - a \in 1..(c - a) /\ a + (k - a) = k
          BY <1>4, <4>2
        <5>2. (p \o u)[k] = u[k - a]
          BY <1>1, <2>3, <3>1, <4>2
        <5>. QED  BY <2>1, <5>1, <5>2
      <4>. QED  BY <4>1, <4>2
    <3>3. PICK q \in Seq(Byte) : q = p \o u
      BY <3>1
    <3>4. Len(q) = c /\ \A k \in 1..c : t[k] = q[k]
      BY <3>1, <3>2, <3>3
    <3>5. t = [k \in 1..c |-> t[k]]
      BY <1>1, <1>2
    <3>6. q = [k \in 1..c |-> q[k]]
      BY <3>4
    <3>7. [k \in 1..c |-> t[k]] = [k \in 1..c |-> q[k]]
      BY <3>4, Zenon
    <3>. QED  BY <3>3, <3>5, <3>6, <3>7, Zenon
  <2>. QED  BY <2>3, <2>4, <2>5
<1>. QED  BY <1>1, <1>3, <1>4

\* A varint that is cut: every byte that is left says that another one follows.
LEMMA VarintCut ==
  ASSUME NEW dAtA \in Seq(Byte), NEW i, NEW v \in Nat, NEW t, IsTail(dAtA, i, t),
         Begins(t, encodeVarint(v)), Len(t) < sov(v)
  PROVE  decodeVarint(dAtA, i) = Failed("err")
<1>. DEFINE rounds == {k \in 0..((WordBits - 1) \div 7) : i + k < Len(dAtA)}
<1>1. PICK n \in Nat : n = sov(v)
  BY EncodeVarintBytes
<1>2. PICK c \in Nat : c = Len(t)
  BY DEF Begins
<1>3. /\ i \in Nat /\ i + c = Len(dAtA) /\ \A k \in 1..c : dAtA[i + k] = t[k]
      /\ c < n /\ \A k \in 1..c : t[k] = encodeVarint(v)[k]
  BY <1>1, <1>2 DEF IsTail, Begins
<1>4. ASSUME NEW k \in 1..c PROVE encodeVarint(v)[k] >= 128
  <2>1. k \in 1..n /\ k < n /\ 7 * (k - 1) \in 0..(WordBits + 6)
    <3>1. n <= (WordBits + 6) \div 7
      BY <1>1, SovType, VarintLength
    <3>. QED  BY <1>3, <3>1, VarintLength, Widths
  <2>2. PICK d : d = v \div Pow2[7 * (k - 1)]
    OBVIOUS
  <2>3. d \in Nat
    <3>1. Pow2[7 * (k - 1)] \in Nat \ {0}
      BY <2>1, Powers
    <3>. QED  BY <2>2, <3>1
  <2>4. encodeVarint(v)[k] = (d % 128) + 128
    BY <1>1, <2>1, <2>2 DEF encodeVarint
  <2>. QED  BY <2>3, <2>4
<1>5. ASSUME NEW k \in rounds PROVE dAtA[i + k + 1] >= 128
  <2>1. k \in Nat /\ k + 1 \in 1..c /\ i + (k + 1) = i + k + 1
    BY <1>3, Widths
  <2>. QED  BY <1>3, <1>4, <2>1
<1>6. ~ (i < 0)
  BY <1>3
<1>. QED  BY <1>5, <1>6, Zenon DEF decodeVarint

\* A length-delimited field that is cut behind its tag: its length is cut, or
\* points behind the last byte.
LEMMA BytesCut ==
  ASSUME NEW dAtA \in Buffers, NEW i, NEW num \in 1..15, NEW bz \in Seq(Byte), Fits(bz),
         NEW t, IsTail(dAtA, i, t), Begins(t, PutBytes(num, bz, <<>>)),
         Len(t) # 0, Len(t) < Len(PutBytes(num, bz, <<>>))
  PROVE  /\ readTag(dAtA, i).st = "ok" /\ readTag(dAtA, i).num = num
         /\ fieldBytes(readTag(dAtA, i)).st = "err" /\ i < Len(dAtA)
<1>1. PICK at : at = readTag(dAtA, i)
  OBVIOUS
<1>2. PICK l \in Nat : l = Len(bz)
  OBVIOUS
<1>3. dAtA \in Seq(Byte) /\ Len(dAtA) \in Nat /\ Len(dAtA) < Half /\ l < Half
  BY <1>2, BufferFacts DEF Fits, Half
<1>4. PICK a \in Seq(Byte), b \in Seq(Byte) : a = Tag(num, 2) /\ b = encodeVarint(l)
  <2>1. <<>> \in Seq(Byte)
    OBVIOUS
  <2>. QED  BY <1>2, <2>1, PutBytesParts
<1>5. /\ PutBytes(num, bz, <<>>) = a \o (b \o bz) /\ b \o bz \in Seq(Byte)
      /\ Len(b \o bz) = Len(b) + l /\ Len(a \o (b \o bz)) = Len(a) + (Len(b) + l)
      /\ Len(a) = 1
  <2>1. <<>> \in Seq(Byte) /\ bz \o <<>> = bz
    OBVIOUS
  <2>2. PutBytes(num, bz, <<>>) = a \o (b \o bz)
    <3>1. a = Tag(num, 2) /\ b = encodeVarint(Len(bz))
      BY <1>2, <1>4
    <3>2. PutBytes(num, bz, <<>>) = Tag(num, 2) \o (encodeVarint(Len(bz)) \o (bz \o <<>>))
      BY <2>1, PutBytesParts, ZenonT(40)
    <3>. QED  BY <2>1, <3>1, <3>2, Zenon
  <2>3. b \o bz \in Seq(Byte) /\ Len(b \o bz) = Len(b) + l
    BY <1>2, <1>4, Joined
  <2>4. Len(a \o (b \o bz)) = Len(a) + (Len(b) + l)
    BY <1>4, <2>3, Joined
  <2>5. Len(a) = 1
    BY <1>4 DEF Tag
  <2>. QED  BY <2>2, <2>3, <2>4, <2>5
<1>6. t \in Seq(Byte) /\ Len(t) \in Nat \ {0}
  BY DEF Begins
<1>7. PICK u \in Seq(Byte) : t = a \o u /\ Begins(u, b \o bz)
  <2>1. Begins(t, a \o (b \o bz))
    BY <1>5, Zenon
  <2>2. ~ (Len(t) < Len(a))
    BY <1>5, <1>6
  <2>. QED  BY <1>4, <1>5, <2>1, <2>2, BeginsJoined
<1>8. Len(u) < Len(b) + l
  <2>1. Len(t) = Len(a) + Len(u)
    BY <1>4, <1>7, Joined
  <2>2. Len(u) \in Nat /\ Len(b) \in Nat
    BY <1>4, <1>7
  <2>. QED  BY <1>5, <2>1, <2>2
<1>9. /\ at = [st |-> "ok", dAtA |-> dAtA, pre |-> i, i |-> i + 1, type |-> 2, num |-> num]
      /\ IsTail(dAtA, i + 1, u)
      /\ i \in Nat /\ i + 1 <= Len(dAtA)
  <2>1. 2 \in {0, 2} /\ IsTail(dAtA, i, Tag(num, 2) \o u)
    BY <1>4, <1>7
  <2>. QED  BY <1>1, <1>3, <1>7, <2>1, TagReads, ZenonT(40)
<1>10. PICK n : n = decodeVarint(dAtA, i + 1)
  OBVIOUS
<1>11. lengthPrefix(dAtA, i + 1) =
          IF n.st # "ok" THEN n
          ELSE IF Int64(n.v) < 0 \/ Int64(n.i + Int64(n.v)) < 0 \/ Int64(n.i + Int64(n.v)) > Len(dAtA)
               THEN Failed("err")
          ELSE [n EXCEPT !.v = Int64(n.i + Int64(n.v))]
  BY <1>10 DEF lengthPrefix
<1>12. Len(b) = sov(l) /\ sov(l) \in Nat
  BY <1>4, EncodeVarintBytes
<1>13. lengthPrefix(dAtA, i + 1) = Failed("err")
  <2>1. CASE Len(u) < Len(b) /\ Begins(u, b)
    <3>1. n = Failed("err")
      BY <1>3, <1>4, <1>9, <1>10, <1>12, <2>1, VarintCut
    <3>2. n.st # "ok"
      BY <3>1 DEF Failed
    <3>. QED  BY <1>11, <3>1, <3>2
  <2>2. CASE \E w \in Seq(Byte) : u = b \o w /\ Begins(w, bz)
    <3>1. PICK w \in Seq(Byte) : u = b \o w
      BY <2>2
    <3>2. PICK c \in Nat, d \in Nat : c = (i + 1) + sov(l) /\ d = Len(w)
      BY <1>9, <1>12, <3>1
    <3>3. l \in Word
      BY <1>3, HalfFacts DEF Word
    <3>4. /\ n = [st |-> "ok", i |-> c, v |-> l]
          /\ IsTail(dAtA, c, w)
      <4>1. IsTail(dAtA, i + 1, encodeVarint(l) \o w)
        BY <1>4, <1>9, <3>1
      <4>. QED  BY <1>3, <1>10, <3>2, <3>3, <4>1, VarintRoundTrip
    <3>5. c + d = Len(dAtA)
      BY <3>2, <3>4 DEF IsTail
    <3>6. d < l
      <4>1. Len(u) = Len(b) + Len(w)
        BY <1>4, <3>1, Joined
      <4>. QED  BY <1>8, <1>12, <3>2, <4>1
    <3>7. Int64(l) = l
      BY <1>3, Int64Facts
    <3>8. PICK e \in Int : e = Int64(c + l)
      <4>1. c + l \in Int
        OBVIOUS
      <4>. QED  BY <4>1, Int64Range
    <3>9. e < 0 \/ e > Len(dAtA)
      <4>1. c + l < 2 * Half
        BY <1>3, <3>5, HalfFacts
      <4>2. CASE 0 <= e
        <5>1. e = c + l
          BY <3>8, <4>1, <4>2, SumOfLengths
        <5>. QED  BY <1>3, <3>5, <3>6, <5>1
      <4>. QED  BY <4>2
    <3>10. n.st = "ok" /\ n.i = c /\ n.v = l
      BY <3>4
    <3>11. Int64(n.i + Int64(n.v)) = e
      BY <3>7, <3>8, <3>10
    <3>12. Int64(n.v) < 0 \/ Int64(n.i + Int64(n.v)) < 0 \/ Int64(n.i + Int64(n.v)) > Len(dAtA)
      BY <3>9, <3>11
    <3>. QED  BY <1>11, <3>10, <3>12, Zenon
  <2>. QED  BY <1>4, <1>7, <2>1, <2>2, BeginsJoined
<1>14. fieldBytes(at).st = "err"
  <2>1. at.dAtA = dAtA /\ at.i = i + 1 /\ at.type = 2
    BY <1>9
  <2>2. lengthPrefix(at.dAtA, at.i).st = "err"
    BY <1>13, <2>1 DEF Failed
  <2>3. fieldBytes(at) = Stop(<<>>, "err")
    BY <2>1, <2>2 DEF fieldBytes
  <2>. QED  BY <2>3 DEF Stop
<1>. QED  BY <1>1, <1>3, <1>9, <1>14

\* A uint64 field that is cut behind its tag.
LEMMA Uint64Cut ==
  ASSUME NEW dAtA \in Buffers, NEW i, NEW num \in 1..15, NEW v \in Word, v # 0,
         NEW t, IsTail(dAtA, i, t), Begins(t, PutUint64(num, v, <<>>)),
         Len(t) # 0, Len(t) < Len(PutUint64(num, v, <<>>)), NEW m, NEW name
  PROVE  /\ readTag(dAtA, i).st = "ok" /\ readTag(dAtA, i).num = num
         /\ Uint64Field(m, name, readTag(dAtA, i)).st = "err" /\ i < Len(dAtA)
<1>1. PICK at : at = readTag(dAtA, i)
  OBVIOUS
<1>2. v \in Nat /\ sov(v) \in Nat \ {0}
  BY SovFits
<1>3. dAtA \in Seq(Byte) /\ Len(dAtA) \in Nat
  BY BufferFacts
<1>4. PICK a \in Seq(Byte), b \in Seq(Byte) : a = Tag(num, 0) /\ b = encodeVarint(v)
  <2>1. 0 \in 0..5 /\ num \in 1..31
    OBVIOUS
  <2>. QED  BY <1>2, <2>1, TagBytes, EncodeVarintBytes
<1>5. /\ PutUint64(num, v, <<>>) = a \o b /\ Len(a \o b) = Len(a) + Len(b) /\ Len(a) = 1
  <2>1. PutUint64(num, v, <<>>) = (a \o b) \o <<>>
    BY <1>4 DEF PutUint64
  <2>2. a \o b \in Seq(Byte) /\ Len(a \o b) = Len(a) + Len(b)
    BY <1>4, Joined
  <2>3. (a \o b) \o <<>> = a \o b
    BY <2>2
  <2>. QED  BY <1>4, <2>1, <2>2, <2>3 DEF Tag
<1>6. t \in Seq(Byte) /\ Len(t) \in Nat \ {0}
  BY DEF Begins
<1>7. PICK u \in Seq(Byte) : t = a \o u /\ Begins(u, b)
  <2>1. Begins(t, a \o b)
    BY <1>5, Zenon
  <2>2. ~ (Len(t) < Len(a))
    BY <1>5, <1>6
  <2>. QED  BY <1>4, <2>1, <2>2, BeginsJoined
<1>8. Len(b) = sov(v)
  BY <1>2, <1>4, EncodeVarintBytes
<1>9. Len(u) < sov(v)
  <2>1. Len(t) = Len(a) + Len(u)
    BY <1>4, <1>7, Joined
  <2>2. Len(u) \in Nat
    BY <1>7
  <2>. QED  BY <1>2, <1>5, <1>8, <2>1, <2>2
<1>10. /\ at = [st |-> "ok", dAtA |-> dAtA, pre |-> i, i |-> i + 1, type |-> 0, num |-> num]
       /\ IsTail(dAtA, i + 1, u)
       /\ i \in Nat /\ i + 1 <= Len(dAtA)
  <2>1. 0 \in {0, 2} /\ IsTail(dAtA, i, Tag(num, 0) \o u)
    BY <1>4, <1>7
  <2>. QED  BY <1>1, <1>3, <1>7, <2>1, TagReads, ZenonT(40)
<1>11. decodeVarint(dAtA, i + 1) = Failed("err")
  BY <1>2, <1>3, <1>4, <1>7, <1>9, <1>10, VarintCut
<1>12. Uint64Field(m, name, at).st = "err"
  <2>1. at.dAtA = dAtA /\ at.i = i + 1 /\ at.type = 0 /\ Failed("err").st = "err"
    BY <1>10 DEF Failed
  <2>2. Uint64Field(m, name, at) = Stop(m, "err")
    BY <1>11, <2>1 DEF Uint64Field
  <2>. QED  BY <2>2 DEF Stop
<1>. QED  BY <1>1, <1>3, <1>10, <1>12

\* The loop has met an error.
Fails(after, dAtA) == \E k \in 0..Rounds(dAtA) : after[k].st = "err"

\* m has the fields of old, some of them already as in new; of the list of a
\* genesis, a part may be there.
Partly(m, old, new) ==
  /\ DOMAIN m = DOMAIN old
  /\ \A f \in DOMAIN old : m[f] \in {old[f], new[f]} \/ (f = "AccountTotals" /\ IsPrefix(m[f], new[f]))

\* When only the beginning of bz is left, the loop fails or comes to the end with
\* a part of what bz would have made of old.
Cuts(after, dAtA, old, bz, new) ==
  Fits(bz) =>
    \A t : Begins(t, bz) /\ Left(after, dAtA, old, t) =>
      Fails(after, dAtA) \/ \E m : Partly(m, old, new) /\ Left(after, dAtA, m, <<>>)

\* Both in one: bz takes the loop from old to new, and a part of it part of the way.
Codes(after, dAtA, old, bz, new) ==
  Writes(after, dAtA, old, bz, new) /\ Cuts(after, dAtA, old, bz, new)

\* Part of the way from mid is part of the way from old.
Keeps(old, mid, new) == \A m : Partly(m, mid, new) => Partly(m, old, new)

LEMMA NothingPartly == ASSUME NEW old, NEW new PROVE Partly(old, old, new)
BY DEF Partly

LEMMA CodesNothing ==
  ASSUME NEW after, NEW dAtA, NEW m
  PROVE  Codes(after, dAtA, m, <<>>, m)
<1>1. ASSUME NEW t, Begins(t, <<>>), Left(after, dAtA, m, t)
      PROVE  \E part : Partly(part, m, m) /\ Left(after, dAtA, part, <<>>)
  <2>1. t = <<>>
    BY <1>1 DEF Begins
  <2>. QED  BY <1>1, <2>1, NothingPartly
<1>. QED  BY <1>1, WritesNothing DEF Codes, Cuts

\* A field that is set is one of those that are as in new.
LEMMA KeepsField ==
  ASSUME NEW old, NEW name, NEW v, NEW mid, mid = With(old, name, v) \/ mid = old, NEW new,
         mid[name] = new[name] \/ (name = "AccountTotals" /\ IsPrefix(mid[name], new[name]))
  PROVE  Keeps(old, mid, new)
<1>1. ASSUME NEW m, Partly(m, mid, new) PROVE Partly(m, old, new)
  <2>1. DOMAIN mid = DOMAIN old /\ \A f \in DOMAIN old : f # name => mid[f] = old[f]
    BY DEF With
  <2>2. DOMAIN m = DOMAIN old
    BY <1>1, <2>1 DEF Partly
  <2>3. ASSUME NEW f \in DOMAIN old
        PROVE  m[f] \in {old[f], new[f]} \/ (f = "AccountTotals" /\ IsPrefix(m[f], new[f]))
    <3>1. m[f] = mid[f] \/ m[f] = new[f] \/ (f = "AccountTotals" /\ IsPrefix(m[f], new[f]))
      BY <1>1, <2>1 DEF Partly
    <3>2. CASE f # name
      BY <2>1, <3>1, <3>2
    <3>3. CASE f = name
      BY <3>1, <3>3
    <3>. QED  BY <3>2, <3>3
  <2>. QED  BY <2>2, <2>3 DEF Partly
<1>. QED  BY <1>1 DEF Keeps

\* An iteration that fails on what is left.
LEMMA StepFails ==
  ASSUME NEW M, NEW m0 \in M, NEW dAtA \in Buffers, NEW T, NEW after, NEW out,
         IsUnmarshal(T, M, m0, dAtA, after, out),
         NEW old, NEW t, Left(after, dAtA, old, t), Len(t) # 0,
         \A i \in Nat : IsTail(dAtA, i, t) => T[Read(old, i)].st = "err"
  PROVE  Fails(after, dAtA)
<1>1. PICK k \in 0..Rounds(dAtA), i \in Nat :
        2 * k <= i /\ after[k] = Read(old, i) /\ IsTail(dAtA, i, t)
  BY DEF Left
<1>2. Rounds(dAtA) \in Nat /\ Len(dAtA) <= 2 * Rounds(dAtA) /\ after[k] \in Results(M)
  BY MovesOn
<1>3. i < Len(dAtA) /\ Len(dAtA) \in Nat
  <2>1. dAtA \in Seq(Byte)
    BY BufferFacts
  <2>. QED  BY <1>1, <2>1, TailIsLeft
<1>4. k \in 0..(Rounds(dAtA) - 1) /\ k + 1 \in 0..Rounds(dAtA)
  BY <1>1, <1>2, <1>3
<1>5. after[k + 1] = T[after[k]]
  BY <1>2, <1>4 DEF IsUnmarshal
<1>6. after[k + 1].st = "err"
  BY <1>1, <1>5
<1>. QED  BY <1>4, <1>6 DEF Fails

\* The bytes p of one field, and those of the fields behind it.
LEMMA CutsJoined ==
  ASSUME NEW after, NEW dAtA, NEW old, NEW p \in Seq(Byte), NEW mid, NEW tail, NEW new,
         Writes(after, dAtA, old, p, mid), Codes(after, dAtA, mid, tail, new), Keeps(old, mid, new),
         Fits(p) => \A t : (/\ Begins(t, p) /\ Len(t) # 0 /\ Len(t) < Len(p)
                            /\ Left(after, dAtA, old, t)) => Fails(after, dAtA)
  PROVE  Cuts(after, dAtA, old, p \o tail, new)
<1>1. tail \in Seq(Byte)
  BY DEF Codes, Writes
<1>2. Fits(p \o tail) => Fits(p) /\ Fits(tail)
  <2>1. Len(p \o tail) = Len(p) + Len(tail) /\ Len(p) \in Nat /\ Len(tail) \in Nat
    BY <1>1, Joined
  <2>. QED  BY <2>1, HalfFacts DEF Fits, Half
<1>3. ASSUME Fits(p \o tail), NEW t, Begins(t, p \o tail), Left(after, dAtA, old, t)
      PROVE  Fails(after, dAtA) \/ \E m : Partly(m, old, new) /\ Left(after, dAtA, m, <<>>)
  <2>1. CASE Len(t) < Len(p) /\ Begins(t, p) /\ Len(t) # 0
    BY <1>2, <1>3, <2>1
  <2>2. CASE Len(t) = 0
    <3>1. t = <<>>
      BY <1>3, <2>2 DEF Begins
    <3>. QED  BY <1>3, <3>1, NothingPartly
  <2>3. CASE \E u \in Seq(Byte) : t = p \o u /\ Begins(u, tail)
    <3>1. PICK u \in Seq(Byte) : t = p \o u /\ Begins(u, tail)
      BY <2>3
    <3>2. Left(after, dAtA, mid, u)
      BY <1>3, <3>1 DEF Writes
    <3>3. Fails(after, dAtA) \/ \E m : Partly(m, mid, new) /\ Left(after, dAtA, m, <<>>)
      BY <1>2, <1>3, <3>1, <3>2 DEF Codes, Cuts
    <3>. QED  BY <3>3 DEF Keeps
  <2>. QED  BY <1>1, <1>3, <2>1, <2>2, <2>3, BeginsJoined
<1>. QED  BY <1>3 DEF Cuts

\* A length-delimited field of a message that is decoded by Unmarshal.
LEMMA BytesFails2 ==
  ASSUME NEW fields, NEW M, NEW dAtA, NEW T, NEW after, Loops2(fields, M, dAtA, T, after),
         NEW num \in 1..15, num \in DOMAIN fields, fields[num].kind # "uint64",
         NEW old \in M, NEW bz \in Seq(Byte), Fits(bz), NEW t,
         Begins(t, PutBytes(num, bz, <<>>)), Len(t) # 0, Len(t) < Len(PutBytes(num, bz, <<>>)),
         Left(after, dAtA, old, t)
  PROVE  Fails(after, dAtA)
<1>1. dAtA \in Buffers
  BY DEF Loops2, Loops
<1>2. PICK m0, out : m0 \in M /\ IsUnmarshal(T, M, m0, dAtA, after, out)
  BY DEF Loops2, Loops
<1>3. ASSUME NEW i \in Nat, IsTail(dAtA, i, t) PROVE T[Read(old, i)].st = "err"
  <2>1. PICK at : at = readTag(dAtA, i)
    OBVIOUS
  <2>2. at.st = "ok" /\ at.num = num /\ fieldBytes(at).st = "err" /\ i < Len(dAtA)
    <3>1. /\ readTag(dAtA, i).st = "ok" /\ readTag(dAtA, i).num = num
          /\ fieldBytes(readTag(dAtA, i)).st = "err" /\ i < Len(dAtA)
      BY <1>1, <1>3, BytesCut, ZenonT(40)
    <3>. QED  BY <2>1, <3>1, Zenon
  <2>3. T[Read(old, i)] = switchField(decodeField2, fields, old, at)
    <3>1. PICK r : r = Read(old, i)
      OBVIOUS
    <3>2. r \in Results(M) /\ r.st = "ok" /\ r.i = i /\ r.m = old
      BY <3>1 DEF Read, Results
    <3>. QED  BY <2>1, <2>2, <3>1, <3>2 DEF Loops2, Switches
  <2>4. switchField(decodeField2, fields, old, at) = BytesField(decodeField2, old, fields[num], at)
    BY <2>2 DEF switchField
  <2>5. BytesField(decodeField2, old, fields[num], at) = Stop(old, "err")
    BY <2>2 DEF BytesField
  <2>. QED  BY <2>3, <2>4, <2>5 DEF Stop
<1>. QED  BY <1>1, <1>2, <1>3, StepFails

LEMMA BytesCuts2 ==
  ASSUME NEW fields, NEW M, NEW dAtA, NEW T, NEW after, Loops2(fields, M, dAtA, T, after),
         NEW num \in 1..15, num \in DOMAIN fields, fields[num].kind # "uint64",
         NEW old \in M, NEW bz \in Seq(Byte), NEW mid,
         Writes(after, dAtA, old, PutBytes(num, bz, <<>>), mid),
         NEW tail, NEW new, Codes(after, dAtA, mid, tail, new), Keeps(old, mid, new)
  PROVE  Cuts(after, dAtA, old, PutBytes(num, bz, tail), new)
<1>1. PICK p : p = PutBytes(num, bz, <<>>)
  OBVIOUS
<1>2. p \in Seq(Byte) /\ tail \in Seq(Byte)
  BY <1>1 DEF Writes, Codes
<1>3. PutBytes(num, bz, tail) = p \o tail
  <2>1. <<>> \in Seq(Byte) /\ <<>> \o tail = tail
    BY <1>2
  <2>2. PutBytes(num, bz, <<>>) \o tail = PutBytes(num, bz, <<>> \o tail)
    BY <1>2, <2>1, PutBytesJoined, ZenonT(40)
  <2>. QED  BY <1>1, <2>1, <2>2, Zenon
<1>4. Fits(p) => Fits(bz)
  <2>1. PICK x \in Seq(Byte), y \in Seq(Byte) : p = x \o (y \o (bz \o <<>>)) /\ x = Tag(num, 2)
    <3>1. <<>> \in Seq(Byte)
      OBVIOUS
    <3>. QED  BY <1>1, <3>1, PutBytesParts
  <2>2. bz \o <<>> = bz
    OBVIOUS
  <2>3. Len(p) = Len(x) + (Len(y) + Len(bz))
    <3>1. y \o bz \in Seq(Byte) /\ Len(y \o bz) = Len(y) + Len(bz)
      BY <2>1, Joined
    <3>. QED  BY <2>1, <2>2, <3>1, Joined
  <2>4. Len(x) \in Nat /\ Len(y) \in Nat /\ Len(bz) \in Nat
    BY <2>1
  <2>. QED  BY <2>3, <2>4, HalfFacts DEF Fits, Half
<1>5. ASSUME Fits(p), NEW t, Begins(t, p), Len(t) # 0, Len(t) < Len(p), Left(after, dAtA, old, t)
      PROVE  Fails(after, dAtA)
  BY <1>1, <1>4, <1>5, BytesFails2
<1>6. Writes(after, dAtA, old, p, mid)
  BY <1>1
<1>. QED  BY <1>2, <1>3, <1>5, <1>6, CutsJoined

LEMMA Uint64Fails2 ==
  ASSUME NEW fields, NEW M, NEW dAtA, NEW T, NEW after, Loops2(fields, M, dAtA, T, after),
         NEW num \in 1..15, NEW name, num \in DOMAIN fields, fields[num] = Uint64(name),
         NEW old \in M, NEW v \in Word, v # 0, NEW t,
         Begins(t, PutUint64(num, v, <<>>)), Len(t) # 0, Len(t) < Len(PutUint64(num, v, <<>>)),
         Left(after, dAtA, old, t)
  PROVE  Fails(after, dAtA)
<1>1. dAtA \in Buffers
  BY DEF Loops2, Loops
<1>2. PICK m0, out : m0 \in M /\ IsUnmarshal(T, M, m0, dAtA, after, out)
  BY DEF Loops2, Loops
<1>3. ASSUME NEW i \in Nat, IsTail(dAtA, i, t) PROVE T[Read(old, i)].st = "err"
  <2>1. PICK at : at = readTag(dAtA, i)
    OBVIOUS
  <2>2. at.st = "ok" /\ at.num = num /\ Uint64Field(old, name, at).st = "err" /\ i < Len(dAtA)
    <3>1. /\ readTag(dAtA, i).st = "ok" /\ readTag(dAtA, i).num = num
          /\ Uint64Field(old, name, readTag(dAtA, i)).st = "err" /\ i < Len(dAtA)
      BY <1>1, <1>3, Uint64Cut, ZenonT(40)
    <3>. QED  BY <2>1, <3>1, Zenon
  <2>3. T[Read(old, i)] = switchField(decodeField2, fields, old, at)
    <3>1. PICK r : r = Read(old, i)
      OBVIOUS
    <3>2. r \in Results(M) /\ r.st = "ok" /\ r.i = i /\ r.m = old
      BY <3>1 DEF Read, Results
    <3>. QED  BY <2>1, <2>2, <3>1, <3>2 DEF Loops2, Switches
  <2>4. switchField(decodeField2, fields, old, at) = Uint64Field(old, name, at)
    <3>1. fields[at.num].kind = "uint64" /\ fields[at.num].name = name
      BY <2>2, FieldFacts
    <3>. QED  BY <2>2, <3>1 DEF switchField
  <2>. QED  BY <2>2, <2>3, <2>4
<1>. QED  BY <1>1, <1>2, <1>3, StepFails

\* Fields as the generated code writes them.
LEMMA Uint64Codes2 ==
  ASSUME NEW fields, NEW M, NEW dAtA, NEW T, NEW after, Loops2(fields, M, dAtA, T, after),
         NEW num \in 1..15, NEW name, num \in DOMAIN fields, fields[num] = Uint64(name),
         NEW old \in M, NEW v \in Word,
         NEW mid, mid = (IF v # 0 THEN With(old, name, v) ELSE old),
         NEW tail, NEW new, Codes(after, dAtA, mid, tail, new), mid[name] = new[name]
  PROVE  Codes(after, dAtA, old, PutUint64(num, v, tail), new)
<1>1. Writes(after, dAtA, old, PutUint64(num, v, tail), new)
  BY Uint64Writes2 DEF Codes
<1>2. Cuts(after, dAtA, old, PutUint64(num, v, tail), new)
  <2>1. CASE v = 0
    <3>1. PutUint64(num, v, tail) = tail /\ mid = old
      BY <2>1 DEF PutUint64
    <3>. QED  BY <3>1 DEF Codes
  <2>2. CASE v # 0
    <3>1. PICK p : p = PutUint64(num, v, <<>>)
      OBVIOUS
    <3>2. Writes(after, dAtA, old, p, mid)
      BY <3>1, WritesNothing, Uint64Writes2
    <3>3. p \in Seq(Byte) /\ tail \in Seq(Byte)
      BY <3>2 DEF Writes, Codes
    <3>4. PutUint64(num, v, tail) = p \o tail
      <4>1. <<>> \in Seq(Byte) /\ <<>> \o tail = tail
        BY <3>3
      <4>2. PutUint64(num, v, <<>>) \o tail = PutUint64(num, v, <<>> \o tail)
        BY <2>2, <3>3, <4>1, PutUint64Joined, ZenonT(40)
      <4>. QED  BY <3>1, <4>1, <4>2, Zenon
    <3>5. Keeps(old, mid, new)
      BY KeepsField
    <3>6. ASSUME NEW t, Begins(t, p), Len(t) # 0, Len(t) < Len(p), Left(after, dAtA, old, t)
          PROVE  Fails(after, dAtA)
      BY <2>2, <3>1, <3>6, Uint64Fails2
    <3>. QED  BY <3>2, <3>3, <3>4, <3>5, <3>6, CutsJoined
  <2>. QED  BY <2>1, <2>2
<1>. QED  BY <1>1, <1>2 DEF Codes

LEMMA StringCodes2 ==
  ASSUME NEW fields, NEW M, NEW dAtA, NEW T, NEW after, Loops2(fields, M, dAtA, T, after),
         NEW num \in 1..15, NEW name, num \in DOMAIN fields, fields[num] = String(name),
         NEW old \in M, NEW s \in Strings,
         NEW mid, mid = (IF Len(s) > 0 THEN With(old, name, s) ELSE old),
         NEW tail, NEW new, Codes(after, dAtA, mid, tail, new), mid[name] = new[name]
  PROVE  Codes(after, dAtA, old, PutString(num, s, tail), new)
<1>1. Writes(after, dAtA, old, PutString(num, s, tail), new)
  BY StringWrites2 DEF Codes
<1>2. Cuts(after, dAtA, old, PutString(num, s, tail), new)
  <2>1. CASE ~ (Len(s) > 0)
    <3>1. PutString(num, s, tail) = tail /\ mid = old
      BY <2>1 DEF PutString
    <3>. QED  BY <3>1 DEF Codes
  <2>2. CASE Len(s) > 0
    <3>1. /\ PutString(num, s, <<>>) = PutBytes(num, s, <<>>)
          /\ PutString(num, s, tail) = PutBytes(num, s, tail)
      BY <2>2 DEF PutString
    <3>2. Writes(after, dAtA, old, PutBytes(num, s, <<>>), mid)
      BY <3>1, WritesNothing, StringWrites2
    <3>3. fields[num].kind # "uint64" /\ s \in Seq(Byte)
      BY FieldFacts DEF Strings
    <3>4. Keeps(old, mid, new)
      BY KeepsField
    <3>. QED  BY <3>1, <3>2, <3>3, <3>4, BytesCuts2
  <2>. QED  BY <2>1, <2>2
<1>. QED  BY <1>1, <1>2 DEF Codes

LEMMA NumberCodes2 ==
  ASSUME NEW fields, NEW M, NEW dAtA, NEW T, NEW after, Loops2(fields, M, dAtA, T, after),
         NEW num \in 1..15, NEW name, num \in DOMAIN fields, fields[num] = Number(name),
         NEW old \in M, NEW v \in Numbers,
         NEW mid, mid = With(old, name, Normal(v)),
         NEW tail, NEW new, Codes(after, dAtA, mid, tail, new), mid[name] = new[name]
  PROVE  Codes(after, dAtA, old, PutBytes(num, Number_Marshal(v), tail), new)
<1>1. Writes(after, dAtA, old, PutBytes(num, Number_Marshal(v), tail), new)
  BY NumberWrites2 DEF Codes
<1>2. Writes(after, dAtA, old, PutBytes(num, Number_Marshal(v), <<>>), mid)
  BY WritesNothing, NumberWrites2
<1>3. fields[num].kind # "uint64" /\ Number_Marshal(v) \in Seq(Byte)
  BY FieldFacts, NumberBytes
<1>4. Keeps(old, mid, new)
  BY KeepsField
<1>5. Cuts(after, dAtA, old, PutBytes(num, Number_Marshal(v), tail), new)
  BY <1>2, <1>3, <1>4, BytesCuts2
<1>. QED  BY <1>1, <1>5 DEF Codes

LEMMA MessageCodes2 ==
  ASSUME NEW fields, NEW M, NEW dAtA, NEW T, NEW after, Loops2(fields, M, dAtA, T, after),
         NEW num \in 1..15, NEW name, NEW cases,
         num \in DOMAIN fields, fields[num] = Message(name, cases),
         NEW old \in M, NEW bz \in Seq(Byte), NEW v,
         bz \in Buffers => Unmarshal1(cases, old[name], bz) = [st |-> "ok", m |-> v],
         NEW mid, mid = With(old, name, v),
         NEW tail, NEW new, Codes(after, dAtA, mid, tail, new), mid[name] = new[name]
  PROVE  Codes(after, dAtA, old, PutBytes(num, bz, tail), new)
<1>1. Writes(after, dAtA, old, PutBytes(num, bz, tail), new)
  BY MessageWrites2 DEF Codes
<1>2. Writes(after, dAtA, old, PutBytes(num, bz, <<>>), mid)
  BY WritesNothing, MessageWrites2
<1>3. fields[num].kind # "uint64"
  BY FieldFacts
<1>4. Keeps(old, mid, new)
  BY KeepsField
<1>5. Cuts(after, dAtA, old, PutBytes(num, bz, tail), new)
  BY <1>2, <1>3, <1>4, BytesCuts2
<1>. QED  BY <1>1, <1>5 DEF Codes

LEMMA RepeatedCodes2 ==
  ASSUME NEW fields, NEW M, NEW dAtA, NEW T, NEW after, Loops2(fields, M, dAtA, T, after),
         NEW num \in 1..15, NEW name, NEW cases, NEW zero,
         num \in DOMAIN fields, fields[num] = Repeated(name, cases, zero),
         NEW old \in M, NEW bz \in Seq(Byte), NEW v,
         bz \in Buffers => Unmarshal1(cases, zero, bz) = [st |-> "ok", m |-> v],
         NEW mid, mid = With(old, name, Append(old[name], v)),
         NEW tail, NEW new, Codes(after, dAtA, mid, tail, new),
         name = "AccountTotals", IsPrefix(mid[name], new[name])
  PROVE  Codes(after, dAtA, old, PutBytes(num, bz, tail), new)
<1>1. Writes(after, dAtA, old, PutBytes(num, bz, tail), new)
  BY RepeatedWrites2 DEF Codes
<1>2. Writes(after, dAtA, old, PutBytes(num, bz, <<>>), mid)
  BY WritesNothing, RepeatedWrites2
<1>3. fields[num].kind # "uint64"
  BY FieldFacts
<1>4. Keeps(old, mid, new)
  BY KeepsField
<1>5. Cuts(after, dAtA, old, PutBytes(num, bz, tail), new)
  BY <1>2, <1>3, <1>4, BytesCuts2
<1>. QED  BY <1>1, <1>5 DEF Codes

\* A loop that has met an error returns one.
LEMMA FailureStays ==
  ASSUME NEW M, NEW m0 \in M, NEW dAtA \in Buffers, NEW T, NEW after, NEW out,
         IsUnmarshal(T, M, m0, dAtA, after, out), Fails(after, dAtA)
  PROVE  out.st = "err"
<1>1. PICK l \in 0..Rounds(dAtA) :
        /\ l = Rounds(dAtA) \/ after[l].st # "ok" \/ after[l].i >= Len(dAtA)
        /\ out.st = IF after[l].st # "ok" THEN after[l].st
                    ELSE IF after[l].i < Len(dAtA) THEN "loop"
                    ELSE IF after[l].i > Len(dAtA) THEN "err"
                    ELSE "ok"
  BY DEF IsUnmarshal
<1>2. PICK k \in 0..Rounds(dAtA) : after[k].st = "err"
  BY DEF Fails
<1>3. after[l].st = "err"
  <2>1. Rounds(dAtA) \in Nat /\ after[l] \in Results(M) /\ Len(dAtA) \in Nat
    BY MovesOn, BufferFacts
  <2>2. CASE k <= l
    <3>1. ~ (after[k].st = "ok" /\ after[k].i < Len(dAtA))
      BY <1>2
    <3>2. after[l] = after[k]
      BY <2>2, <3>1, EndStays
    <3>. QED  BY <1>2, <3>2
  <2>3. CASE l <= k
    <3>1. CASE l = Rounds(dAtA)
      <4>1. k <= l
        BY <2>1, <3>1
      <4>. QED  BY <2>2, <4>1
    <3>2. CASE after[l].st # "ok" \/ after[l].i >= Len(dAtA)
      <4>1. ~ (after[l].st = "ok" /\ after[l].i < Len(dAtA))
        BY <2>1, <3>2 DEF Results
      <4>2. after[k] = after[l]
        BY <2>3, <4>1, EndStays
      <4>. QED  BY <1>2, <4>2
    <3>. QED  BY <1>1, <3>1, <3>2
  <2>. QED  BY <2>1, <2>2, <2>3
<1>. QED  BY <1>1, <1>3

\* What is accepted of an encoding that was cut.
LEMMA CutIsRead ==
  ASSUME NEW M, NEW m0 \in M, NEW dAtA \in Buffers, NEW T, NEW after, NEW out,
         IsUnmarshal(T, M, m0, dAtA, after, out),
         NEW bz, Fits(bz), Begins(dAtA, bz), NEW new, Codes(after, dAtA, m0, bz, new),
         out.st = "ok"
  PROVE  Partly(out.m, m0, new)
<1>1. ~ Fails(after, dAtA)
  BY FailureStays
<1>2. Left(after, dAtA, m0, dAtA)
  BY AllLeft
<1>3. PICK m : Partly(m, m0, new) /\ Left(after, dAtA, m, <<>>)
  BY <1>1, <1>2 DEF Codes, Cuts
<1>4. out = [st |-> "ok", m |-> m]
  BY <1>3, NothingLeft
<1>. QED  BY <1>3, <1>4
=============================================================================
