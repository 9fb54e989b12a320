--------------------------- MODULE ChecksumProofs ---------------------------
(***************************************************************************)
(* For every size H of a byte and every buffer of at most 2 * B bytes, the *)
(* result of checksum() verifies.                                          *)
(*                                                                         *)
(* SumInv says where the unsigned int stands after each statement.  While  *)
(* the words are added it is their sum, because MaxLen keeps that below    *)
(* B * B; each fold takes away a multiple of B - 1.                        *)
(***************************************************************************)
EXTENDS Checksum, TLAPS

SumInv ==
    /\ Len(buf) <= 2 * B
    /\ stage = "add" => sum = total /\ 2 * total <= (Len(buf) - len) * (B - 1)
    /\ stage = "fold1" => sum = total /\ total <= B * (B - 1)
    /\ stage = "fold2" =>
        /\ \E k \in 0 .. B : total = sum + k * (B - 1)
        /\ sum <= 2 * (B - 1)
        /\ sum = 0 <=> total = 0
    /\ stage = "complement" =>
        /\ \E k \in 0 .. (B + 1) : total = (sum % B) + k * (B - 1)
        /\ sum % B = 0 <=> total = 0
    /\ stage = "done" => Verifies /\ ZeroOnlyOfZero

-----------------------------------------------------------------------------

\* A word is the square of a byte, and larger than two bytes.
LEMMA WordSize == B \in Nat /\ B >= 4 /\ 2 * (H - 1) <= B - 1 /\ H + H * (H - 1) = B
<1>1. H \in Nat /\ H >= 2 BY ChecksumAssumption
<1>2. H * H \in Nat /\ H * H >= 2 * H BY <1>1
<1>3. H + H * (H - 1) = H * H BY <1>1
<1> QED BY <1>1, <1>2, <1>3 DEF B

\* What \div and % return.
LEMMA DivMod ==
    ASSUME NEW n \in Nat, NEW b \in Nat, b > 0
    PROVE  /\ n \div b \in Nat /\ n % b \in 0 .. (b - 1)
           /\ n = b * (n \div b) + (n % b)
  OBVIOUS

\* The division that has this quotient and this remainder.
LEMMA DivModUnique ==
    ASSUME NEW n \in Nat, NEW b \in Nat, b > 0,
           NEW q \in Nat, NEW r \in 0 .. (b - 1), n = b * q + r
    PROVE  n \div b = q /\ n % b = r
<1> DEFINE d == n \div b
           m == n % b
<1>1. d \in Nat /\ m \in 0 .. (b - 1) /\ n = b * d + m BY DivMod
<1> HIDE DEF d, m
<1>2. b * (d - q) = r - m BY <1>1
<1>3. d - q \in Int BY <1>1
<1>4. ~ (d - q >= 1)
  <2> SUFFICES ASSUME d - q >= 1 PROVE FALSE OBVIOUS
  <2>1. b * (d - q) >= b BY <1>3
  <2> QED BY <2>1, <1>2, <1>1
<1>5. ~ (d - q <= -1)
  <2> SUFFICES ASSUME d - q <= -1 PROVE FALSE OBVIOUS
  <2>1. b * (d - q) <= -b BY <1>3
  <2> QED BY <2>1, <1>2, <1>1
<1>6. d = q BY <1>1, <1>3, <1>4, <1>5
<1>7. m = r BY <1>1, <1>2, <1>6
<1> QED BY <1>6, <1>7 DEF d, m

-----------------------------------------------------------------------------

\* SumInit establishes the invariant.
LEMMA InitInv == SumInit => SumTypeOK /\ SumInv
<1> SUFFICES ASSUME SumInit PROVE SumTypeOK /\ SumInv OBVIOUS
<1>1. B \in Nat /\ B >= 4 /\ H \in Nat /\ MaxLen \in Nat /\ MaxLen <= 2 * B
  BY WordSize, ChecksumAssumption
<1>2. PICK n \in 0 .. MaxLen : buf \in [1 .. n -> Bytes] BY DEF SumInit, Buffers
<1>3. buf \in Seq(Bytes) /\ Len(buf) = n BY <1>1, <1>2
<1>4. 0 <= B * B - 1 BY <1>1
<1>5. SumTypeOK BY <1>1, <1>3, <1>4 DEF SumInit, SumTypeOK
<1>6. SumInv
  <2>1. Len(buf) <= 2 * B BY <1>1, <1>3
  <2>2. 2 * total <= (Len(buf) - len) * (B - 1) BY <1>1, <1>3 DEF SumInit
  <2> QED BY <2>1, <2>2 DEF SumInit, SumInv
<1> QED BY <1>5, <1>6

\* A word that is added keeps the sum of the words below B * (B - 1).
LEMMA AddWordInv == SumTypeOK /\ SumInv /\ AddWord => SumTypeOK' /\ SumInv'
<1> SUFFICES ASSUME SumTypeOK, SumInv, AddWord PROVE SumTypeOK' /\ SumInv' OBVIOUS
<1> DEFINE M == B - 1
<1>1. /\ B \in Nat /\ B >= 4 /\ H \in Nat /\ H >= 2 /\ H + H * (H - 1) = B
      /\ M \in Nat /\ B = M + 1
  BY WordSize, ChecksumAssumption
<1> HIDE DEF M
<1>2. Len(buf) \in Nat /\ len \in Nat /\ len <= Len(buf) /\ len >= 2
  BY DEF SumTypeOK, AddWord
<1>3. Next2 \in 1 .. Len(buf) /\ Next2 + 1 \in 1 .. Len(buf) BY <1>2 DEF Next2
<1>4. buf[Next2] \in 0 .. (H - 1) /\ buf[Next2 + 1] \in 0 .. (H - 1)
  <2>1. buf \in Seq(Bytes) BY DEF SumTypeOK
  <2>2. buf[Next2] \in Bytes /\ buf[Next2 + 1] \in Bytes BY <1>3, <2>1
  <2> QED BY <2>2 DEF Bytes
<1>5. Word \in 0 .. M
  <2>1. H * buf[Next2 + 1] \in Nat /\ H * buf[Next2 + 1] <= H * (H - 1)
    BY <1>1, <1>4
  <2> QED BY <1>1, <1>4, <2>1 DEF Word
<1>6. sum = total /\ total \in Nat /\ 2 * total <= (Len(buf) - len) * M
  BY DEF SumInv, SumTypeOK, AddWord, M
<1>7. 2 * (total + Word) <= (Len(buf) - (len - 2)) * M
  <2>1. (Len(buf) - (len - 2)) * M = (Len(buf) - len) * M + 2 * M BY <1>1, <1>2
  <2>2. (Len(buf) - len) * M \in Int BY <1>1, <1>2
  <2> QED BY <1>1, <1>5, <1>6, <2>1, <2>2
<1>8. (Len(buf) - (len - 2)) * M <= (2 * B) * M
  <2>1. Len(buf) - (len - 2) <= 2 * B BY <1>2, <1>1 DEF SumInv
  <2> QED BY <2>1, <1>1, <1>2
<1>9. total + Word \in 0 .. (B * B - 1)
  <2>1. (2 * B) * M = 2 * (B * M) /\ B * M \in Nat /\ B * B = B * M + B BY <1>1
  <2>2. (Len(buf) - (len - 2)) * M \in Int BY <1>1, <1>2
  <2> QED BY <1>1, <1>5, <1>6, <1>7, <1>8, <2>1, <2>2
<1>10. sum' = total' /\ total' = total + Word
  <2>1. B * B \in Nat /\ B * B > 0 BY <1>1
  <2>2. (total + Word) % (B * B) = total + Word
    BY <1>9, <2>1, DivModUnique, total + Word = (B * B) * 0 + (total + Word)
  <2> QED BY <1>6, <2>2 DEF AddWord, Add
<1>11. SumTypeOK' BY <1>2, <1>9, <1>10 DEF SumTypeOK, AddWord
<1>12. SumInv' BY <1>7, <1>10 DEF SumInv, AddWord, M
<1> QED BY <1>11, <1>12

\* So does the last odd byte, which is worth less than half a word.
LEMMA AddByteInv == SumTypeOK /\ SumInv /\ AddByte => SumTypeOK' /\ SumInv'
<1> SUFFICES ASSUME SumTypeOK, SumInv, AddByte PROVE SumTypeOK' /\ SumInv' OBVIOUS
<1> DEFINE M == B - 1
<1>1. /\ B \in Nat /\ B >= 4 /\ H \in Nat /\ H >= 2 /\ 2 * (H - 1) <= M
      /\ M \in Nat /\ B = M + 1
  BY WordSize, ChecksumAssumption
<1> HIDE DEF M
<1>2. Len(buf) \in Nat /\ len \in {0, 1} /\ len <= Len(buf) /\ Len(buf) <= 2 * B
  BY DEF SumTypeOK, AddByte, SumInv
<1>3. sum = total /\ total \in Nat /\ 2 * total <= (Len(buf) - len) * M
  BY DEF SumInv, SumTypeOK, AddByte, M
<1>4. PICK w \in 0 .. (H - 1) :
        total' = total + w /\ sum' = IF len = 1 THEN (sum + w) % (B * B) ELSE sum
  <2>1. CASE len = 1
    <3>1. Next2 \in 1 .. Len(buf) BY <1>2, <2>1 DEF Next2
    <3>2. buf \in Seq(Bytes) BY DEF SumTypeOK
    <3>3. buf[Next2] \in Bytes BY <3>1, <3>2
    <3> QED BY <3>3, <2>1 DEF AddByte, Add, Bytes
  <2>2. CASE len = 0
    <3>1. total' = total + 0 /\ sum' = sum BY <1>3, <2>2 DEF AddByte
    <3> QED BY <3>1, <1>1, <2>2
  <2> QED BY <1>2, <2>1, <2>2
<1>5. 2 * total <= (Len(buf) - len) * M /\ len = 1 =>
        2 * (total + w) <= Len(buf) * M
  <2>1. (Len(buf) - 1) * M = Len(buf) * M - M /\ Len(buf) * M \in Int BY <1>1, <1>2
  <2> QED BY <2>1, <1>1, <1>3
<1>6. Len(buf) * M <= (2 * B) * M BY <1>1, <1>2
<1>7. total' \in Nat /\ total' <= B * M
  <2>1. (2 * B) * M = 2 * (B * M) /\ B * M \in Nat /\ Len(buf) * M \in Nat BY <1>1, <1>2
  <2>2. CASE len = 1 BY <2>1, <2>2, <1>1, <1>3, <1>4, <1>5, <1>6
  <2>3. CASE len = 0
    <3>1. total' = total BY <1>3, <2>3 DEF AddByte
    <3> QED BY <2>1, <2>3, <3>1, <1>2, <1>3, <1>6
  <2> QED BY <1>2, <2>2, <2>3
<1>8. sum' = total' /\ total' \in 0 .. (B * B - 1)
  <2>1. B * B = B * M + B /\ B * M \in Nat /\ B * B \in Nat /\ B * B > 0 BY <1>1
  <2>2. total' \in 0 .. (B * B - 1) BY <2>1, <1>1, <1>7
  <2>3. total' % (B * B) = total'
    BY <2>1, <2>2, DivModUnique, total' = (B * B) * 0 + total'
  <2>4. len = 0 => sum' = total' BY <1>3 DEF AddByte
  <2> QED BY <2>2, <2>3, <2>4, <1>2, <1>3, <1>4
<1>9. SumTypeOK' BY <1>8 DEF SumTypeOK, AddByte
<1>10. SumInv' BY <1>2, <1>7, <1>8 DEF SumInv, AddByte, M
<1> QED BY <1>9, <1>10

\* The first fold takes away total \div B times B - 1.
LEMMA FoldOnceInv == SumTypeOK /\ SumInv /\ FoldOnce => SumTypeOK' /\ SumInv'
<1> SUFFICES ASSUME SumTypeOK, SumInv, FoldOnce PROVE SumTypeOK' /\ SumInv' OBVIOUS
<1> DEFINE M == B - 1
           q == sum \div B
           r == sum % B
<1>1. B \in Nat /\ B >= 4 /\ M \in Nat /\ B = M + 1 BY WordSize
<1>2. sum = total /\ total \in Nat /\ total <= B * M
  BY DEF SumInv, SumTypeOK, FoldOnce, M
<1>3. sum = B * q + r /\ q \in Nat /\ r \in 0 .. M BY <1>1, <1>2, DivMod
<1>4. sum' = q + r /\ total' = total /\ buf' = buf BY DEF FoldOnce
<1> HIDE DEF M, q, r
<1>5. q <= M
  <2> SUFFICES ASSUME q >= M + 1 PROVE FALSE BY <1>1, <1>3
  <2>1. B * q >= B * (M + 1) BY <1>1, <1>3
  <2>2. B * (M + 1) = B * M + B /\ B * M \in Nat /\ B * q \in Nat BY <1>1, <1>3
  <2> QED BY <2>1, <2>2, <1>1, <1>2, <1>3
<1>6. total' = sum' + q * M
  <2>1. B * q = q * M + q BY <1>1, <1>3
  <2>2. q * M \in Nat /\ B * q \in Nat BY <1>1, <1>3
  <2>3. total' = B * q + r BY <1>2, <1>3, <1>4
  <2> QED BY <2>1, <2>2, <2>3, <1>3, <1>4
<1>7. sum' = 0 <=> total' = 0
  <2>1. sum' = 0 => total' = 0
    <3> SUFFICES ASSUME sum' = 0 PROVE total' = 0 OBVIOUS
    <3>1. q = 0 BY <1>3, <1>4
    <3> QED BY <3>1, <1>6, <1>1
  <2>2. total' = 0 => sum' = 0
    <3>1. q * M \in Nat BY <1>1, <1>3
    <3> QED BY <3>1, <1>1, <1>3, <1>4, <1>6
  <2> QED BY <2>1, <2>2
<1>8. sum' \in Nat /\ sum' <= 2 * M BY <1>1, <1>3, <1>4, <1>5
<1>9. SumTypeOK'
  <2>1. 2 * M <= B * B - 1
    <3>1. B * B >= 4 * B BY <1>1
    <3> QED BY <3>1, <1>1
  <2>2. B * B \in Nat BY <1>1
  <2> QED BY <2>1, <2>2, <1>1, <1>8 DEF SumTypeOK, FoldOnce
<1>10. SumInv'
  <2>1. \E k \in 0 .. B : total' = sum' + k * M BY <1>1, <1>3, <1>5, <1>6
  <2> QED BY <2>1, <1>7, <1>8 DEF SumInv, FoldOnce, M
<1> QED BY <1>9, <1>10

\* The second fold takes away B - 1 when the first left a carry.
LEMMA FoldTwiceInv == SumTypeOK /\ SumInv /\ FoldTwice => SumTypeOK' /\ SumInv'
<1> SUFFICES ASSUME SumTypeOK, SumInv, FoldTwice PROVE SumTypeOK' /\ SumInv' OBVIOUS
<1> DEFINE M == B - 1
<1>1. B \in Nat /\ B >= 4 /\ M \in Nat /\ B = M + 1 BY WordSize
<1>2. /\ sum \in Nat /\ sum <= 2 * M /\ total \in Nat
      /\ sum = 0 <=> total = 0
  BY DEF SumInv, SumTypeOK, FoldTwice, M
<1>3. PICK k \in 0 .. B : total = sum + k * M BY DEF SumInv, FoldTwice, M
<1>4. total' = total /\ buf' = buf /\ sum' = (sum + (sum \div B)) % (B * B)
  BY DEF FoldTwice
<1> HIDE DEF M
<1>5. PICK c \in {0, 1} :
        /\ sum' = sum + c
        /\ sum' % B = sum - c * M
        /\ c = 1 <=> sum >= B
  <2>1. B * B \in Nat /\ B * B >= 4 * B BY <1>1
  <2>2. CASE sum < B
    <3>1. sum \div B = 0 /\ sum % B = sum
      BY <2>2, <1>1, <1>2, DivModUnique, sum = B * 0 + sum
    <3>2. sum' = sum
      <4>1. sum = (B * B) * 0 + sum /\ sum \in 0 .. (B * B - 1) BY <2>1, <2>2, <1>1, <1>2
      <4>2. sum % (B * B) = sum BY <4>1, <2>1, <1>1, <1>2, DivModUnique
      <4>3. sum + 0 = sum BY <1>2
      <4> QED BY <4>2, <4>3, <3>1, <1>4
    <3> QED BY <3>1, <3>2, <2>2, <1>1, <1>2
  <2>3. CASE sum >= B
    <3>1. sum - B \in 0 .. M /\ sum = B * 1 + (sum - B) BY <2>3, <1>1, <1>2
    <3>2. sum \div B = 1 BY <3>1, <1>1, <1>2, DivModUnique
    <3>3. sum' = sum + 1
      <4>1. sum + 1 = (B * B) * 0 + (sum + 1) /\ sum + 1 \in 0 .. (B * B - 1)
        BY <2>1, <1>1, <1>2
      <4>2. (sum + 1) % (B * B) = sum + 1 BY <4>1, <2>1, <1>1, <1>2, DivModUnique
      <4> QED BY <4>2, <3>2, <1>4
    <3>4. sum + 1 = B * 1 + (sum - M) /\ sum - M \in 0 .. M /\ sum + 1 \in Nat
      BY <2>3, <1>1, <1>2
    <3>5. (sum + 1) % B = sum - M BY <3>4, <1>1, DivModUnique
    <3> QED BY <3>3, <3>5, <2>3, <1>1, <1>2
  <2> QED BY <2>2, <2>3, <1>1, <1>2
<1>6. sum' \in Nat /\ sum' % B \in 0 .. M BY <1>1, <1>2, <1>5, DivMod
<1>7. total' = (sum' % B) + (k + c) * M
  <2>1. (k + c) * M = k * M + c * M /\ k * M \in Int /\ c * M \in Int BY <1>1, <1>3
  <2> QED BY <2>1, <1>2, <1>3, <1>4, <1>5
<1>8. sum' % B = 0 <=> total' = 0 BY <1>1, <1>2, <1>4, <1>5
<1>9. SumTypeOK'
  <2>1. B * B \in Nat /\ B * B >= 4 * B BY <1>1
  <2>2. sum' \in 0 .. (B * B - 1) BY <2>1, <1>1, <1>2, <1>5
  <2> QED BY <2>2 DEF SumTypeOK, FoldTwice
<1>10. SumInv'
  <2>1. k + c \in 0 .. (B + 1) BY <1>1, <1>3, <1>5
  <2>2. \E j \in 0 .. (B + 1) : total' = (sum' % B) + j * M BY <2>1, <1>7
  <2> QED BY <2>2, <1>8 DEF SumInv, FoldTwice, M
<1> QED BY <1>9, <1>10

\* The lower half of the complement is B - 1 less the lower half.
LEMMA ComplementInv == SumTypeOK /\ SumInv /\ Complement => SumTypeOK' /\ SumInv'
<1> SUFFICES ASSUME SumTypeOK, SumInv, Complement PROVE SumTypeOK' /\ SumInv' OBVIOUS
<1> DEFINE M == B - 1
           q == sum \div B
           r == sum % B
<1>1. B \in Nat /\ B >= 4 /\ M \in Nat /\ B = M + 1 BY WordSize
<1>2. sum \in Nat /\ sum <= B * B - 1 /\ total \in Nat
  <2>1. B * B \in Nat BY <1>1
  <2> QED BY <2>1 DEF SumTypeOK
<1>3. sum = B * q + r /\ q \in Nat /\ r \in 0 .. M BY <1>1, <1>2, DivMod
<1>4. PICK k \in 0 .. (B + 1) : total = r + k * M BY DEF SumInv, Complement, M, r
<1>5. r = 0 <=> total = 0 BY DEF SumInv, Complement, r
<1>6. total' = total /\ buf' = buf /\ result' = (B * B - 1 - sum) % B BY DEF Complement
<1> HIDE DEF M, q, r
<1>7. result' = M - r
  <2>1. q <= M
    <3> SUFFICES ASSUME q >= B PROVE FALSE BY <1>1, <1>3
    <3>1. B * q >= B * B /\ B * q \in Nat /\ B * B \in Nat BY <1>1, <1>3
    <3> QED BY <3>1, <1>2, <1>3
  <2>2. B * B - 1 - sum = B * (M - q) + (M - r)
    <3>1. B * (M - q) = B * M - B * q /\ B * B = B * M + B BY <1>1, <1>3
    <3>2. B * M \in Nat /\ B * q \in Nat BY <1>1, <1>3
    <3> QED BY <3>1, <3>2, <1>1, <1>3
  <2>3. M - q \in Nat /\ M - r \in 0 .. (B - 1) BY <2>1, <1>1, <1>3
  <2>4. B * B - 1 - sum \in Nat
    <3>1. B * B \in Nat BY <1>1
    <3> QED BY <3>1, <1>2
  <2>5. (B * B - 1 - sum) % B = M - r
    <3> DEFINE n == B * B - 1 - sum
    <3>1. n \in Nat /\ n = B * (M - q) + (M - r) BY <2>2, <2>4
    <3> HIDE DEF n
    <3>2. n % B = M - r BY <3>1, <2>3, <1>1, DivModUnique
    <3> QED BY <3>2 DEF n
  <2> QED BY <2>5, <1>6
<1>8. SumTypeOK' BY <1>1, <1>3, <1>7 DEF SumTypeOK, Complement
<1>9. Verifies'
  <2>1. (k + 1) * M = k * M + M /\ k * M \in Int BY <1>1, <1>4
  <2>2. total' + result' = (k + 1) * M BY <2>1, <1>1, <1>3, <1>4, <1>6, <1>7
  <2>3. k + 1 \in 1 .. (B + 2) BY <1>1, <1>4
  <2>4. \E j \in 1 .. (B + 2) : total' + result' = j * M BY <2>2, <2>3
  <2> QED BY <2>4 DEF Verifies, M
<1>10. ZeroOnlyOfZero'
  <2>1. result' = M <=> total' = 0 BY <1>1, <1>3, <1>5, <1>6, <1>7
  <2> QED BY <2>1 DEF ZeroOnlyOfZero, M
<1>11. SumInv' BY <1>9, <1>10 DEF SumInv, Complement
<1> QED BY <1>8, <1>11

-----------------------------------------------------------------------------

\* Every step of checksum() preserves the invariant.
THEOREM SumInvariant == SumSpec => [](SumTypeOK /\ SumInv)
<1>1. SumTypeOK /\ SumInv /\ [SumNext]_sumVars => SumTypeOK' /\ SumInv'
  <2> SUFFICES ASSUME SumTypeOK, SumInv, [SumNext]_sumVars PROVE SumTypeOK' /\ SumInv' OBVIOUS
  <2>1. CASE AddWord BY <2>1, AddWordInv
  <2>2. CASE AddByte BY <2>2, AddByteInv
  <2>3. CASE FoldOnce BY <2>3, FoldOnceInv
  <2>4. CASE FoldTwice BY <2>4, FoldTwiceInv
  <2>5. CASE Complement BY <2>5, ComplementInv
  <2>6. CASE UNCHANGED sumVars
    BY <2>6 DEF sumVars, SumTypeOK, SumInv, Verifies, ZeroOnlyOfZero
  <2> QED BY <2>1, <2>2, <2>3, <2>4, <2>5, <2>6 DEF SumNext
<1> QED BY <1>1, InitInv, PTL DEF SumSpec

\* The result of checksum() verifies, for every buffer up to 2 * B bytes: the
\* two folds at the end of the function lose no carry.
THEOREM ChecksumVerifies == SumSpec => []Verifies
<1>1. SumInv => Verifies BY DEF SumInv, Verifies
<1> QED BY <1>1, SumInvariant, PTL

\* The result is the complement of zero for the words that are all zero only.
THEOREM ChecksumZero == SumSpec => []ZeroOnlyOfZero
<1>1. SumInv => ZeroOnlyOfZero BY DEF SumInv, ZeroOnlyOfZero
<1> QED BY <1>1, SumInvariant, PTL
=============================================================================
