---------------------------- MODULE InputsProofs ----------------------------
(***************************************************************************)
(* What comes in from outside, for every size and time: the response       *)
(* buffer, the decision about claims, and the buffer for a DER key.        *)
(***************************************************************************)
EXTENDS Inputs, FiniteSetTheorems, SequenceTheorems, TLAPS

(* What the buffer holds: the body so far unless a piece was dropped, then *)
(* a terminator.                                                           *)
BodyInv ==
  /\ capacity \in Nat /\ total \in Nat /\ len \in Nat /\ sent \in Nat /\ overflow \in BOOLEAN
  /\ DOMAIN data = 0..capacity - 1
  /\ len < capacity
  /\ data[len] = Nul \/ data[capacity - 1] = Nul
  /\ ~overflow => /\ len = sent /\ data[len] = Nul
                  /\ \A k \in 0..len - 1 : data[k] = k
  /\ outcome = "ok" => ~overflow /\ sent = total

LEMMA InitBodyInv == Init => BodyInv
<1> SUFFICES ASSUME Init PROVE BodyInv
  OBVIOUS
<1>1. capacity \in Nat /\ capacity > 1 /\ total \in Nat
  BY BodyAssumption DEF Init
<1>2. DOMAIN data = 0..capacity - 1 /\ data[0] = Nul
  BY <1>1 DEF Init
<1>3. len = 0 /\ sent = 0 /\ outcome = "receiving"
  BY DEF Init
<1>4. data[len] = Nul /\ \A k \in 0..len - 1 : data[k] = k
  BY <1>2, <1>3
<1>5. len \in Nat /\ sent \in Nat /\ len < capacity /\ len = sent /\ outcome # "ok"
  BY <1>1, <1>3
<1>6. overflow \in BOOLEAN
  BY DEF Init
<1> QED
  BY <1>1, <1>2, <1>4, <1>5, <1>6 DEF BodyInv

(* A piece that fits keeps the invariant.                                  *)
LEMMA CopyStep ==
  ASSUME BodyInv, NEW n \in 1..total, outcome = "receiving", Copy(n), sent' = sent + n,
         UNCHANGED <<capacity, total, outcome>>
  PROVE  BodyInv'
<1> USE DEF BodyInv
<1>1. /\ n \in Nat /\ len + n < capacity
      /\ len' = len + n /\ overflow' = overflow
      /\ data' = [k \in 0..capacity - 1 |-> IF k < len THEN data[k]
                                            ELSE IF k < len + n THEN sent + (k - len)
                                            ELSE IF k = len + n THEN Nul ELSE data[k]]
  BY DEF Copy, Fits
<1>2. DOMAIN data' = 0..capacity' - 1 /\ data'[len'] = Nul
  BY <1>1
<1>3. ASSUME ~overflow PROVE \A k \in 0..len' - 1 : data'[k] = k
  <2> SUFFICES ASSUME NEW k \in 0..len' - 1 PROVE data'[k] = k
    OBVIOUS
  <2>1. CASE k < len
    BY <1>1, <1>3, <2>1
  <2>2. CASE k >= len
    BY <1>1, <1>3, <2>2
  <2> QED
    BY <1>1, <2>1, <2>2
<1> QED
  BY <1>1, <1>2, <1>3

(* So does one that is dropped.                                            *)
LEMMA OverflowStep ==
  ASSUME BodyInv, NEW n \in 1..total, outcome = "receiving", Overflow(n), sent' = sent + n,
         UNCHANGED <<capacity, total, outcome>>
  PROVE  BodyInv'
<1> USE DEF BodyInv
<1>1. n \in Nat /\ len' = len /\ overflow' = TRUE
  BY DEF Overflow
<1>2. data' = [data EXCEPT ![capacity - 1] = Nul] /\ capacity - 1 \in 0..capacity - 1
  BY DEF Overflow
<1>3. DOMAIN data' = 0..capacity' - 1 /\ data'[capacity' - 1] = Nul
  BY <1>2
<1> QED
  BY <1>1, <1>3

LEMMA BodyStep ==
  ASSUME BodyInv, Next
  PROVE  BodyInv'
<1>1. ASSUME NEW n \in 1..total, Data(n) PROVE BodyInv'
  BY <1>1, CopyStep, OverflowStep DEF Data
<1>2. CASE Finish
  BY <1>2 DEF Finish, BodyInv
<1> QED
  BY <1>1, <1>2 DEF Next

(* A response is reported as received only whole, and the buffer always    *)
(* ends in a terminator, for every size of buffer, body and pieces.        *)
THEOREM BodyAlwaysWhole == Spec => []BodyWhole
<1>1. BodyInv /\ [Next]_bodyVars => BodyInv'
  BY BodyStep DEF bodyVars, BodyInv
<1>2. BodyInv => BodyWhole
  BY DEF BodyInv, BodyWhole
<1> QED
  BY <1>1, <1>2, InitBodyInv, PTL DEF Spec

----------------------------------------------------------------------------
(* The sensor's check, in three steps: the loops of sht31_crc8 are the     *)
(* long division of the data sheet; the division is linear, so that wrong  *)
(* bits are seen or not whatever the value; and of up to three of the      *)
(* remainders of single bits none cancel, because each has an odd number   *)
(* of bits and no two are the same.                                        *)

(* A register that stands n bits higher in the dividend.                   *)
Up(reg, n) == {b + n : b \in reg}

Registers == SUBSET (0..7)

LEMMA StepTyped ==
  ASSUME NEW crc \in Registers
  PROVE  CrcStep(crc) \in Registers
<1>1. Shift(crc) \in Registers
  BY DEF Registers, Shift
<1> QED
  BY <1>1 DEF Registers, CrcStep, Xor, Polynomial

LEMMA ShiftTyped ==
  ASSUME NEW crc \in Registers
  PROVE  Shift(crc) \subseteq Int
BY DEF Shift, Registers

LEMMA UpHas ==
  ASSUME NEW reg \in SUBSET Int, NEW n \in Int
  PROVE  /\ Up(reg, n) \subseteq Int
         /\ \A x \in Int : x \in Up(reg, n) <=> x - n \in reg
BY DEF Up

(* A turn of the loop is a step of the long division, with the bits that   *)
(* have yet to come in below the register.                                 *)
LEMMA StepReduces ==
  ASSUME NEW crc \in Registers, NEW j \in Int, NEW rest \in SUBSET Int, j + 8 \notin rest
  PROVE  Reduce(Xor(Up(crc, j + 1), rest), j + 8) = Xor(Up(CrcStep(crc), j), rest)
<1> DEFINE D == Xor(Up(crc, j + 1), rest)
<1>1. j + 8 \in D <=> 7 \in crc
  <2>1. crc \in SUBSET Int /\ (j + 8) - (j + 1) = 7
    BY DEF Registers
  <2>2. j + 8 \in Up(crc, j + 1) <=> 7 \in crc
    BY <2>1, UpHas
  <2> QED
    BY <2>2 DEF Xor
<1>2. CASE 7 \in crc
  <2>1. Reduce(D, j + 8) = Xor(D, {j, j + 4, j + 5, j + 8})
    BY <1>1, <1>2 DEF Reduce
  <2>2. Up(CrcStep(crc), j) = Xor(Up(Shift(crc), j), {j, j + 4, j + 5})
    <3>1. CrcStep(crc) = Xor(Shift(crc), {0, 4, 5})
      BY <1>2 DEF CrcStep, Polynomial
    <3>2. \A x \in Int : x - j \in {0, 4, 5} <=> x \in {j, j + 4, j + 5}
      OBVIOUS
    <3>3. Up(Xor(Shift(crc), {0, 4, 5}), j) \subseteq Int /\ Up(Shift(crc), j) \subseteq Int
      BY DEF Up, Xor, Shift, Registers
    <3>4. ASSUME NEW x \in Int
          PROVE  x \in Up(Xor(Shift(crc), {0, 4, 5}), j)
                   <=> x \in Xor(Up(Shift(crc), j), {j, j + 4, j + 5})
      <4>1. x \in Up(Xor(Shift(crc), {0, 4, 5}), j) <=> x - j \in Xor(Shift(crc), {0, 4, 5})
        BY UpHas, ShiftTyped DEF Xor
      <4>2. x \in Up(Shift(crc), j) <=> x - j \in Shift(crc)
        BY UpHas, ShiftTyped
      <4> QED
        BY <3>2, <4>1, <4>2 DEF Xor
    <3> QED
      BY <3>1, <3>3, <3>4 DEF Xor
  <2>3. Up(crc, j + 1) = Up(Shift(crc), j) \cup {j + 8}
    <3>1. ASSUME NEW x \in Int
          PROVE  x \in Up(crc, j + 1) <=> x \in Up(Shift(crc), j) \cup {j + 8}
      <4>1. x \in Up(crc, j + 1) <=> x - (j + 1) \in crc
        BY UpHas DEF Registers
      <4>2. x \in Up(Shift(crc), j) <=> (x - j) - 1 \in crc /\ (x - j) - 1 # 7
        BY UpHas, ShiftTyped DEF Shift, Registers
      <4> QED
        BY <1>2, <4>1, <4>2
    <3>2. Up(crc, j + 1) \subseteq Int /\ Up(Shift(crc), j) \subseteq Int
      BY UpHas, ShiftTyped DEF Registers
    <3> QED
      BY <3>1, <3>2
  <2>4. j + 8 \notin Up(Shift(crc), j)
    BY DEF Up, Shift, Registers
  <2> QED
    BY <2>1, <2>2, <2>3, <2>4 DEF Xor
<1>3. CASE 7 \notin crc
  <2>1. Reduce(D, j + 8) = D
    BY <1>1, <1>3 DEF Reduce
  <2>2. Up(Shift(crc), j) = Up(crc, j + 1)
    <3>1. ASSUME NEW x \in Int
          PROVE  x \in Up(crc, j + 1) <=> x \in Up(Shift(crc), j)
      <4>1. x \in Up(crc, j + 1) <=> x - (j + 1) \in crc
        BY UpHas DEF Registers
      <4>2. x \in Up(Shift(crc), j) <=> (x - j) - 1 \in crc
        BY <1>3, UpHas, ShiftTyped DEF Shift, Registers
      <4> QED
        BY <4>1, <4>2
    <3>2. Up(crc, j + 1) \subseteq Int /\ Up(Shift(crc), j) \subseteq Int
      BY UpHas, ShiftTyped DEF Registers
    <3> QED
      BY <3>1, <3>2
  <2>3. CrcStep(crc) = Shift(crc)
    BY <1>3 DEF CrcStep
  <2> QED
    BY <2>1, <2>2, <2>3
<1> QED
  BY <1>2, <1>3

(* So are four turns.                                                      *)
LEMMA HalfReduces ==
  ASSUME NEW crc \in Registers, NEW j \in Int, NEW rest \in SUBSET Int,
         \A d \in j + 8..j + 11 : d \notin rest
  PROVE  /\ CrcHalf(crc) \in Registers
         /\ ReduceFour(Xor(Up(crc, j + 4), rest), j + 11) = Xor(Up(CrcHalf(crc), j), rest)
<1> DEFINE c1 == CrcStep(crc)
           c2 == CrcStep(c1)
           c3 == CrcStep(c2)
<1>1. c1 \in Registers /\ c2 \in Registers /\ c3 \in Registers /\ CrcStep(c3) \in Registers
  BY StepTyped
<1>2. Reduce(Xor(Up(crc, j + 4), rest), j + 11) = Xor(Up(c1, j + 3), rest)
  <2>1. j + 3 \in Int /\ (j + 3) + 8 \notin rest /\ (j + 3) + 1 = j + 4 /\ (j + 3) + 8 = j + 11
    OBVIOUS
  <2> HIDE DEF c1
  <2> QED
    BY <2>1, StepReduces DEF c1
<1>3. Reduce(Xor(Up(c1, j + 3), rest), j + 10) = Xor(Up(c2, j + 2), rest)
  <2>1. j + 2 \in Int /\ (j + 2) + 8 \notin rest /\ (j + 2) + 1 = j + 3 /\ (j + 2) + 8 = j + 10
    OBVIOUS
  <2> HIDE DEF c1
  <2> QED
    BY <1>1, <2>1, StepReduces
<1>4. Reduce(Xor(Up(c2, j + 2), rest), j + 9) = Xor(Up(c3, j + 1), rest)
  <2>1. j + 1 \in Int /\ (j + 1) + 8 \notin rest /\ (j + 1) + 1 = j + 2 /\ (j + 1) + 8 = j + 9
    OBVIOUS
  <2> HIDE DEF c2
  <2> QED
    BY <1>1, <2>1, StepReduces
<1>5. Reduce(Xor(Up(c3, j + 1), rest), j + 8) = Xor(Up(CrcStep(c3), j), rest)
  <2> HIDE DEF c3
  <2> QED
    BY <1>1, StepReduces
<1>6. j + 11 - 1 = j + 10 /\ j + 11 - 2 = j + 9 /\ j + 11 - 3 = j + 8
  OBVIOUS
<1>7. CrcHalf(crc) = CrcStep(c3)
  BY DEF CrcHalf
<1> HIDE DEF c1, c2, c3
<1> QED
  BY <1>1, <1>2, <1>3, <1>4, <1>5, <1>6, <1>7 DEF ReduceFour

(* sht31_crc8 computes the remainder.                                      *)
LEMMA CrcIsRemainder ==
  ASSUME NEW word \in SUBSET (0..15)
  PROVE  Crc8(HighByte(word), LowByte(word)) = Remainder(word)
<1> DEFINE high == HighByte(word)
           low  == LowByte(word)
           r0   == Xor(CrcInit, high)
           r1   == CrcHalf(r0)
           r2   == CrcHalf(r1)
           r3   == Xor(r2, low)
           r4   == CrcHalf(r3)
<1> DEFINE rest == Up(low, 8)
           D == {b + 8 : b \in Xor(word, 8..15)}
<1>1. r0 \in Registers /\ low \in Registers
  BY DEF Registers, Xor, CrcInit, HighByte, LowByte
<1>2. D = Xor(Up(r0, 16), rest)
  <2>1. \A x \in Int : x \in D <=> x \in Xor(Up(r0, 16), rest)
    <3> SUFFICES ASSUME NEW x \in Int PROVE x \in D <=> x \in Xor(Up(r0, 16), rest)
      OBVIOUS
    <3>1. x \in D <=> (x - 8 \in word <=> ~(x - 8 \in 8..15))
      BY DEF Xor
    <3>2. x \in rest <=> x - 8 \in word /\ x - 8 \in 0..7
      BY DEF Up, LowByte
    <3>3. x \in Up(r0, 16) <=> x - 16 \in r0
      BY <1>1 DEF Up, Registers
    <3>4. x - 16 \in high <=> x - 8 \in word /\ x - 8 \in 8..15
      BY DEF HighByte
    <3>5. x - 16 \in r0 <=> x - 8 \in 8..15 /\ x - 8 \notin word
      BY <3>4 DEF Xor, CrcInit
    <3> QED
      BY <3>1, <3>2, <3>3, <3>5 DEF Xor
  <2>2. D \subseteq Int /\ rest \subseteq Int /\ Up(r0, 16) \subseteq Int
    BY <1>1 DEF Xor, Up, Registers
  <2> QED
    BY <2>1, <2>2 DEF Xor
<1>3. rest \subseteq 8..15
  BY <1>1 DEF Up, Registers
<1> HIDE DEF r0, low, rest, high, D
<1>4. r1 \in Registers /\ ReduceFour(D, 23) = Xor(Up(r1, 12), rest)
  <2>1. \A d \in 12 + 8..12 + 11 : d \notin rest
    BY <1>3
  <2> QED
    BY <1>1, <1>2, <1>3, <2>1, HalfReduces
<1> HIDE DEF r1
<1>5. r2 \in Registers /\ ReduceFour(Xor(Up(r1, 12), rest), 19) = Xor(Up(r2, 8), rest)
  <2>1. \A d \in 8 + 8..8 + 11 : d \notin rest
    BY <1>3
  <2> QED
    BY <1>3, <1>4, <2>1, HalfReduces
<1> HIDE DEF r2
<1>6. r3 \in Registers /\ Xor(Up(r2, 8), rest) = Up(r3, 8) /\ Up(r3, 8) = Xor(Up(r3, 8), {})
  <2>1. r3 \in Registers
    BY <1>1, <1>5 DEF Xor, Registers, r3
  <2>2. Up(r2, 8) \subseteq Int /\ Up(r3, 8) \subseteq Int /\ rest \subseteq Int
    BY <1>1, <1>5, <2>1 DEF Up, Registers, rest
  <2>3. ASSUME NEW x \in Int PROVE x \in Xor(Up(r2, 8), rest) <=> x \in Up(r3, 8)
    <3>1. /\ x \in Up(r2, 8) <=> x - 8 \in r2
          /\ x \in Up(r3, 8) <=> x - 8 \in r3
          /\ x \in rest <=> x - 8 \in low
      BY <1>1, <1>5, <2>1 DEF Up, Registers, rest
    <3> QED
      BY <3>1 DEF Xor, r3
  <2> QED
    BY <2>1, <2>2, <2>3 DEF Xor
<1> HIDE DEF r3
<1>7. r4 \in Registers /\ ReduceFour(Xor(Up(r3, 8), {}), 15) = Xor(Up(r4, 4), {})
  BY <1>6, HalfReduces
<1> HIDE DEF r4
<1>8. ReduceFour(Xor(Up(r4, 4), {}), 11) = Xor(Up(CrcHalf(r4), 0), {}) /\ CrcHalf(r4) \in Registers
  BY <1>7, HalfReduces
<1>9. Xor(Up(CrcHalf(r4), 0), {}) = CrcHalf(r4)
  BY <1>8 DEF Xor, Up, Registers
<1>10. Remainder(word) = CrcHalf(r4)
  BY <1>4, <1>5, <1>6, <1>7, <1>8, <1>9 DEF Remainder, D
<1> QED
  BY <1>10 DEF Crc8, CrcByte, r0, r1, r2, r3, r4, low, high

----------------------------------------------------------------------------
(* What a single wrong bit does to the check: Column[b + 1] is x^b modulo  *)
(* the polynomial.                                                         *)
Column ==
  <<{0}, {1}, {2}, {3}, {4}, {5},
    {6}, {7}, {0, 4, 5}, {1, 5, 6}, {2, 6, 7}, {0, 3, 4, 5, 7},
    {0, 1, 6}, {1, 2, 7}, {0, 2, 3, 4, 5}, {1, 3, 4, 5, 6}, {2, 4, 5, 6, 7}, {0, 3, 4, 6, 7},
    {0, 1, 7}, {0, 1, 2, 4, 5}, {1, 2, 3, 5, 6}, {2, 3, 4, 6, 7}, {0, 3, 7}, {0, 1, 5}>>

LEMMA ColumnsStep ==
  /\ \A k \in 1..24 : Column[k] \in Registers
  /\ \A k \in 1..23 : CrcStep(Column[k]) = Column[k + 1]
  /\ \A k \in 1..8 : Column[k] = {k - 1}
<1>1. \A k \in 1..24 : Column[k] \in Registers
  BY DEF Column, Registers
<1>2. /\ CrcStep({0}) = {1}
      /\ CrcStep({1}) = {2}
      /\ CrcStep({2}) = {3}
      /\ CrcStep({3}) = {4}
  BY DEF CrcStep, Shift, Xor, Polynomial
<1>3. /\ CrcStep({4}) = {5}
      /\ CrcStep({5}) = {6}
      /\ CrcStep({6}) = {7}
      /\ CrcStep({7}) = {0, 4, 5}
  BY DEF CrcStep, Shift, Xor, Polynomial
<1>4. /\ CrcStep({0, 4, 5}) = {1, 5, 6}
      /\ CrcStep({1, 5, 6}) = {2, 6, 7}
      /\ CrcStep({2, 6, 7}) = {0, 3, 4, 5, 7}
      /\ CrcStep({0, 3, 4, 5, 7}) = {0, 1, 6}
  BY DEF CrcStep, Shift, Xor, Polynomial
<1>5. /\ CrcStep({0, 1, 6}) = {1, 2, 7}
      /\ CrcStep({1, 2, 7}) = {0, 2, 3, 4, 5}
      /\ CrcStep({0, 2, 3, 4, 5}) = {1, 3, 4, 5, 6}
      /\ CrcStep({1, 3, 4, 5, 6}) = {2, 4, 5, 6, 7}
  BY DEF CrcStep, Shift, Xor, Polynomial
<1>6. /\ CrcStep({2, 4, 5, 6, 7}) = {0, 3, 4, 6, 7}
      /\ CrcStep({0, 3, 4, 6, 7}) = {0, 1, 7}
      /\ CrcStep({0, 1, 7}) = {0, 1, 2, 4, 5}
      /\ CrcStep({0, 1, 2, 4, 5}) = {1, 2, 3, 5, 6}
  BY DEF CrcStep, Shift, Xor, Polynomial
<1>7. /\ CrcStep({1, 2, 3, 5, 6}) = {2, 3, 4, 6, 7}
      /\ CrcStep({2, 3, 4, 6, 7}) = {0, 3, 7}
      /\ CrcStep({0, 3, 7}) = {0, 1, 5}
  BY DEF CrcStep, Shift, Xor, Polynomial
<1> QED
  BY <1>1, <1>2, <1>3, <1>4, <1>5, <1>6, <1>7 DEF Column

(* A set of bits as the number it stands for, and its parity.              *)
Bit(reg, b) == IF b \in reg THEN 1 ELSE 0

Number(reg) ==
  Bit(reg, 0) + 2 * Bit(reg, 1) + 4 * Bit(reg, 2) + 8 * Bit(reg, 3) + 16 * Bit(reg, 4)
    + 32 * Bit(reg, 5) + 64 * Bit(reg, 6) + 128 * Bit(reg, 7)

Odd(reg) ==
  (((((((0 \in reg) # (1 \in reg)) # (2 \in reg)) # (3 \in reg)) # (4 \in reg))
    # (5 \in reg)) # (6 \in reg)) # (7 \in reg)

LEMMA OddXor ==
  ASSUME NEW a \in Registers, NEW b \in Registers
  PROVE  Odd(Xor(a, b)) <=> Odd(a) # Odd(b)
BY DEF Odd, Xor

LEMMA ColumnsOdd == \A k \in 1..24 : Odd(Column[k])
BY DEF Odd, Column

LEMMA ColumnsDiffer == \A k, l \in 1..24 : Column[k] = Column[l] => k = l
<1> DEFINE number == <<1, 2, 4, 8, 16, 32, 64, 128, 49, 98, 196, 185, 67, 134, 61, 122, 244, 217, 131, 55, 110, 220, 137, 35>>
<1>1. \A k \in 1..24 : Number(Column[k]) = number[k]
  BY DEF Number, Bit, Column
<1>2. \A k, l \in 1..24 : number[k] = number[l] => k = l
  OBVIOUS
<1> HIDE DEF number
<1> QED
  BY <1>1, <1>2

----------------------------------------------------------------------------
(* The check is linear: what wrong bits do to it does not depend on the    *)
(* value.                                                                  *)
LEMMA StepLinear ==
  ASSUME NEW a \in Registers, NEW b \in Registers
  PROVE  CrcStep(Xor(a, b)) = Xor(CrcStep(a), CrcStep(b))
<1>1. Shift(Xor(a, b)) = Xor(Shift(a), Shift(b))
  BY DEF Shift, Xor, Registers
<1>2. 7 \in Xor(a, b) <=> (7 \in a) # (7 \in b)
  BY DEF Xor
<1> QED
  BY <1>1, <1>2 DEF CrcStep, Xor

LEMMA HalfLinear ==
  ASSUME NEW a \in Registers, NEW b \in Registers
  PROVE  /\ CrcHalf(a) \in Registers
         /\ CrcHalf(Xor(a, b)) = Xor(CrcHalf(a), CrcHalf(b))
BY StepTyped, StepLinear DEF CrcHalf

LEMMA XorTyped ==
  ASSUME NEW a \in Registers, NEW b \in Registers
  PROVE  Xor(a, b) \in Registers
BY DEF Xor, Registers

LEMMA XorRegroup ==
  ASSUME NEW a, NEW b, NEW c, NEW d
  PROVE  Xor(Xor(a, b), Xor(c, d)) = Xor(Xor(a, c), Xor(b, d))
BY DEF Xor

LEMMA ByteLinear ==
  ASSUME NEW a \in Registers, NEW b \in Registers, NEW c \in Registers, NEW d \in Registers
  PROVE  /\ CrcByte(a, c) \in Registers
         /\ CrcByte(Xor(a, b), Xor(c, d)) = Xor(CrcByte(a, c), CrcByte(b, d))
<1>1. Xor(a, c) \in Registers /\ Xor(b, d) \in Registers
  BY XorTyped
<1>2. Xor(Xor(a, b), Xor(c, d)) = Xor(Xor(a, c), Xor(b, d))
  BY XorRegroup
<1> QED
  BY <1>1, <1>2, HalfLinear DEF CrcByte

(* The part of a frame's error in one of its bytes, and what the errors do *)
(* to the check.                                                           *)
Part(errors, n) == {b - n : b \in errors \cap (n..n + 7)}

Syndrome(errors) ==
  Xor(CrcByte(CrcByte({}, Part(errors, 16)), Part(errors, 8)), Part(errors, 0))

LEMMA PartTyped ==
  ASSUME NEW errors \in SUBSET Int, NEW n \in Nat
  PROVE  Part(errors, n) \in Registers
BY DEF Part, Registers

LEMMA PartXor ==
  ASSUME NEW f \in SUBSET Int, NEW g \in SUBSET Int, NEW n \in Nat
  PROVE  Part(Xor(f, g), n) = Xor(Part(f, n), Part(g, n))
<1>1. \A h \in SUBSET Int : \A x \in Int : x \in Part(h, n) <=> x + n \in h /\ x \in 0..7
  BY DEF Part
<1>2. Xor(f, g) \in SUBSET Int
  BY DEF Xor
<1>3. \A x \in Int : x \in Part(Xor(f, g), n) <=> x \in Xor(Part(f, n), Part(g, n))
  BY <1>1, <1>2 DEF Xor
<1> QED
  BY <1>2, <1>3, PartTyped DEF Xor, Registers

LEMMA SyndromeLinear ==
  ASSUME NEW f \in SUBSET Int, NEW g \in SUBSET Int
  PROVE  /\ Syndrome(f) \in Registers
         /\ Syndrome(Xor(f, g)) = Xor(Syndrome(f), Syndrome(g))
<1>1. \A n \in {0, 8, 16} :
        /\ Part(f, n) \in Registers /\ Part(g, n) \in Registers
        /\ Part(Xor(f, g), n) = Xor(Part(f, n), Part(g, n))
  BY PartTyped, PartXor
<1>2. {} \in Registers /\ Xor({}, {}) = {}
  BY DEF Registers, Xor
<1> DEFINE high(h) == CrcByte({}, Part(h, 16))
           low(h)  == CrcByte(high(h), Part(h, 8))
<1>3. high(f) \in Registers /\ high(g) \in Registers /\ high(Xor(f, g)) = Xor(high(f), high(g))
  <2>1. high(Xor(f, g)) = CrcByte(Xor({}, {}), Xor(Part(f, 16), Part(g, 16)))
    BY <1>1, <1>2
  <2> QED
    BY <1>1, <1>2, <2>1, ByteLinear
<1> HIDE DEF high
<1>4. low(f) \in Registers /\ low(g) \in Registers /\ low(Xor(f, g)) = Xor(low(f), low(g))
  BY <1>1, <1>3, ByteLinear
<1> HIDE DEF low
<1>5. /\ Syndrome(f) = Xor(low(f), Part(f, 0)) /\ Syndrome(g) = Xor(low(g), Part(g, 0))
      /\ Syndrome(Xor(f, g)) = Xor(low(Xor(f, g)), Part(Xor(f, g), 0))
  BY DEF Syndrome, low, high
<1> QED
  BY <1>1, <1>4, <1>5, XorTyped, XorRegroup

(* A single wrong bit does what its column says.                           *)
LEMMA SyndromeOfBit ==
  ASSUME NEW b \in 0..23
  PROVE  Syndrome({b}) = Column[b + 1]
<1>1. \A a : Xor(a, {}) = a /\ Xor({}, a) = a
  BY DEF Xor
<1>2. CrcStep({}) = {}
  BY DEF CrcStep, Shift
<1>3. CrcByte({}, {}) = {}
  BY <1>1, <1>2 DEF CrcByte, CrcHalf
<1>4. ASSUME NEW k \in 1..16 PROVE CrcByte(Column[k], {}) = Column[k + 8]
  <2>1. /\ CrcStep(Column[k]) = Column[k + 1] /\ CrcStep(Column[k + 1]) = Column[k + 2]
        /\ CrcStep(Column[k + 2]) = Column[k + 3] /\ CrcStep(Column[k + 3]) = Column[k + 4]
        /\ CrcStep(Column[k + 4]) = Column[k + 5] /\ CrcStep(Column[k + 5]) = Column[k + 6]
        /\ CrcStep(Column[k + 6]) = Column[k + 7] /\ CrcStep(Column[k + 7]) = Column[k + 8]
    BY ColumnsStep
  <2> QED
    BY <1>1, <2>1 DEF CrcByte, CrcHalf
<1>5. \A a : CrcByte({}, a) = CrcByte(a, {})
  BY <1>1 DEF CrcByte
<1>6. CASE b \in 0..7
  <2>1. Part({b}, 0) = {b} /\ Part({b}, 8) = {} /\ Part({b}, 16) = {}
    <3>1. {b} \cap (0..0 + 7) = {b}
      <4>1. b \in 0..0 + 7
        BY <1>6
      <4> QED
        BY <4>1, Zenon
    <3>2. {b} \cap (8..8 + 7) = {}
      BY <1>6
    <3>3. {b} \cap (16..16 + 7) = {}
      BY <1>6
    <3> QED
      BY <3>1, <3>2, <3>3 DEF Part
  <2>2. {b} = Column[b + 1]
    BY <1>6, ColumnsStep
  <2>3. Syndrome({b}) = Xor(CrcByte(CrcByte({}, {}), {}), {b})
    BY <2>1 DEF Syndrome
  <2> QED
    BY <1>1, <1>3, <2>2, <2>3
<1>7. CASE b \in 8..15
  <2>1. Part({b}, 0) = {} /\ Part({b}, 8) = {b - 8} /\ Part({b}, 16) = {}
    <3>1. {b} \cap (0..0 + 7) = {}
      BY <1>7
    <3>2. {b} \cap (8..8 + 7) = {b}
      <4>1. b \in 8..8 + 7
        BY <1>7
      <4> QED
        BY <4>1, Zenon
    <3>3. {b} \cap (16..16 + 7) = {}
      BY <1>7
    <3> QED
      BY <3>1, <3>2, <3>3 DEF Part
  <2>2. {b - 8} = Column[b - 7] /\ CrcByte(Column[b - 7], {}) = Column[b + 1]
    BY <1>4, <1>7, ColumnsStep
  <2>3. Syndrome({b}) = Xor(CrcByte(CrcByte({}, {}), {b - 8}), {})
    BY <2>1 DEF Syndrome
  <2> QED
    BY <1>1, <1>3, <1>5, <2>2, <2>3
<1>8. CASE b \in 16..23
  <2>1. Part({b}, 0) = {} /\ Part({b}, 8) = {} /\ Part({b}, 16) = {b - 16}
    <3>1. {b} \cap (0..0 + 7) = {}
      BY <1>8
    <3>2. {b} \cap (8..8 + 7) = {}
      BY <1>8
    <3>3. {b} \cap (16..16 + 7) = {b}
      <4>1. b \in 16..16 + 7
        BY <1>8
      <4> QED
        BY <4>1, Zenon
    <3> QED
      BY <3>1, <3>2, <3>3 DEF Part
  <2>2. /\ {b - 16} = Column[b - 15] /\ CrcByte(Column[b - 15], {}) = Column[b - 7]
        /\ CrcByte(Column[b - 7], {}) = Column[b + 1]
    BY <1>4, <1>8, ColumnsStep
  <2>3. Syndrome({b}) = Xor(CrcByte(CrcByte({}, {b - 16}), {}), {})
    BY <2>1 DEF Syndrome
  <2> QED
    BY <1>1, <1>5, <2>2, <2>3
<1> QED
  BY <1>6, <1>7, <1>8

(* One, two or three wrong bits leave a trace: the number of bits of an    *)
(* odd error stays odd, and no two columns are equal.                      *)
LEMMA ErrorsShow ==
  ASSUME NEW a \in 0..23, NEW b \in 0..23, NEW c \in 0..23
  PROVE  /\ Syndrome({a}) # {}
         /\ a # b => Syndrome({a, b}) # {}
         /\ a # b /\ b # c /\ a # c => Syndrome({a, b, c}) # {}
<1> DEFINE A == Syndrome({a})
           B == Syndrome({b})
           C == Syndrome({c})
<1>1. A = Column[a + 1] /\ B = Column[b + 1] /\ C = Column[c + 1]
  BY SyndromeOfBit
<1>2. /\ A \in Registers /\ Odd(A)
      /\ B \in Registers /\ Odd(B)
      /\ C \in Registers /\ Odd(C)
  BY <1>1, ColumnsStep, ColumnsOdd
<1>3. a # b => A # B
  <2> HIDE DEF A, B
  <2> QED
    BY <1>1, ColumnsDiffer
<1>4. ~Odd({})
  BY DEF Odd
<1>5. a # b => {a, b} = Xor({a}, {b}) /\ Syndrome({a, b}) = Xor(A, B)
  BY SyndromeLinear DEF Xor
<1>6. a # b /\ b # c /\ a # c =>
        {a, b, c} = Xor({a, b}, {c}) /\ Syndrome({a, b, c}) = Xor(Syndrome({a, b}), C)
  <2>1. a # b /\ b # c /\ a # c => {a, b, c} = Xor({a, b}, {c})
    BY DEF Xor
  <2>2. {a, b} \in SUBSET Int /\ {c} \in SUBSET Int
    OBVIOUS
  <2> QED
    BY <2>1, <2>2, SyndromeLinear
<1> HIDE DEF A, B, C
<1>7. A # B => Xor(A, B) # {}
  BY DEF Xor
<1>8. ~Odd(Xor(A, B)) /\ Xor(A, B) \in Registers
  BY <1>2, OddXor, XorTyped
<1>9. Odd(Xor(Xor(A, B), C))
  BY <1>2, <1>8, OddXor
<1>10. Syndrome({a}) # {}
  BY <1>2, <1>4 DEF A
<1> QED
  BY <1>3, <1>4, <1>5, <1>6, <1>7, <1>9, <1>10

LEMMA HighHas ==
  ASSUME NEW w \in SUBSET Int
  PROVE  /\ HighByte(w) \subseteq Int
         /\ \A x \in Int : x \in HighByte(w) <=> x + 8 \in w /\ x \in 0..7
BY DEF HighByte

(* A frame with errors is accepted exactly if they leave no trace.         *)
LEMMA CheckedBySyndrome ==
  ASSUME NEW word \in SUBSET (0..15), NEW errors \in SUBSET (0..23)
  PROVE  FrameChecked(word, errors) <=> (Syndrome(errors) = {} <=> errors = {})
<1> DEFINE valueErr == {b - 8 : b \in errors \cap (8..23)}
           wrong == Xor(word, valueErr)
           high == HighByte(word)
           low  == LowByte(word)
           errorHigh == Part(errors, 16)
           errorLow  == Part(errors, 8)
           trace == CrcByte(CrcByte({}, errorHigh), errorLow)
           crcErr == Part(errors, 0)
<1>1. high \in Registers /\ low \in Registers
  BY DEF Registers, HighByte, LowByte
<1>2. errorHigh \in Registers /\ errorLow \in Registers /\ crcErr \in Registers
  BY PartTyped
<1>3. \A x \in Int : x \in wrong <=> (x \in word) # (x + 8 \in errors /\ x + 8 \in 8..23)
  BY DEF Xor
<1>4. wrong \in SUBSET Int
  <2>1. valueErr \subseteq Int
    OBVIOUS
  <2> HIDE DEF valueErr
  <2> QED
    BY <2>1 DEF Xor
<1>5. HighByte(wrong) = Xor(high, errorHigh)
  <2>1. HighByte(wrong) \subseteq Int /\ high \subseteq Int /\ errorHigh \subseteq Int
    <3> HIDE DEF wrong
    <3> QED
      BY <1>1, <1>2, <1>4, HighHas DEF Registers
  <2>2. ASSUME NEW x \in Int PROVE x \in HighByte(wrong) <=> x \in Xor(high, errorHigh)
    <3>1. x \in HighByte(wrong) <=> x + 8 \in wrong /\ x \in 0..7
      BY <1>4, HighHas
    <3>2. x \in high <=> x + 8 \in word /\ x \in 0..7
      BY HighHas
    <3>3. x \in errorHigh <=> x + 16 \in errors /\ x \in 0..7
      BY DEF Part
    <3>4. (x + 8) + 8 = x + 16 /\ x + 8 \in Int
      OBVIOUS
    <3> HIDE DEF wrong, high, errorHigh
    <3> QED
      BY <1>3, <3>1, <3>2, <3>3, <3>4 DEF Xor
  <2> HIDE DEF wrong, high, errorHigh
  <2> QED
    BY <2>1, <2>2 DEF Xor
<1>6. LowByte(wrong) = Xor(low, errorLow)
  <2>1. LowByte(wrong) \subseteq Int /\ low \subseteq Int /\ errorLow \subseteq Int
    BY <1>1, <1>2 DEF LowByte, Registers
  <2>2. ASSUME NEW x \in Int PROVE x \in LowByte(wrong) <=> x \in Xor(low, errorLow)
    <3>1. x \in LowByte(wrong) <=> x \in wrong /\ x \in 0..7
      BY DEF LowByte
    <3>2. x \in low <=> x \in word /\ x \in 0..7
      BY DEF LowByte
    <3>3. x \in errorLow <=> x + 8 \in errors /\ x \in 0..7
      BY DEF Part
    <3> HIDE DEF wrong, low, errorLow
    <3> QED
      BY <1>3, <3>1, <3>2, <3>3 DEF Xor
  <2> HIDE DEF wrong, low, errorLow
  <2> QED
    BY <2>1, <2>2 DEF Xor
<1>7. crcErr = errors \cap (0..7)
  <2>1. ASSUME NEW x \in Int PROVE x \in crcErr <=> x \in errors \cap (0..7)
    BY DEF Part
  <2> QED
    BY <1>2, <2>1 DEF Registers
<1> HIDE DEF wrong, high, low, errorHigh, errorLow, crcErr
<1>8. Crc8(HighByte(wrong), LowByte(wrong)) = Xor(Crc8(high, low), trace)
  <2>1. CrcInit \in Registers /\ {} \in Registers /\ Xor(CrcInit, {}) = CrcInit
    BY DEF CrcInit, Registers, Xor
  <2>2. /\ CrcByte(CrcInit, high) \in Registers /\ CrcByte({}, errorHigh) \in Registers
        /\ CrcByte(CrcInit, HighByte(wrong)) = Xor(CrcByte(CrcInit, high), CrcByte({}, errorHigh))
    BY <1>1, <1>2, <1>5, <2>1, ByteLinear
  <2> QED
    BY <1>1, <1>2, <1>6, <2>2, ByteLinear DEF Crc8
<1> HIDE DEF trace
<1>9. Crc8(high, low) = Remainder(word)
  BY CrcIsRemainder DEF high, low
<1>10. Syndrome(errors) = Xor(trace, crcErr)
  BY DEF Syndrome, trace, errorHigh, errorLow, crcErr
<1>11. FrameChecked(word, errors) <=>
         (Xor(Remainder(word), trace) = Xor(Remainder(word), crcErr) <=> errors = {})
  BY <1>7, <1>8, <1>9 DEF FrameChecked, AcceptsHalf, wrong
<1>12. \A r, s, t : Xor(r, s) = Xor(r, t) <=> Xor(s, t) = {}
  BY DEF Xor
<1> QED
  BY <1>10, <1>11, <1>12

(* A set of at most three is empty or has one, two or three elements.      *)
LEMMA AtMostThree ==
  ASSUME NEW S, IsFiniteSet(S), Cardinality(S) <= 3
  PROVE  \/ S = {}
         \/ \E a \in S : S = {a}
         \/ \E a, b \in S : a # b /\ S = {a, b}
         \/ \E a, b, c \in S : a # b /\ b # c /\ a # c /\ S = {a, b, c}
<1>1. Cardinality(S) \in Nat
  BY FS_CardinalityType
<1>2. ASSUME NEW a \in S
      PROVE  IsFiniteSet(S \ {a}) /\ Cardinality(S \ {a}) = Cardinality(S) - 1
  BY FS_RemoveElement
<1>3. ASSUME NEW a \in S, NEW b \in S, a # b
      PROVE  /\ IsFiniteSet((S \ {a}) \ {b})
             /\ Cardinality((S \ {a}) \ {b}) = Cardinality(S) - 2
  <2> DEFINE T == S \ {a}
  <2>1. IsFiniteSet(T) /\ Cardinality(T) = Cardinality(S) - 1 /\ b \in T
    BY <1>2, <1>3
  <2> HIDE DEF T
  <2>2. IsFiniteSet(T \ {b}) /\ Cardinality(T \ {b}) = Cardinality(T) - 1
    BY <2>1, FS_RemoveElement
  <2> QED
    BY <1>1, <2>1, <2>2 DEF T
<1>4. ASSUME NEW a \in S, NEW b \in S, NEW c \in S, a # b, b # c, a # c
      PROVE  S = {a, b, c}
  <2> DEFINE T == (S \ {a}) \ {b}
  <2>1. IsFiniteSet(T) /\ Cardinality(T) = Cardinality(S) - 2 /\ c \in T
    BY <1>3, <1>4
  <2> HIDE DEF T
  <2>2. IsFiniteSet(T \ {c}) /\ Cardinality(T \ {c}) = Cardinality(T) - 1
    BY <2>1, FS_RemoveElement
  <2>3. Cardinality(T \ {c}) \in Nat
    BY <2>2, FS_CardinalityType
  <2>4. Cardinality(T \ {c}) = 0
    BY <1>1, <2>1, <2>2, <2>3
  <2>5. T \ {c} = {}
    BY <2>2, <2>4, FS_EmptySet
  <2> QED
    BY <2>5 DEF T
<1>5. ASSUME NEW a \in S, NEW b \in S, a # b, ~\E c \in S : a # c /\ b # c
      PROVE  S = {a, b}
  BY <1>5
<1>6. ASSUME NEW a \in S, ~\E b \in S : a # b
      PROVE  S = {a}
  BY <1>6
<1> SUFFICES ASSUME NEW a \in S
             PROVE  \/ S = {a}
                    \/ \E b \in S : a # b /\ S = {a, b}
                    \/ \E b, c \in S : a # b /\ b # c /\ a # c /\ S = {a, b, c}
  BY Zenon
<1>7. CASE \E b \in S : a # b
  <2> PICK b \in S : a # b
    BY <1>7
  <2>1. CASE \E c \in S : a # c /\ b # c
    BY <1>4, <2>1
  <2>2. CASE ~\E c \in S : a # c /\ b # c
    BY <1>5, <2>2
  <2> QED
    BY <2>1, <2>2
<1> QED
  BY <1>6, <1>7

(* sht31_crc8 computes the CRC of the data sheet, so that it accepts every *)
(* undisturbed value; and it refuses every value with one, two or three    *)
(* wrong bits, in the value or in its CRC.                                 *)
THEOREM FrameAlwaysChecked ==
  ASSUME NEW word \in SUBSET (0..15), NEW errors \in SUBSET (0..23), Cardinality(errors) <= 3
  PROVE  FrameChecked(word, errors)
<1>1. IsFiniteSet(errors)
  <2>1. 0 \in Int /\ 23 \in Int
    OBVIOUS
  <2>2. IsFiniteSet(0..23)
    BY <2>1, FS_Interval, Zenon
  <2> QED
    BY <2>2, FS_Subset
<1>2. Syndrome({}) = {}
  <2>1. Syndrome({}) = Syndrome(Xor({}, {}))
    BY DEF Xor
  <2>2. Syndrome(Xor({}, {})) = Xor(Syndrome({}), Syndrome({}))
    BY SyndromeLinear
  <2> QED
    BY <2>1, <2>2 DEF Xor
<1>3. errors # {} => Syndrome(errors) # {}
  <2>1. \/ errors = {}
        \/ \E a \in errors : errors = {a}
        \/ \E a, b \in errors : a # b /\ errors = {a, b}
        \/ \E a, b, c \in errors : a # b /\ b # c /\ a # c /\ errors = {a, b, c}
    BY <1>1, AtMostThree
  <2> QED
    BY <2>1, ErrorsShow, Zenon
<1> QED
  BY <1>2, <1>3, CheckedBySyndrome

----------------------------------------------------------------------------
(* The two forms of a role claim are the names that are meant.             *)
LEMMA RoleDecided ==
  ASSUME NEW claims, NEW role, ClaimsTyped(claims)
  PROVE  RolesClaimContains(claims.roles, role) <=> Grants(claims.roles, role)
<1> DEFINE name(k) == claims.roles[k].name
<1>1. ASSUME NEW k \in DOMAIN claims.roles
      PROVE  IsGlobal(name(k)) \/ IsProjectSpecific(name(k))
               <=> name(k).prefix /\ name(k).suffix /\ name(k).extra \notin {0}
  <2>1. name(k).extra \in Int /\ name(k).extra >= -1
    BY DEF ClaimsTyped
  <2>2. name(k).extra \notin {0} <=> name(k).extra = -1 \/ name(k).extra > 0
    BY <2>1
  <2> HIDE DEF name
  <2> QED
    BY <2>1, <2>2 DEF IsGlobal, IsProjectSpecific
<1> QED
  BY <1>1, Zenon DEF RolesClaimContains, Grants

(* A time that is not yet reached is one that no clock within the skew has *)
(* reached.                                                                *)
LEMMA StartDecided ==
  ASSUME NEW time, NEW now \in Int
  PROVE  NotYet(time, now) <=> ~Reached(time, now)
<1>1. CASE time \in Int
  <2>1. Reached(time, now) <=> time <= 2 * (now + Skew)
    <3>1. now + Skew \in (now - Skew)..(now + Skew)
      BY ClaimsAssumption
    <3>2. \A t \in (now - Skew)..(now + Skew) : 2 * t <= 2 * (now + Skew)
      BY ClaimsAssumption
    <3>3. ASSUME NEW t \in (now - Skew)..(now + Skew), time <= 2 * t
          PROVE  time <= 2 * (now + Skew)
      BY <1>1, <3>2, <3>3, ClaimsAssumption
    <3>4. time # Missing
      BY <1>1, ClaimsAssumption
    <3> QED
      BY <1>1, <3>1, <3>3, <3>4 DEF Reached
  <2> QED
    BY <1>1, <2>1, ClaimsAssumption DEF NotYet, InFuture
<1>2. CASE time \notin Int
  BY <1>2 DEF NotYet, Reached
<1> QED
  BY <1>1, <1>2

(* A token that has expired stays expired, one whose time has come stays   *)
(* so.                                                                     *)
LEMMA TimeMonotone ==
  ASSUME NEW time, NEW now \in Int, NEW later \in Int, now <= later
  PROVE  /\ Expired(time, now) => Expired(time, later)
         /\ ~NotYet(time, now) => ~NotYet(time, later)
BY ClaimsAssumption DEF Expired, NotYet, InFuture

(* The claims decision is the intended one for every clock skew, time,     *)
(* audience and set of role claims.                                        *)
THEOREM ClaimsAlwaysDecided ==
  ASSUME NEW synced \in BOOLEAN, NEW config, NEW claims, NEW now \in Int,
         ClaimsTyped(claims)
  PROVE  ClaimsDecided(synced, config, claims, now)
<1> DEFINE verdict(t) == ValidateClaims(synced, config, claims, t)
<1> DEFINE timely(t)  == ~Expired(claims.exp, t) /\ ~NotYet(claims.nbf, t) /\ ~NotYet(claims.iat, t)
<1> DEFINE others == /\ synced /\ claims.object /\ claims.iss = config.issuer
                     /\ AudienceContains(claims.aud, config.audience)
                     /\ RolesClaimContains(claims.roles, config.role)
<1>1. ASSUME NEW t \in Int PROVE verdict(t) = "OK" <=> others /\ timely(t)
  BY DEF ValidateClaims
<1>2. verdict(now) = "OK" <=>
        /\ synced /\ claims.object /\ claims.iss = config.issuer
        /\ AudienceContains(claims.aud, config.audience)
        /\ Reached(claims.nbf, now) /\ Reached(claims.iat, now) /\ Lasts(claims.exp, now)
        /\ Grants(claims.roles, config.role)
  <2>1. Expired(claims.exp, now) <=> ~Lasts(claims.exp, now)
    BY DEF Expired, Lasts
  <2> HIDE DEF verdict
  <2> QED
    BY <1>1, <2>1, StartDecided, RoleDecided
<1>3. verdict(now) = "NOT_READY" <=> ~synced
  BY DEF ValidateClaims
<1>4. verdict(now) = "FORBIDDEN" => claims.iss = config.issuer
  BY DEF ValidateClaims
<1>5. ASSUME NEW later \in now..now + 2 * Skew, NEW last \in now..now + 2 * Skew
      PROVE  /\ Expired(claims.exp, now) => verdict(later) # "OK"
             /\ verdict(now) = "OK" /\ verdict(last) = "OK" /\ later <= last
                  => verdict(later) = "OK"
  <2>1. later \in Int /\ last \in Int /\ now <= later
    BY ClaimsAssumption
  <2>2. Expired(claims.exp, now) => ~timely(later)
    BY <2>1, TimeMonotone
  <2>3. timely(now) /\ timely(last) /\ later <= last => timely(later)
    BY <2>1, TimeMonotone
  <2> HIDE DEF verdict, timely, others
  <2> QED
    BY <1>1, <2>1, <2>2, <2>3
<1> QED
  BY <1>2, <1>3, <1>4, <1>5 DEF ClaimsDecided

----------------------------------------------------------------------------
LEMMA FunctionIsSeq ==
  ASSUME NEW S, NEW n \in Nat, NEW f \in [1..n -> S]
  PROVE  f \in Seq(S) /\ Len(f) = n
<1>1. f \in Seq(S)
  BY SeqDef
<1>2. Len(f) \in Nat /\ DOMAIN f = 1..Len(f)
  BY <1>1, LenProperties
<1>3. 1..Len(f) = 1..n
  BY <1>2
<1> QED
  BY <1>1, <1>2, <1>3

(* The two alphabets are one to one, and padding is in neither.            *)
LEMMA CharDigit ==
  ASSUME NEW d \in 0..63
  PROVE  /\ Char(d) \in Allowed
         /\ Standard(Char(d)) # Pad
         /\ Digit(Standard(Char(d))) = d
<1> USE DEF Allowed, Alphanumerics, Plus, Dash, Slash, Line, Pad
<1>1. CASE d < 26
  <2>1. Char(d) = d + 65 /\ Standard(d + 65) = d + 65
    BY <1>1 DEF Char, Standard
  <2> QED
    BY <1>1, <2>1 DEF Digit
<1>2. CASE d >= 26 /\ d < 52
  <2>1. Char(d) = d + 71 /\ Standard(d + 71) = d + 71
    BY <1>2 DEF Char, Standard
  <2> QED
    BY <1>2, <2>1 DEF Digit
<1>3. CASE d >= 52 /\ d < 62
  <2>1. Char(d) = d - 4 /\ Standard(d - 4) = d - 4
    BY <1>3 DEF Char, Standard
  <2> QED
    BY <1>3, <2>1 DEF Digit
<1>4. CASE d = 62
  BY <1>4 DEF Char, Standard, Digit
<1>5. CASE d = 63
  BY <1>5 DEF Char, Standard, Digit
<1> QED
  BY <1>1, <1>2, <1>3, <1>4, <1>5

EncodedLen(n) == (8 * n + 5) \div 6

(* The lengths on the way, by the remainder of the number of bytes.        *)
LEMMA EncodedLengths ==
  ASSUME NEW n \in Nat
  PROVE  LET m == EncodedLen(n)
             groups == (n + 2) \div 3
         IN /\ m \in Nat /\ m % 4 # 1 /\ (m = 0 <=> n = 0)
            /\ PaddedLen(m) = 4 * groups /\ groups \in Nat
            /\ m <= PaddedLen(m) /\ n <= 3 * groups
            /\ 3 * groups - (PaddedLen(m) - m) = n
            /\ m = 4 * groups \/ (m = 4 * groups - 1 /\ n = 3 * groups - 1)
                              \/ (m = 4 * groups - 2 /\ n = 3 * groups - 2)
            /\ m = 4 * groups => n = 3 * groups
<1> DEFINE q == n \div 3
<1>1. q \in Nat /\ (n = 3 * q \/ n = 3 * q + 1 \/ n = 3 * q + 2)
  OBVIOUS
<1> HIDE DEF q
<1>2. CASE n = 3 * q
  <2>1. EncodedLen(n) = 4 * q /\ (n + 2) \div 3 = q
    BY <1>1, <1>2 DEF EncodedLen
  <2> QED
    BY <1>1, <1>2, <2>1 DEF PaddedLen
<1>3. CASE n = 3 * q + 1
  <2>1. EncodedLen(n) = 4 * q + 2 /\ (n + 2) \div 3 = q + 1
    BY <1>1, <1>3 DEF EncodedLen
  <2> QED
    BY <1>1, <1>3, <2>1 DEF PaddedLen
<1>4. CASE n = 3 * q + 2
  <2>1. EncodedLen(n) = 4 * q + 3 /\ (n + 2) \div 3 = q + 1
    BY <1>1, <1>4 DEF EncodedLen
  <2> QED
    BY <1>1, <1>4, <2>1 DEF PaddedLen
<1> QED
  BY <1>1, <1>2, <1>3, <1>4

(* What is padded is decoded to three bytes for each four characters, less *)
(* the padding.                                                            *)
LEMMA PaddedShape ==
  ASSUME NEW s \in Seq(Allowed), PaddedLen(Len(s)) \in Nat, Len(s) <= PaddedLen(Len(s))
  PROVE  /\ Len(Padded(s)) = PaddedLen(Len(s))
         /\ \A k \in 1..PaddedLen(Len(s)) :
              Padded(s)[k] = IF k <= Len(s) THEN Standard(s[k]) ELSE Pad
         /\ Cardinality({k \in DOMAIN Padded(s) : Padded(s)[k] = Pad}) = PaddedLen(Len(s)) - Len(s)
<1> DEFINE m == Len(s)
           p == PaddedLen(m)
<1>1. m \in Nat /\ s \in [1..m -> Allowed]
  BY LenProperties
<1>2. \A ch \in Allowed : Standard(ch) # Pad /\ Standard(ch) \in Int
  <2> SUFFICES ASSUME NEW ch \in Allowed PROVE Standard(ch) # Pad /\ Standard(ch) \in Int
    OBVIOUS
  <2>1. ch \in Int /\ ch # 61
    BY DEF Allowed, Alphanumerics, Dash, Line
  <2> QED
    BY <2>1 DEF Standard, Plus, Dash, Slash, Line, Pad
<1> HIDE DEF m, p
<1>3. Padded(s) = [k \in 1..p |-> IF k <= m THEN Standard(s[k]) ELSE Pad]
  BY DEF Padded, m, p
<1>4. Padded(s) \in [1..p -> Int]
  BY <1>1, <1>2, <1>3 DEF Pad
<1>5. p \in Nat /\ m <= p
  BY DEF m, p
<1>6. Len(Padded(s)) = p
  BY <1>4, <1>5, FunctionIsSeq
<1>7. {k \in DOMAIN Padded(s) : Padded(s)[k] = Pad} = (m + 1)..p
  <2>1. ASSUME NEW k \in 1..p PROVE Padded(s)[k] = Pad <=> k \in (m + 1)..p
    BY <1>1, <1>2, <1>3, <1>5
  <2> QED
    BY <1>1, <1>4, <1>5, <2>1
<1>8. Cardinality((m + 1)..p) = p - m
  <2>1. m + 1 \in Int /\ p \in Int
    BY <1>1, <1>5
  <2> DEFINE a == m + 1
  <2>2. Cardinality(a..p) = IF a > p THEN 0 ELSE p - a + 1
    <3> HIDE DEF a
    <3> QED
      BY <2>1, FS_Interval DEF a
  <2> QED
    BY <1>1, <1>5, <2>2
<1> QED
  BY <1>3, <1>6, <1>7, <1>8 DEF m, p

(* The decoder accepts what has a possible length and only characters of   *)
(* the alphabet.                                                           *)
LEMMA DecodeAllowed ==
  ASSUME NEW s \in Seq(Allowed), Len(s) # 0, Len(s) % 4 # 1,
         PaddedLen(Len(s)) \in Nat, Len(s) <= PaddedLen(Len(s))
  PROVE  Decode(s) = [k \in 1..(3 * (PaddedLen(Len(s)) \div 4) - (PaddedLen(Len(s)) - Len(s))) |->
                        ByteOfGroup(GroupOfDigits(Padded(s), (k - 1) \div 3), k - 1)]
<1>1. ~\E k \in DOMAIN s : s[k] \notin Allowed
  BY LenProperties
<1>2. Decode(s) = DecodePadded(Padded(s))
  BY <1>1 DEF Decode
<1> QED
  BY <1>2, PaddedShape DEF DecodePadded

LEMMA GroupHasBytes ==
  ASSUME NEW bytes \in Seq(0..255), NEW g \in Nat
  PROVE  /\ ByteOrZero(bytes, 3 * g + 1) \in 0..255
         /\ ByteOrZero(bytes, 3 * g + 2) \in 0..255
         /\ ByteOrZero(bytes, 3 * g + 3) \in 0..255
<1>1. Len(bytes) \in Nat /\ \A k \in 1..Len(bytes) : bytes[k] \in 0..255
  BY LenProperties
<1>2. ASSUME NEW k \in Nat, k > 0 PROVE ByteOrZero(bytes, k) \in 0..255
  BY <1>1, <1>2 DEF ByteOrZero
<1> QED
  BY <1>2

(* Four digits hold a group of three bytes; without its last bytes a group *)
(* needs fewer.                                                            *)
LEMMA GroupOfBytesCut ==
  ASSUME NEW bytes \in Seq(0..255), NEW g \in Nat
  PROVE  LET w == GroupOfBytes(bytes, g)
         IN /\ DigitOfGroup(w, 0) \in 0..63 /\ DigitOfGroup(w, 1) \in 0..63
            /\ DigitOfGroup(w, 2) \in 0..63 /\ DigitOfGroup(w, 3) \in 0..63
            /\ w = DigitOfGroup(w, 0) * 262144 + DigitOfGroup(w, 1) * 4096
                     + DigitOfGroup(w, 2) * 64 + DigitOfGroup(w, 3)
            /\ ByteOrZero(bytes, 3 * g + 3) = 0 => DigitOfGroup(w, 3) = 0
            /\ ByteOrZero(bytes, 3 * g + 2) = 0 /\ ByteOrZero(bytes, 3 * g + 3) = 0
                 => DigitOfGroup(w, 2) = 0
            /\ ByteOfGroup(w, 0) = ByteOrZero(bytes, 3 * g + 1)
            /\ ByteOfGroup(w, 1) = ByteOrZero(bytes, 3 * g + 2)
            /\ ByteOfGroup(w, 2) = ByteOrZero(bytes, 3 * g + 3)
<1> DEFINE w == GroupOfBytes(bytes, g)
           x == ByteOrZero(bytes, 3 * g + 1)
           y == ByteOrZero(bytes, 3 * g + 2)
           z == ByteOrZero(bytes, 3 * g + 3)
<1>1. x \in 0..255 /\ y \in 0..255 /\ z \in 0..255
  BY GroupHasBytes
<1>2. w = x * 65536 + y * 256 + z
  BY DEF GroupOfBytes
<1>3. /\ DigitOfGroup(w, 0) = w \div 262144 /\ DigitOfGroup(w, 1) = (w \div 4096) % 64
      /\ DigitOfGroup(w, 2) = (w \div 64) % 64 /\ DigitOfGroup(w, 3) = w % 64
  BY DEF DigitOfGroup
<1>4. /\ ByteOfGroup(w, 0) = w \div 65536 /\ ByteOfGroup(w, 1) = (w \div 256) % 256
      /\ ByteOfGroup(w, 2) = w % 256
  BY DEF ByteOfGroup
<1> HIDE DEF w, x, y, z
<1>5. /\ w \div 262144 \in 0..63 /\ (w \div 4096) % 64 \in 0..63
      /\ (w \div 64) % 64 \in 0..63 /\ w % 64 \in 0..63
      /\ w = (w \div 262144) * 262144 + ((w \div 4096) % 64) * 4096
               + ((w \div 64) % 64) * 64 + (w % 64)
      /\ z = 0 => w % 64 = 0
      /\ y = 0 /\ z = 0 => (w \div 64) % 64 = 0
      /\ w \div 65536 = x /\ (w \div 256) % 256 = y /\ w % 256 = z
  <2>1. w \in Nat /\ w < 16777216
    BY <1>1, <1>2
  <2>2. w \div 65536 = x /\ (w \div 256) % 256 = y /\ w % 256 = z
    BY <1>1, <1>2
  <2>3. /\ w \div 262144 \in 0..63 /\ (w \div 4096) % 64 \in 0..63
        /\ (w \div 64) % 64 \in 0..63 /\ w % 64 \in 0..63
    BY <2>1
  <2>4. w = (w \div 262144) * 262144 + ((w \div 4096) % 64) * 4096 + ((w \div 64) % 64) * 64 + (w % 64)
    <3>1. w = (w \div 64) * 64 + (w % 64)
      BY <2>1
    <3>2. w \div 64 = (w \div 4096) * 64 + ((w \div 64) % 64)
      BY <2>1
    <3>3. w \div 4096 = (w \div 262144) * 64 + ((w \div 4096) % 64)
      BY <2>1
    <3>4. w \div 64 \in Nat /\ w \div 4096 \in Nat /\ w \div 262144 \in Nat
      BY <2>1
    <3> QED
      BY <2>1, <2>3, <3>1, <3>2, <3>3, <3>4
  <2>5. z = 0 => w % 64 = 0
    BY <1>1, <1>2
  <2>6. y = 0 /\ z = 0 => (w \div 64) % 64 = 0
    BY <1>1, <1>2
  <2> QED
    BY <2>2, <2>3, <2>4, <2>5, <2>6
<1>6. /\ DigitOfGroup(w, 0) \in 0..63 /\ DigitOfGroup(w, 1) \in 0..63
      /\ DigitOfGroup(w, 2) \in 0..63 /\ DigitOfGroup(w, 3) \in 0..63
  BY <1>3, <1>5
<1>7. w = DigitOfGroup(w, 0) * 262144 + DigitOfGroup(w, 1) * 4096
            + DigitOfGroup(w, 2) * 64 + DigitOfGroup(w, 3)
  BY <1>3, <1>5
<1> QED
  BY <1>3, <1>4, <1>5, <1>6, <1>7 DEF w, x, y, z

LEMMA GroupDigits ==
  ASSUME NEW bytes \in Seq(0..255), NEW g \in Nat, NEW i \in 0..3
  PROVE  DigitOfGroup(GroupOfBytes(bytes, g), i) \in 0..63
<1> DEFINE w == GroupOfBytes(bytes, g)
<1>1. w \in Nat /\ w < 16777216
  <2> DEFINE x == ByteOrZero(bytes, 3 * g + 1)
             y == ByteOrZero(bytes, 3 * g + 2)
             z == ByteOrZero(bytes, 3 * g + 3)
  <2>1. x \in 0..255 /\ y \in 0..255 /\ z \in 0..255
    BY GroupHasBytes
  <2>2. w = x * 65536 + y * 256 + z
    BY DEF GroupOfBytes
  <2> HIDE DEF w, x, y, z
  <2> QED
    BY <2>1, <2>2
<1> HIDE DEF w
<1>2. /\ w \div 262144 \in 0..63 /\ (w \div 4096) % 64 \in 0..63
      /\ (w \div 64) % 64 \in 0..63 /\ w % 64 \in 0..63
  BY <1>1
<1>3. /\ DigitOfGroup(w, 0) = w \div 262144 /\ DigitOfGroup(w, 1) = (w \div 4096) % 64
      /\ DigitOfGroup(w, 2) = (w \div 64) % 64 /\ DigitOfGroup(w, 3) = w % 64
  BY DEF DigitOfGroup
<1>4. CASE i = 0
  <2>1. DigitOfGroup(w, 0) \in 0..63
    BY <1>2, <1>3
  <2> QED
    BY <1>4, <2>1, Zenon DEF w
<1>5. CASE i = 1
  <2>1. DigitOfGroup(w, 1) \in 0..63
    BY <1>2, <1>3
  <2> QED
    BY <1>5, <2>1, Zenon DEF w
<1>6. CASE i = 2
  <2>1. DigitOfGroup(w, 2) \in 0..63
    BY <1>2, <1>3
  <2> QED
    BY <1>6, <2>1, Zenon DEF w
<1>7. CASE i = 3
  <2>1. DigitOfGroup(w, 3) \in 0..63
    BY <1>2, <1>3
  <2> QED
    BY <1>7, <2>1, Zenon DEF w
<1> QED
  BY <1>4, <1>5, <1>6, <1>7

(* The encoding consists of the characters of the alphabet, digit by digit.*)
LEMMA EncodeShape ==
  ASSUME NEW bytes \in Seq(0..255)
  PROVE  LET m == EncodedLen(Len(bytes))
             digit(g, i) == DigitOfGroup(GroupOfBytes(bytes, g), i)
         IN /\ Encode(bytes) \in Seq(Allowed) /\ Len(Encode(bytes)) = m
            /\ \A g \in Nat, i \in 0..3 :
                 /\ digit(g, i) \in 0..63
                 /\ 4 * g + i + 1 <= m => Encode(bytes)[4 * g + i + 1] = Char(digit(g, i))
<1> DEFINE m == EncodedLen(Len(bytes))
           digit(g, i) == DigitOfGroup(GroupOfBytes(bytes, g), i)
<1>1. m \in Nat
  BY EncodedLengths, LenProperties
<1>2. ASSUME NEW g \in Nat, NEW i \in 0..3 PROVE digit(g, i) \in 0..63
  BY GroupDigits
<1>3. ASSUME NEW j \in 1..m
      PROVE  DigitOfGroup(GroupOfBytes(bytes, (j - 1) \div 4), j - 1) =
               digit((j - 1) \div 4, (j - 1) % 4)
  BY <1>1 DEF DigitOfGroup
<1>4. Encode(bytes) = [j \in 1..m |-> Char(digit((j - 1) \div 4, (j - 1) % 4))]
  BY <1>3 DEF Encode, EncodedLen
<1> HIDE DEF m, digit
<1>5. Encode(bytes) \in [1..m -> Allowed]
  <2>1. ASSUME NEW j \in 1..m PROVE Char(digit((j - 1) \div 4, (j - 1) % 4)) \in Allowed
    <3>1. (j - 1) \div 4 \in Nat /\ (j - 1) % 4 \in 0..3
      BY <1>1
    <3> QED
      BY <1>2, <3>1, CharDigit
  <2> QED
    BY <1>4, <2>1
<1>6. Encode(bytes) \in Seq(Allowed) /\ Len(Encode(bytes)) = m
  BY <1>1, <1>5, FunctionIsSeq
<1>7. ASSUME NEW g \in Nat, NEW i \in 0..3, 4 * g + i + 1 <= m
      PROVE  Encode(bytes)[4 * g + i + 1] = Char(digit(g, i))
  <2>1. /\ 4 * g + i + 1 \in 1..m /\ (4 * g + i + 1) - 1 = 4 * g + i
        /\ (4 * g + i) \div 4 = g /\ (4 * g + i) % 4 = i
    BY <1>1, <1>7
  <2> QED
    BY <1>4, <2>1
<1> QED
  BY <1>2, <1>6, <1>7 DEF m, digit

(* What the padded encoding has at a digit: that digit of the group, and   *)
(* where it is padded the digit is zero.                                   *)
LEMMA PaddedDigit ==
  ASSUME NEW bytes \in Seq(0..255), NEW g \in Nat, NEW i \in 0..3,
         g < (Len(bytes) + 2) \div 3
  PROVE  Digit(Padded(Encode(bytes))[4 * g + i + 1]) = DigitOfGroup(GroupOfBytes(bytes, g), i)
<1> DEFINE n == Len(bytes)
           m == EncodedLen(n)
           groups == (n + 2) \div 3
           d == DigitOfGroup(GroupOfBytes(bytes, g), i)
           k == 4 * g + i + 1
           ch == Padded(Encode(bytes))[k]
<1>1. n \in Nat
  BY LenProperties
<1>2. /\ m \in Nat /\ PaddedLen(m) = 4 * groups /\ groups \in Nat /\ m <= 4 * groups
      /\ \/ m = 4 * groups
         \/ m = 4 * groups - 1 /\ n = 3 * groups - 1
         \/ m = 4 * groups - 2 /\ n = 3 * groups - 2
  <2> HIDE DEF n
  <2> QED
    BY <1>1, EncodedLengths
<1>3. Encode(bytes) \in Seq(Allowed) /\ Len(Encode(bytes)) = m
  BY EncodeShape
<1>4. d \in 0..63 /\ (k <= m => Encode(bytes)[k] = Char(d))
  BY EncodeShape
<1>5. g < groups
  OBVIOUS
<1> HIDE DEF groups, m
<1>6. \A l \in 1..4 * groups : Padded(Encode(bytes))[l] = IF l <= m THEN Standard(Encode(bytes)[l]) ELSE Pad
  <2> DEFINE e == Encode(bytes)
  <2>1. PaddedLen(Len(e)) = 4 * groups /\ Len(e) = m /\ PaddedLen(Len(e)) \in Nat /\ Len(e) <= PaddedLen(Len(e))
    BY <1>2, <1>3
  <2>2. e \in Seq(Allowed)
    BY <1>3
  <2> HIDE DEF e
  <2>3. \A l \in 1..PaddedLen(Len(e)) : Padded(e)[l] = IF l <= Len(e) THEN Standard(e[l]) ELSE Pad
    BY <2>1, <2>2, PaddedShape
  <2> QED
    BY <2>1, <2>3 DEF e
<1>7. k \in 1..4 * groups
  BY <1>2, <1>5
<1>8. CASE k <= m
  <2>1. ch = Standard(Char(d))
    BY <1>4, <1>6, <1>7, <1>8
  <2> HIDE DEF d, ch
  <2>2. Digit(Standard(Char(d))) = d
    BY <1>4, CharDigit
  <2> QED
    BY <2>1, <2>2 DEF d, ch
<1>9. CASE ~(k <= m)
  <2>1. Digit(ch) = 0
    <3>1. ch = Pad
      BY <1>6, <1>7, <1>9
    <3>2. Digit(Pad) = 0
      BY DEF Digit, Pad, Plus, Slash
    <3> HIDE DEF ch
    <3> QED
      BY <3>1, <3>2
  <2>2. \/ i = 3 /\ n < 3 * g + 3
        \/ i = 2 /\ n < 3 * g + 2
    <3> HIDE DEF n
    <3> QED
      BY <1>1, <1>2, <1>5, <1>9
  <2>3. CASE i = 3 /\ n < 3 * g + 3
    <3>1. ByteOrZero(bytes, 3 * g + 3) = 0
      BY <1>1, <2>3 DEF ByteOrZero
    <3>2. DigitOfGroup(GroupOfBytes(bytes, g), 3) = 0
      BY <3>1, GroupOfBytesCut
    <3> QED
      BY <2>1, <2>3, <3>2
  <2>4. CASE i = 2 /\ n < 3 * g + 2
    <3>1. ByteOrZero(bytes, 3 * g + 2) = 0 /\ ByteOrZero(bytes, 3 * g + 3) = 0
      BY <1>1, <2>4 DEF ByteOrZero
    <3>2. DigitOfGroup(GroupOfBytes(bytes, g), 2) = 0
      BY <3>1, GroupOfBytesCut
    <3> QED
      BY <2>1, <2>4, <3>2
  <2> QED
    BY <2>2, <2>3, <2>4
<1> QED
  BY <1>8, <1>9

(* Each group of the padded encoding is a group of the bytes.              *)
LEMMA PaddedGroup ==
  ASSUME NEW bytes \in Seq(0..255), NEW g \in Nat, g < (Len(bytes) + 2) \div 3
  PROVE  GroupOfDigits(Padded(Encode(bytes)), g) = GroupOfBytes(bytes, g)
<1> DEFINE w == GroupOfBytes(bytes, g)
           s == Padded(Encode(bytes))
           d(i) == Digit(s[4 * g + i + 1])
<1>1. ASSUME NEW i \in 0..3 PROVE d(i) = DigitOfGroup(w, i)
  BY PaddedDigit
<1>2. /\ d(0) = DigitOfGroup(w, 0) /\ d(1) = DigitOfGroup(w, 1)
      /\ d(2) = DigitOfGroup(w, 2) /\ d(3) = DigitOfGroup(w, 3)
  <2> HIDE DEF d
  <2> QED
    BY <1>1
<1>3. w = DigitOfGroup(w, 0) * 262144 + DigitOfGroup(w, 1) * 4096
            + DigitOfGroup(w, 2) * 64 + DigitOfGroup(w, 3)
  BY GroupOfBytesCut
<1>4. d(0) = Digit(s[4 * g + 1])
  <2>1. 4 * g + 0 + 1 = 4 * g + 1
    OBVIOUS
  <2> QED
    BY <2>1
<1>5. GroupOfDigits(s, g) = d(0) * 262144 + d(1) * 4096 + d(2) * 64 + d(3)
  <2>1. /\ d(1) = Digit(s[4 * g + 2]) /\ d(2) = Digit(s[4 * g + 3]) /\ d(3) = Digit(s[4 * g + 4])
    <3>1. 4 * g + 1 + 1 = 4 * g + 2 /\ 4 * g + 2 + 1 = 4 * g + 3 /\ 4 * g + 3 + 1 = 4 * g + 4
      OBVIOUS
    <3> QED
      BY <3>1
  <2> HIDE DEF s, d
  <2> QED
    BY <1>4, <2>1 DEF GroupOfDigits
<1> HIDE DEF d
<1> QED
  BY <1>2, <1>3, <1>5

(* One byte comes back, from its place in its group.                       *)
LEMMA ByteBack ==
  ASSUME NEW bytes \in Seq(0..255), NEW k \in 1..Len(bytes)
  PROVE  ByteOfGroup(GroupOfDigits(Padded(Encode(bytes)), (k - 1) \div 3), k - 1) = bytes[k]
<1> DEFINE g == (k - 1) \div 3
           r == (k - 1) % 3
           w == GroupOfBytes(bytes, g)
<1>1. Len(bytes) \in Nat
  BY LenProperties
<1>2. /\ k \in Nat /\ g \in Nat /\ r \in 0..2 /\ k = 3 * g + r + 1
      /\ g < (Len(bytes) + 2) \div 3
  <2> DEFINE n == Len(bytes)
  <2>1. n \in Nat /\ k \in 1..n
    BY <1>1
  <2> HIDE DEF n
  <2> QED
    BY <2>1 DEF n
<1>3. GroupOfDigits(Padded(Encode(bytes)), g) = w
  <2> HIDE DEF g
  <2> QED
    BY <1>2, PaddedGroup
<1>4. ByteOfGroup(w, k - 1) = ByteOfGroup(w, r)
  <2>1. (k - 1) % 3 = r /\ r % 3 = r
    BY <1>2
  <2> HIDE DEF w, r
  <2> QED
    BY <2>1 DEF ByteOfGroup
<1> HIDE DEF g, r
<1>5. /\ ByteOfGroup(w, 0) = ByteOrZero(bytes, 3 * g + 1)
      /\ ByteOfGroup(w, 1) = ByteOrZero(bytes, 3 * g + 2)
      /\ ByteOfGroup(w, 2) = ByteOrZero(bytes, 3 * g + 3)
  BY <1>2, GroupOfBytesCut
<1>6. ByteOfGroup(w, r) = ByteOrZero(bytes, k)
  <2>1. r = 0 \/ r = 1 \/ r = 2
    BY <1>2
  <2>2. /\ r = 0 => 3 * g + 1 = k
        /\ r = 1 => 3 * g + 2 = k
        /\ r = 2 => 3 * g + 3 = k
    BY <1>2
  <2> HIDE DEF w
  <2> QED
    BY <1>5, <2>1, <2>2
<1>7. ByteOrZero(bytes, k) = bytes[k]
  BY <1>1 DEF ByteOrZero
<1> QED
  BY <1>3, <1>4, <1>6, <1>7 DEF g

(* The decoder gives back what was encoded.                                *)
LEMMA EncodedDecoded ==
  ASSUME NEW bytes \in Seq(0..255), bytes # <<>>
  PROVE  Decode(Encode(bytes)) = bytes
<1> DEFINE n == Len(bytes)
           s == Encode(bytes)
           m == EncodedLen(n)
           groups == (n + 2) \div 3
<1>1. n \in Nat /\ n # 0 /\ bytes \in [1..n -> 0..255]
  BY LenProperties, EmptySeq
<1>2. s \in Seq(Allowed) /\ Len(s) = m
  BY EncodeShape
<1>3. /\ m # 0 /\ m % 4 # 1 /\ PaddedLen(m) = 4 * groups /\ groups \in Nat
      /\ m <= PaddedLen(m) /\ 3 * groups - (PaddedLen(m) - m) = n
  <2> HIDE DEF n
  <2> QED
    BY <1>1, EncodedLengths
<1> HIDE DEF groups, m, n, s
<1>4. PaddedLen(m) \in Nat /\ 3 * (PaddedLen(m) \div 4) - (PaddedLen(m) - m) = n
  BY <1>3
<1>5. Decode(s) = [k \in 1..n |-> ByteOfGroup(GroupOfDigits(Padded(s), (k - 1) \div 3), k - 1)]
  <2>1. /\ Len(s) # 0 /\ Len(s) % 4 # 1 /\ PaddedLen(Len(s)) \in Nat /\ Len(s) <= PaddedLen(Len(s))
        /\ 3 * (PaddedLen(Len(s)) \div 4) - (PaddedLen(Len(s)) - Len(s)) = n
    BY <1>2, <1>3, <1>4
  <2>2. Decode(s) = [k \in 1..(3 * (PaddedLen(Len(s)) \div 4) - (PaddedLen(Len(s)) - Len(s))) |->
                        ByteOfGroup(GroupOfDigits(Padded(s), (k - 1) \div 3), k - 1)]
    BY <1>2, <2>1, DecodeAllowed
  <2> QED
    BY <2>1, <2>2
<1>6. \A k \in 1..n : ByteOfGroup(GroupOfDigits(Padded(s), (k - 1) \div 3), k - 1) = bytes[k]
  BY ByteBack DEF n, s
<1>7. Decode(s) = [k \in 1..n |-> bytes[k]]
  BY <1>5, <1>6
<1> QED
  BY <1>1, <1>7 DEF s

(* What is decoded without some of its last characters is shorter than the *)
(* bytes, or is refused.                                                   *)
LEMMA CutNotDecoded ==
  ASSUME NEW bytes \in Seq(0..255), bytes # <<>>, NEW l \in Nat, l < Len(Encode(bytes))
  PROVE  Decode(SubSeq(Encode(bytes), 1, l)) # bytes
<1> DEFINE n == Len(bytes)
           m == EncodedLen(n)
           s == SubSeq(Encode(bytes), 1, l)
           groups == (n + 2) \div 3
<1>1. n \in Nat /\ n # 0 /\ bytes \in [1..n -> 0..255]
  BY LenProperties, EmptySeq
<1>2. Encode(bytes) \in Seq(Allowed) /\ Len(Encode(bytes)) = m
  BY EncodeShape
<1>3. l < m
  BY <1>2
<1>4. s \in Seq(Allowed) /\ Len(s) = l
  <2> DEFINE e == Encode(bytes)
  <2>1. e \in Seq(Allowed) /\ l \in Nat /\ l <= Len(e)
    BY <1>2, LenProperties
  <2> HIDE DEF e
  <2>2. s \in Seq(Allowed) /\ Len(s) = IF 1 <= l THEN l - 1 + 1 ELSE 0
    BY <2>1, SubSeqProperties DEF e
  <2> QED
    BY <2>2
<1> HIDE DEF s
<1>5. Malformed # bytes
  <2>1. -1 \notin 0..255
    OBVIOUS
  <2>2. bytes[1] \in 0..255
    BY <1>1
  <2>3. Malformed[1] = -1
    BY DEF Malformed
  <2> QED
    BY <2>1, <2>2, <2>3
<1>6. CASE l = 0 \/ l % 4 = 1
  BY <1>4, <1>5, <1>6 DEF Decode
<1>7. CASE l # 0 /\ l % 4 # 1
  <2> DEFINE size == 3 * (PaddedLen(l) \div 4) - (PaddedLen(l) - l)
  <2>1. PaddedLen(l) \in Nat /\ l <= PaddedLen(l)
    <3>1. l % 4 \in 0..3
      OBVIOUS
    <3> QED
      BY <3>1 DEF PaddedLen
  <2>2. size \in Nat /\ size < n
    <3> HIDE DEF n
    <3>1. \E q \in Nat : l = 4 * q \/ l = 4 * q + 2 \/ l = 4 * q + 3
      <4>1. l = 4 * (l \div 4) + (l % 4) /\ l % 4 \in 0..3 /\ l \div 4 \in Nat
        OBVIOUS
      <4> QED
        BY <1>7, <4>1
    <3>2. PICK q \in Nat : l = 4 * q \/ l = 4 * q + 2 \/ l = 4 * q + 3
      BY <3>1
    <3>3. 4 * l < 4 * m /\ 6 * m <= 8 * n + 5
      BY <1>1, <1>3 DEF EncodedLen
    <3>4. CASE l = 4 * q
      <4>1. size = 3 * q
        BY <3>4 DEF PaddedLen
      <4> QED
        BY <1>1, <3>3, <3>4, <4>1 DEF EncodedLen
    <3>5. CASE l = 4 * q + 2
      <4>1. size = 3 * q + 1
        BY <3>5 DEF PaddedLen
      <4> QED
        BY <1>1, <3>3, <3>5, <4>1 DEF EncodedLen
    <3>6. CASE l = 4 * q + 3
      <4>1. size = 3 * q + 2
        BY <3>6 DEF PaddedLen
      <4> QED
        BY <1>1, <3>3, <3>6, <4>1 DEF EncodedLen
    <3> QED
      BY <3>2, <3>4, <3>5, <3>6
  <2>3. Decode(s) = [k \in 1..size |-> ByteOfGroup(GroupOfDigits(Padded(s), (k - 1) \div 3), k - 1)]
    <3>1. /\ Len(s) # 0 /\ Len(s) % 4 # 1 /\ PaddedLen(Len(s)) \in Nat /\ Len(s) <= PaddedLen(Len(s))
      BY <1>4, <1>7, <2>1
    <3>2. Decode(s) = [k \in 1..(3 * (PaddedLen(Len(s)) \div 4) - (PaddedLen(Len(s)) - Len(s))) |->
                          ByteOfGroup(GroupOfDigits(Padded(s), (k - 1) \div 3), k - 1)]
      BY <1>4, <3>1, DecodeAllowed
    <3> QED
      BY <1>4, <3>2
  <2> HIDE DEF size
  <2>4. DOMAIN Decode(s) = 1..size
    BY <2>3
  <2>5. n \notin 1..size /\ n \in DOMAIN bytes
    BY <1>1, <2>2
  <2> QED
    BY <2>4, <2>5 DEF s
<1> QED
  BY <1>6, <1>7 DEF s

(* A character of the other alphabet, or padding, is refused.              *)
LEMMA ForeignRefused ==
  ASSUME NEW s \in Seq(Allowed), NEW k \in DOMAIN s, NEW ch \in {Plus, Slash, Pad}
  PROVE  Decode([s EXCEPT ![k] = ch]) = Malformed
<1> DEFINE t == [s EXCEPT ![k] = ch]
<1>1. ch \notin Allowed
  BY DEF Allowed, Alphanumerics, Plus, Slash, Pad, Dash, Line
<1>2. k \in DOMAIN t /\ t[k] = ch
  OBVIOUS
<1> HIDE DEF t
<1>3. \E j \in DOMAIN t : t[j] \notin Allowed
  BY <1>1, <1>2
<1> QED
  BY <1>3 DEF Decode, t

(* What an issuer encodes is decoded to the same bytes within the buffer,  *)
(* and neither a part of it nor the other alphabet is taken for it: for    *)
(* every string of bytes, of any length.                                   *)
THEOREM TokenAlwaysDecoded ==
  ASSUME NEW bytes \in Seq(0..255)
  PROVE  TokenDecoded(bytes)
<1> DEFINE s == Encode(bytes)
           n == Len(bytes)
<1>1. n \in Nat
  BY LenProperties
<1>2. s \in Seq(Allowed) /\ Len(s) = EncodedLen(n)
  BY EncodeShape
<1>3. n <= MaxDecodedLen(Len(s))
  <2> HIDE DEF n
  <2> DEFINE groups == (n + 2) \div 3
  <2>1. PaddedLen(EncodedLen(n)) = 4 * groups /\ groups \in Nat /\ n <= 3 * groups
    BY <1>1, EncodedLengths
  <2> HIDE DEF groups
  <2> QED
    BY <1>2, <2>1 DEF MaxDecodedLen
<1>4. CASE bytes = <<>>
  <2>1. Len(s) = 0
    BY <1>2, <1>4 DEF EncodedLen
  <2>2. Decode(s) = Malformed
    BY <2>1 DEF Decode
  <2>3. DOMAIN s = {}
    BY <1>2, <2>1, LenProperties
  <2> QED
    BY <1>3, <1>4, <2>2, <2>3 DEF TokenDecoded
<1>5. CASE bytes # <<>>
  <2>1. Decode(s) = bytes
    BY <1>5, EncodedDecoded
  <2>2. ASSUME NEW k \in DOMAIN s PROVE Decode(SubSeq(s, 1, k - 1)) # bytes
    <3>1. k - 1 \in Nat /\ k - 1 < Len(s)
      BY <1>2, LenProperties
    <3> QED
      BY <1>5, <3>1, CutNotDecoded
  <2>3. ASSUME NEW k \in DOMAIN s, NEW ch \in {Plus, Slash, Pad}
        PROVE  Decode([s EXCEPT ![k] = ch]) = Malformed
    BY <1>2, ForeignRefused
  <2> HIDE DEF s
  <2> QED
    BY <1>3, <1>5, <2>1, <2>2, <2>3 DEF TokenDecoded, s
<1> QED
  BY <1>4, <1>5

----------------------------------------------------------------------------
(* The DER form of an RSA key of any size fits the buffer that             *)
(* verify_rs256_with_jwk allocates for it, with or without zero bytes.     *)
THEOREM DerFits ==
  ASSUME NEW n_len \in Nat, NEW e_len \in Nat, NEW n_zero \in {0, 1}, NEW e_zero \in {0, 1}
  PROVE  DerBytes(n_len, n_zero, e_len, e_zero) <= DerBufSize(n_len, e_len)
<1>1. \A k \in Nat : LenBytes(k) \in 1..5
  BY DEF LenBytes
<1>2. ASSUME NEW k \in Nat, NEW zero \in {0, 1}
      PROVE  IntegerBytes(k, zero) \in Nat /\ IntegerBytes(k, zero) <= k + 7
  BY <1>1 DEF IntegerBytes
<1> DEFINE pub == IntegerBytes(e_len, e_zero) + IntegerBytes(n_len, n_zero)
<1>3. pub \in Nat /\ pub <= n_len + e_len + 14
  BY <1>2
<1> HIDE DEF pub
<1>4. pub + LenBytes(pub) + 1 <= 32 + n_len + e_len
  BY <1>1, <1>3
<1> QED
  BY <1>4 DEF DerBytes, DerBufSize, pub

----------------------------------------------------------------------------
(* The whole of Inputs: each part has inputs of its own, and the bits of a *)
(* frame that have flipped are at most three.                              *)
InputsInv ==
  /\ part \in {"body", "frame", "token", "claims"}
  /\ part = "body" => BodyInv
  /\ part # "body" => HttpUnused
  /\ part = "frame" => input \in Words
  /\ part = "token" => input \in Tokens
  /\ part = "claims" => input \in [synced : BOOLEAN, claims : ClaimsCases]
  /\ flips \in SUBSET (0..23) /\ IsFiniteSet(flips) /\ Cardinality(flips) <= 3

LEMMA InitInputsInv == InputsInit => InputsInv
<1> SUFFICES ASSUME InputsInit PROVE InputsInv
  OBVIOUS
<1>1. flips \in SUBSET (0..23) /\ IsFiniteSet(flips) /\ Cardinality(flips) <= 3
  <2>1. flips = {}
    BY DEF InputsInit
  <2> QED
    BY <2>1, FS_EmptySet
<1>2. CASE part = "body"
  BY <1>1, <1>2, InitBodyInv DEF InputsInit, InputsInv
<1>3. CASE part = "frame"
  BY <1>1, <1>3 DEF InputsInit, InputsInv
<1>4. CASE part = "token"
  BY <1>1, <1>4 DEF InputsInit, InputsInv
<1>5. CASE part = "claims"
  BY <1>1, <1>5 DEF InputsInit, InputsInv
<1> QED
  BY <1>2, <1>3, <1>4, <1>5 DEF InputsInit

LEMMA FlipStep ==
  ASSUME InputsInv, Flip
  PROVE  InputsInv'
<1> USE DEF InputsInv
<1>1. PICK b \in 0..23 \ flips : flips' = flips \cup {b}
  BY DEF Flip
<1>2. Cardinality(flips) \in Nat /\ Cardinality(flips) < 3
  BY FS_CardinalityType DEF Flip
<1>3. /\ IsFiniteSet(flips \cup {b})
      /\ Cardinality(flips \cup {b}) = Cardinality(flips) + 1
  BY FS_AddElement
<1>4. flips' \in SUBSET (0..23) /\ IsFiniteSet(flips') /\ Cardinality(flips') <= 3
  <2>1. flips' \in SUBSET (0..23)
    BY <1>1
  <2>2. IsFiniteSet(flips') /\ Cardinality(flips') = Cardinality(flips) + 1
    BY <1>1, <1>3
  <2> QED
    BY <1>2, <2>1, <2>2
<1>5. part = "frame" /\ UNCHANGED <<bodyVars, part, input>>
  BY DEF Flip
<1>6. (BodyInv <=> BodyInv') /\ (HttpUnused <=> HttpUnused')
  BY <1>5 DEF bodyVars, BodyInv, HttpUnused
<1> QED
  BY <1>4, <1>5, <1>6

LEMMA InputsInvariant == InputsSpec => []InputsInv
<1>1. InputsInv /\ [InputsNext]_inputsVars => InputsInv'
  <2> SUFFICES ASSUME InputsInv, [InputsNext]_inputsVars PROVE InputsInv'
    OBVIOUS
  <2>1. CASE Flip
    BY <2>1, FlipStep
  <2>2. CASE part = "body" /\ Next /\ UNCHANGED <<part, input, flips>>
    <3>1. BodyInv'
      BY <2>2, BodyStep DEF InputsInv
    <3> QED
      BY <2>2, <3>1 DEF InputsInv
  <2>3. CASE UNCHANGED inputsVars
    <3>1. UNCHANGED <<capacity, total, data, len, overflow, sent, outcome, part, input, flips>>
      BY <2>3 DEF inputsVars, bodyVars
    <3>2. (BodyInv <=> BodyInv') /\ (HttpUnused <=> HttpUnused')
      BY <3>1 DEF BodyInv, HttpUnused
    <3> QED
      BY <3>1, <3>2 DEF InputsInv
  <2> QED
    BY <2>1, <2>2, <2>3 DEF InputsNext
<1> QED
  BY <1>1, InitInputsInv, PTL DEF InputsSpec

(* What is reported as received is the whole response, whatever else comes *)
(* in: BodyWhole in the behaviours of all parts.                           *)
THEOREM BodyWholeAmongInputs == InputsSpec => []BodyWhole
<1>1. InputsInv => BodyWhole
  <2>1. BodyInv => BodyWhole
    BY DEF BodyInv, BodyWhole
  <2>2. HttpUnused => BodyWhole
    BY DEF HttpUnused, BodyWhole
  <2> QED
    BY <2>1, <2>2 DEF InputsInv
<1> QED
  BY <1>1, InputsInvariant, PTL

(* Whatever a sensor measures, its frame is accepted undisturbed and       *)
(* refused with one to three wrong bits.                                   *)
THEOREM FramesAlwaysChecked == InputsSpec => []FramesChecked
<1>1. InputsInv => FramesChecked
  <2> SUFFICES ASSUME InputsInv, part = "frame" PROVE FrameChecked(input, flips)
    BY DEF FramesChecked
  <2>1. input \in SUBSET (0..15) /\ flips \in SUBSET (0..23) /\ Cardinality(flips) <= 3
    BY InputsAssumption DEF InputsInv
  <2> QED
    BY <2>1, FrameAlwaysChecked
<1> QED
  BY <1>1, InputsInvariant, PTL

(* Whatever bytes come encoded come out of base64url_decode_alloc.         *)
THEOREM TokensAlwaysDecoded == InputsSpec => []TokensDecoded
<1>1. InputsInv => TokensDecoded
  <2> SUFFICES ASSUME InputsInv, part = "token" PROVE TokenDecoded(input)
    BY DEF TokensDecoded
  <2>1. input \in Seq(0..255)
    BY InputsAssumption DEF InputsInv
  <2> QED
    BY <2>1, TokenAlwaysDecoded
<1> QED
  BY <1>1, InputsInvariant, PTL

(* Whatever claims a token has and whatever the time, they are decided as  *)
(* they should be.                                                         *)
THEOREM AllAlwaysDecided == InputsSpec => []AllDecided
<1>1. InputsInv => AllDecided
  <2> SUFFICES ASSUME InputsInv, part = "claims"
               PROVE  ClaimsDecided(input.synced, Config, input.claims, Now)
    BY DEF AllDecided
  <2>1. input.synced \in BOOLEAN /\ input.claims \in ClaimsCases
    BY DEF InputsInv
  <2>2. ClaimsTyped(input.claims) /\ Now \in Int
    BY <2>1, InputsAssumption
  <2> QED
    BY <2>1, <2>2, ClaimsAlwaysDecided
<1> QED
  BY <1>1, InputsInvariant, PTL
=============================================================================
