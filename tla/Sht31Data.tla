----------------------------- MODULE Sht31Data ------------------------------
(***************************************************************************)
(* The check of main/sensor_sht31.c.  A byte or word is the set of its     *)
(* bits that are 1, bit 0 the lowest, so that exclusive or is the          *)
(* symmetric difference.  The loops turn as often as the code has them     *)
(* turn: eight times for a byte, for the two bytes of a value.             *)
(***************************************************************************)
EXTENDS Integers

Xor(a, b) == (a \ b) \cup (b \ a)

Polynomial == {0, 4, 5}     \* SHT31_CRC_POLYNOMIAL
CrcInit    == 0..7          \* SHT31_CRC_INIT

(* One turn of the inner loop; a bit that is shifted out of the uint8_t is *)
(* lost.                                                                   *)
ShiftWide(crc) == {b + 1 : b \in crc}

Shift(crc) == {b + 1 : b \in crc \ {7}}

CrcStep(crc) == IF 7 \in crc THEN Xor(Shift(crc), Polynomial) ELSE Shift(crc)

CrcHalf(crc) == CrcStep(CrcStep(CrcStep(CrcStep(crc))))

CrcByte(crc, byte) == CrcHalf(CrcHalf(Xor(crc, byte)))

Crc8(high, low) == CrcByte(CrcByte(CrcInit, high), low)

(* Half a frame: the two bytes of a value, the higher first, and its CRC.  *)
HighByte(word) == {b - 8 : b \in word \cap (8..15)}
LowByte(word)  == word \cap (0..7)

AcceptsHalf(word, crc) == Crc8(HighByte(word), LowByte(word)) = crc

----------------------------------------------------------------------------
(* The CRC the sensor's data sheet describes: the remainder of the value,  *)
(* with its first eight bits inverted, times x^8, divided by               *)
(* x^8 + x^5 + x^4 + 1.                                                    *)
Reduce(dividend, degree) ==
  IF degree \in dividend
  THEN Xor(dividend, {degree - 8, degree - 4, degree - 3, degree}) ELSE dividend

ReduceFour(dividend, degree) ==
  Reduce(Reduce(Reduce(Reduce(dividend, degree), degree - 1), degree - 2), degree - 3)

Remainder(word) ==
  LET dividend == {b + 8 : b \in Xor(word, 8..15)}
  IN ReduceFour(ReduceFour(ReduceFour(ReduceFour(dividend, 23), 19), 15), 11)

(* An undisturbed value is accepted; one with up to three wrong bits, in   *)
(* the value or in its CRC, is not.                                        *)
FrameChecked(word, flips) ==
  LET crc      == Remainder(word)
      valueErr == {b - 8 : b \in flips \cap (8..23)}
      crcErr   == flips \cap (0..7)
  IN AcceptsHalf(Xor(word, valueErr), Xor(crc, crcErr)) <=> flips = {}
=============================================================================
