--------------------------- MODULE TokenEncoding ----------------------------
(***************************************************************************)
(* The two encodings main/auth_oidc.c takes keys and tokens through:       *)
(* base64url_decode_alloc, and the buffer for the DER form of an RSA key.  *)
(***************************************************************************)
EXTENDS Integers, FiniteSets, Sequences

(* A character is its ASCII code.                                          *)
Alphanumerics == (48..57) \cup (65..90) \cup (97..122)
Plus  == 43
Dash  == 45
Slash == 47
Pad   == 61
Line  == 95      \* "_"

Malformed == <<-1>>      \* where base64url_decode_alloc returns false

(* The characters copied to the padded buffer.                             *)
Allowed == Alphanumerics \cup {Dash, Line}

Standard(ch) == CASE ch = Dash -> Plus [] ch = Line -> Slash [] OTHER -> ch

PaddedAlways(n) == n + (4 - (n % 4))

PaddedLen(n) == IF n % 4 = 0 THEN n ELSE n + (4 - (n % 4))

Padded(input) ==
  [k \in 1..PaddedLen(Len(input)) |->
     IF k <= Len(input) THEN Standard(input[k]) ELSE Pad]

(* mbedtls_base64_decode, for padding at the end only: three bytes from    *)
(* four digits, less one for each "=".                                     *)
Digit(ch) ==
  CASE ch \in 65..90  -> ch - 65
    [] ch \in 97..122 -> ch - 71
    [] ch \in 48..57  -> ch + 4
    [] ch = Plus      -> 62
    [] ch = Slash     -> 63
    [] ch = Pad       -> 0

GroupOfDigits(base64, g) ==
  Digit(base64[4 * g + 1]) * 262144 + Digit(base64[4 * g + 2]) * 4096
    + Digit(base64[4 * g + 3]) * 64 + Digit(base64[4 * g + 4])

ByteOfGroup(group, k) ==
  CASE k % 3 = 0 -> group \div 65536
    [] k % 3 = 1 -> (group \div 256) % 256
    [] k % 3 = 2 -> group % 256

DecodePadded(base64) ==
  LET pads == Cardinality({k \in DOMAIN base64 : base64[k] = Pad})
  IN [k \in 1..(3 * (Len(base64) \div 4) - pads) |->
        ByteOfGroup(GroupOfDigits(base64, (k - 1) \div 3), k - 1)]

Decode(input) ==
  IF Len(input) = 0 \/ Len(input) % 4 = 1 THEN Malformed
  ELSE IF \E k \in DOMAIN input : input[k] \notin Allowed THEN Malformed
  ELSE DecodePadded(Padded(input))

MaxDecodedLen(n) == (PaddedLen(n) \div 4) * 3

----------------------------------------------------------------------------
(* mbedtls_asn1_write_len and mbedtls_asn1_write_integer: how many bytes   *)
(* they write.  An integer may need a zero before its highest bit.         *)
LenBytes(n) ==
  IF n < 128 THEN 1 ELSE IF n < 256 THEN 2 ELSE IF n < 65536 THEN 3
  ELSE IF n < 16777216 THEN 4 ELSE 5

IntegerBytes(n, zero) == n + zero + LenBytes(n + zero) + 1

(* build_rsa_public_key_der: the two integers in a SEQUENCE.               *)
DerBytes(n_len, n_zero, e_len, e_zero) ==
  LET rsa_pub_len == IntegerBytes(e_len, e_zero) + IntegerBytes(n_len, n_zero)
  IN rsa_pub_len + LenBytes(rsa_pub_len) + 1

DerBufSize(n_len, e_len) == 32 + n_len + e_len

----------------------------------------------------------------------------
(* RFC 4648, sections 4 and 5, without padding: three bytes are a group of *)
(* 24 bits, taken as four digits; zero bits complete the last group, and   *)
(* digits that would have only those are left out.                         *)
Char(digit) ==
  IF digit < 26 THEN digit + 65 ELSE IF digit < 52 THEN digit + 71
  ELSE IF digit < 62 THEN digit - 4 ELSE IF digit = 62 THEN Dash ELSE Line

ByteOrZero(bytes, k) == IF k <= Len(bytes) THEN bytes[k] ELSE 0

GroupOfBytes(bytes, g) ==
  ByteOrZero(bytes, 3 * g + 1) * 65536 + ByteOrZero(bytes, 3 * g + 2) * 256
    + ByteOrZero(bytes, 3 * g + 3)

DigitOfGroup(group, j) ==
  CASE j % 4 = 0 -> group \div 262144
    [] j % 4 = 1 -> (group \div 4096) % 64
    [] j % 4 = 2 -> (group \div 64) % 64
    [] j % 4 = 3 -> group % 64

Encode(bytes) ==
  [j \in 1..((8 * Len(bytes) + 5) \div 6) |->
     Char(DigitOfGroup(GroupOfBytes(bytes, (j - 1) \div 4), j - 1))]

(* What an issuer or client encodes is decoded to the same bytes within    *)
(* the buffer; the encoding less some characters, or with one of the       *)
(* standard alphabet or padding in it, is refused or decoded to something  *)
(* else.                                                                   *)
TokenDecoded(bytes) ==
  LET input == Encode(bytes)
  IN /\ Decode(input) = (IF bytes = <<>> THEN Malformed ELSE bytes)
     /\ Len(bytes) <= MaxDecodedLen(Len(input))
     /\ \A k \in DOMAIN input :
          /\ Decode(SubSeq(input, 1, k - 1)) # bytes
          /\ \A ch \in {Plus, Slash, Pad} : Decode([input EXCEPT ![k] = ch]) = Malformed
=============================================================================
