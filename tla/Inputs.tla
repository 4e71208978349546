------------------------------- MODULE Inputs -------------------------------
(***************************************************************************)
(* What comes in from outside, one part at a time: a response body in      *)
(* pieces, a sensor's value with bits that flip, the claims of a token at  *)
(* some time, and bytes in their encoding.                                 *)
(***************************************************************************)
EXTENDS HttpBody, Claims, Sht31Data, TokenEncoding

CONSTANTS
  Words,         \* values that the sensor measures, as sets of bits
  Tokens,        \* strings of bytes that come encoded
  ClaimsCases,   \* claims of tokens
  Config,        \* the configured issuer, audience and role
  Now            \* the time of the device's clock

ASSUME InputsAssumption ==
  /\ Words \subseteq SUBSET (0..15)
  /\ Tokens \subseteq Seq(0..255)
  /\ \A claims \in ClaimsCases : ClaimsTyped(claims)
  /\ Now \in Int

VARIABLES
  part,      \* what this behaviour is about
  input,     \* the word, the claims or the bytes
  flips      \* the bits of a frame that have flipped

None == [part |-> "none"]

inputsVars == <<bodyVars, part, input, flips>>

HttpUnused ==
  /\ capacity = 2 /\ total = 0 /\ data = [k \in 0..1 |-> Nul] /\ len = 0 /\ overflow = FALSE
  /\ sent = 0 /\ outcome = "none"

InputsInit ==
  /\ flips = {}
  /\ \/ part = "body"   /\ Init /\ input = None
     \/ part = "frame"  /\ HttpUnused /\ input \in Words
     \/ part = "token"  /\ HttpUnused /\ input \in Tokens
     \/ /\ part = "claims" /\ HttpUnused
        /\ input \in [synced : BOOLEAN, claims : ClaimsCases]

Flip ==
  /\ part = "frame" /\ \E b \in 0..23 \ flips : flips' = flips \cup {b}
  /\ Cardinality(flips) < 3
  /\ UNCHANGED <<bodyVars, part, input>>

InputsNext ==
  \/ Flip
  \/ part = "body" /\ Next /\ UNCHANGED <<part, input, flips>>

InputsSpec == InputsInit /\ [][InputsNext]_inputsVars

(* sht31_crc8 accepts a value as the sensor sends it, and refuses it with  *)
(* up to three bits wrong: FrameChecked, for each word and each error.     *)
FramesChecked == part = "frame" => FrameChecked(input, flips)

(* base64url_decode_alloc gives back what was encoded and no more than its *)
(* buffer holds: TokenDecoded, for each string of bytes.                   *)
TokensDecoded == part = "token" => TokenDecoded(input)

(* auth_oidc_validate_claims_json decides as it should at every boundary   *)
(* of the times, the audience and the role: ClaimsDecided, for each case.  *)
AllDecided == part = "claims" => ClaimsDecided(input.synced, Config, input.claims, Now)
=============================================================================
