------------------------------ MODULE MCInputs ------------------------------
(* Claims at every boundary, strings of all lengths modulo three with      *)
(* bytes at the boundaries of the digits, and words with each single bit,  *)
(* at and around powers of two, and with all bits.                         *)
EXTENDS Inputs

MCConfig == [issuer |-> "ours", audience |-> "ours", role |-> "reader"]

Times(from, to) == {Missing, Other} \cup (from..to)

Audiences ==
  {[type |-> "missing"], [type |-> "string", value |-> "other"], [type |-> "string", value |-> "ours"],
   [type |-> "array", value |-> <<>>], [type |-> "array", value |-> <<"other", "other">>],
   [type |-> "array", value |-> <<"other", "ours">>]}

Names == [prefix : {TRUE}, suffix : {TRUE}, extra : {-1, 0, 1}]
           \cup [prefix : BOOLEAN, suffix : {FALSE}, extra : {1}]

RoleClaims ==
  [name : Names, type : {"object"}, keys : {{}, {"reader"}}]
    \cup [name : Names, type : {"string"}, keys : {{}}]

Roles == {<<>>} \cup {<<claim>> : claim \in RoleClaims}
           \cup {<<one, two>> : one, two \in {c \in RoleClaims : c.name.extra >= 0 /\ c.keys # {}}}

MCClaimsCases ==
  [ object : {TRUE}, iss : {"ours"}, aud : Audiences, exp : Times(5, 8),
    nbf : Times(7, 9), iat : Times(7, 9), roles : {<<>>, <<[name |-> [prefix |-> TRUE,
    suffix |-> TRUE, extra |-> 1], type |-> "object", keys |-> {"reader"}]>>} ]
  \cup
  [ object : BOOLEAN, iss : {"ours", "other", Missing}, aud : {a \in Audiences : a.type = "string"},
    exp : {6, 7}, nbf : {Missing}, iat : {8}, roles : Roles ]

MCTokens == UNION {[1..n -> {0, 1, 62, 63, 127, 128, 255}] : n \in 0..3}

MCWords == {{}} \cup {0..b : b \in 0..15} \cup {{b} : b \in 0..15}
=============================================================================
