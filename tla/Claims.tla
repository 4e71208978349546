------------------------------- MODULE Claims -------------------------------
(***************************************************************************)
(* auth_oidc_validate_claims_json of main/auth_oidc.c as a function of the *)
(* claims and the clock.  A claim is missing, of another JSON type, or a   *)
(* value; numbers are doubles, counted here in half seconds, so that a     *)
(* time may fall between two readings of the clock.                        *)
(***************************************************************************)
EXTENDS Integers, Sequences

CONSTANTS
  Skew,      \* AUTH_CLOCK_SKEW_SECONDS
  Missing,   \* no such claim
  Other      \* a claim or an array entry of an unexpected JSON type

ASSUME ClaimsAssumption ==
  /\ Skew \in Nat
  /\ Missing \notin Int /\ Other \notin Int

(* What a parser can have found in a token: an object or something else,   *)
(* and of the two ends of a claim's name at most one character in common.  *)
ClaimsTyped(claims) ==
  /\ claims.object \in BOOLEAN
  /\ \A k \in DOMAIN claims.roles :
       claims.roles[k].name.extra \in Int /\ claims.roles[k].name.extra >= -1

(* json_string_array_contains: a string, or an array with such a string.   *)
AudienceContains(aud, expected) ==
  /\ expected # ""
  /\ \/ aud.type = "string" /\ aud.value = expected
     \/ aud.type = "array" /\ \E k \in DOMAIN aud.value : aud.value[k] = expected

(* A claim name may have the prefix "urn:zitadel:iam:org:project:" and the *)
(* suffix ":roles", and is longer than both together by "extra": only in   *)
(* the global claim do they share a colon.                                 *)
IsGlobal(name) == name.prefix /\ name.suffix /\ name.extra = -1

IsProjectSpecific(name) ==
  ~IsGlobal(name) /\ name.prefix /\ name.suffix /\ name.extra > 0

RolesClaimContains(roles, role) ==
  /\ role # ""
  /\ \E k \in DOMAIN roles :
       /\ IsGlobal(roles[k].name) \/ IsProjectSpecific(roles[k].name)
       /\ roles[k].type = "object"
       /\ role \in roles[k].keys

InFuture(time, now) == time \in Int /\ time > 2 * (now + Skew)

ExpiredAfter(time, now) == time \notin Int \/ time < 2 * now

Expired(time, now) == time \notin Int \/ time <= 2 * now

NotYet(time, now) == time # Missing /\ (time \notin Int \/ InFuture(time, now))

ValidateClaims(synced, config, claims, now) ==
  IF ~synced                                                      THEN "NOT_READY"
  ELSE IF ~claims.object \/ claims.iss # config.issuer            THEN "INVALID"
  ELSE IF ~AudienceContains(claims.aud, config.audience)          THEN "FORBIDDEN"
  ELSE IF Expired(claims.exp, now)                                THEN "INVALID"
  ELSE IF NotYet(claims.nbf, now) \/ NotYet(claims.iat, now)      THEN "INVALID"
  ELSE IF ~RolesClaimContains(claims.roles, config.role)          THEN "FORBIDDEN"
  ELSE "OK"

----------------------------------------------------------------------------
(* What the decision should be.                                            *)

(* Some clock at most Skew seconds from ours has reached the time.         *)
Reached(time, now) ==
  time = Missing \/ (time \in Int /\ \E t \in (now - Skew)..(now + Skew) : time <= 2 * t)

(* The device's own clock has not reached the end.                         *)
Lasts(time, now) == time \in Int /\ 2 * now < time

(* A project's role claim has the project in its name: neither an empty    *)
(* one nor a longer path counts as another form of it.                     *)
Grants(roles, role) ==
  \E k \in DOMAIN roles :
    /\ roles[k].name.prefix /\ roles[k].name.suffix /\ roles[k].name.extra \notin {0}
    /\ roles[k].type = "object" /\ role \in roles[k].keys /\ role # ""

(* A token is accepted exactly if it comes from the configured issuer, is  *)
(* for the configured audience, is valid now and grants the role; before   *)
(* the clock is set there is no verdict, and "forbidden" is said only to   *)
(* tokens of the configured issuer.  Time alone never makes an expired     *)
(* token acceptable, nor interrupts the time for which one is.             *)
ClaimsDecided(synced, config, claims, now) ==
  LET verdict(t) == ValidateClaims(synced, config, claims, t)
  IN /\ verdict(now) = "OK" <=>
          /\ synced /\ claims.object /\ claims.iss = config.issuer
          /\ AudienceContains(claims.aud, config.audience)
          /\ Reached(claims.nbf, now) /\ Reached(claims.iat, now) /\ Lasts(claims.exp, now)
          /\ Grants(claims.roles, config.role)
     /\ verdict(now) = "NOT_READY" <=> ~synced
     /\ verdict(now) = "FORBIDDEN" => claims.iss = config.issuer
     /\ \A later \in now..now + 2 * Skew, last \in now..now + 2 * Skew :
          /\ Expired(claims.exp, now) => verdict(later) # "OK"
          /\ verdict(now) = "OK" /\ verdict(last) = "OK" /\ later <= last => verdict(later) = "OK"
=============================================================================
