------------------------------ MODULE HttpBody ------------------------------
(***************************************************************************)
(* The response buffer of main/auth_oidc.c: auth_https_get_json lends a    *)
(* buffer to auth_http_event_handler, which the HTTP client calls with     *)
(* each piece of the body as it arrives, in pieces of any size.  The body  *)
(* is a numbered sequence of bytes, so that a byte tells its place.        *)
(***************************************************************************)
EXTENDS Integers

CONSTANTS
  Capacities,   \* sizes of the buffers of the callers
  Lengths,      \* lengths of the bodies that servers send
  Nul, Junk     \* a terminator, and what memory holds before it is written

ASSUME BodyAssumption ==
  /\ \A capacity \in Capacities : capacity \in Nat /\ capacity > 1
  /\ Lengths \subseteq Nat
  /\ Nul \notin Nat /\ Junk \notin Nat /\ Nul # Junk

VARIABLES
  capacity,     \* buffer.capacity
  total,        \* the length of the body
  data,         \* buffer.data
  len,          \* buffer.len
  overflow,     \* buffer.overflow
  sent,         \* how much of the body the client has passed on
  outcome       \* "receiving", then what auth_https_get_json returns

bodyVars == <<capacity, total, data, len, overflow, sent, outcome>>

Init ==
  /\ capacity \in Capacities
  /\ total \in Lengths
  /\ data = [k \in 0..capacity - 1 |-> IF k = 0 THEN Nul ELSE Junk]
  /\ len = 0
  /\ overflow = FALSE
  /\ sent = 0
  /\ outcome = "receiving"

FitsUnterminated(n) == n <= capacity - len

Fits(n) == n <= capacity - len - 1

Copy(n) ==
  /\ Fits(n)
  /\ data' = [k \in DOMAIN data |-> IF k < len THEN data[k]
                                    ELSE IF k < len + n THEN sent + (k - len)
                                    ELSE IF k = len + n THEN Nul ELSE data[k]]
  /\ len' = len + n
  /\ UNCHANGED overflow

(* A piece that does not fit is dropped, the ones after it may fit again.  *)
Overflow(n) ==
  /\ ~Fits(n)
  /\ overflow' = TRUE
  /\ data' = [data EXCEPT ![capacity - 1] = Nul]
  /\ UNCHANGED len

Data(n) ==
  /\ outcome = "receiving" /\ sent + n <= total
  /\ Copy(n) \/ Overflow(n)
  /\ sent' = sent + n
  /\ UNCHANGED <<capacity, total, outcome>>

(* The client reports success only when it has passed on the whole body.   *)
Finish ==
  /\ outcome = "receiving"
  /\ \/ outcome' = "error"
     \/ sent = total /\ outcome' = IF overflow THEN "too_large" ELSE "ok"
  /\ UNCHANGED <<capacity, total, data, len, overflow, sent>>

Next == Finish \/ \E n \in 1..total : Data(n)

Spec == Init /\ [][Next]_bodyVars

(* The buffer always ends in a terminator within its bounds, whatever was  *)
(* dropped; and a document that is reported as received is the whole body, *)
(* byte for byte.                                                          *)
BodyWhole ==
  /\ len < capacity
  /\ \E k \in 0..capacity - 1 : data[k] = Nul
  /\ outcome = "ok" => /\ len = total /\ data[len] = Nul
                       /\ \A k \in 0..total - 1 : data[k] = k
=============================================================================
