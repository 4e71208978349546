------------------------------ MODULE AuthOidc ------------------------------
(***************************************************************************)
(* main/auth_oidc.c with the two tasks that share it: auth_oidc_task,      *)
(* which refreshes the JWKS every five minutes for ever, and the HTTP      *)
(* server's task, which runs latest_handler of main/api_server.c, one      *)
(* request at a time.  They share s_auth_mutex, the heap string s_jwks_json *)
(* and the status flags auth_ready and time_synced.                        *)
(*                                                                         *)
(* A JWKS document is the keys a request can find in it; its text, the DER *)
(* encoding and the RSA arithmetic are abstracted to whether the token was *)
(* signed by the key it names.  The heap is the number of live blocks plus *)
(* what each pointer points at; a block allocated and freed within one step *)
(* (JWT segments, cJSON trees, DER buffers) is left out.  A status call    *)
(* holds the status mutex only for the call, so it is one step.            *)
(***************************************************************************)
EXTENDS Integers

CONSTANTS
  Keys,      \* key ids the issuer can publish
  Null,      \* the null pointer
  Dangling   \* a pointer to a block that has been freed

ASSUME PointerAssumption ==
  Null # Dangling /\ {Null, Dangling} \cap [keys : SUBSET Keys, valid : BOOLEAN] = {}

VARIABLES
  tight,         \* whether malloc may fail on this run
  live,          \* heap blocks allocated and not freed, of those that outlive a step
  s_auth_mutex,  \* its holder
  s_jwks_json,   \* the published document
  auth_ready,    \* app_status_t.auth_ready
  time_synced,   \* app_status_t.time_synced, written by wifi_manager.c
  main,          \* app_main, from auth_oidc_start on
  task,          \* where auth_oidc_task is
  discovery,     \* discovery_json of auth_discover_and_fetch_jwks
  jwks,          \* jwks_json of auth_discover_and_fetch_jwks
  err,           \* its return value is not ESP_OK
  req,           \* where latest_handler is
  token,         \* the Authorization header of the request
  header,        \* latest_handler's copy of that header
  copy,          \* the request's copy of the JWKS
  result,        \* auth_result_t of the request
  response       \* what the last finished request was answered

Auth     == <<s_auth_mutex, s_jwks_json, auth_ready>>
Refresh  == <<discovery, jwks, err>>
Request  == <<token, header, copy, result, response>>
vars     == <<tight, live, Auth, time_synced, main, task, Refresh, req, Request>>

(* A document that passes auth_validate_jwks has an entry in its "keys",   *)
(* but none need be one find_jwk_by_kid takes (its key type, algorithm or  *)
(* use is another, or the stricter parser of requests refuses the text).   *)
Documents == {d \in [keys : SUBSET Keys, valid : BOOLEAN] : d.keys # {} => d.valid}
Empty     == [keys |-> {}, valid |-> FALSE]      \* any other string
Pointers  == Documents \cup {Null, Dangling}
Results   == {"OK", "MISSING", "INVALID", "FORBIDDEN", "NOT_READY"}
Responses == {"none", "200", "401", "403", "500", "503_auth", "503_sensor"}

(* A request carries no header (or one that is too long), one that is not  *)
(* Bearer, a token that does not decode, or a JWT.                         *)
Unusable == [form : {"absent", "not_bearer", "malformed"}]
Jwts     == [form : {"jwt"}, kid : Keys, genuine : BOOLEAN,
             claims : {"OK", "INVALID", "FORBIDDEN"}]
Tokens   == Unusable \cup Jwts

TaskPc == {"none", "begin", "alloc", "discover", "fetch", "lock",
           "free_old", "publish", "ready", "unlock", "cleanup", "failed", "sleep"}
ReqPc  == {"idle", "auth_ready", "time_synced", "lock", "copy", "unlock",
           "verify", "claims", "answer", "sensor"}
MainPc == {"auth_oidc_start", "api_server_start", "serving", "aborted"}

Init ==
  /\ tight \in BOOLEAN
  /\ live = 0
  /\ s_auth_mutex = "free"
  /\ s_jwks_json = Null
  /\ auth_ready = FALSE
  /\ time_synced \in BOOLEAN
  /\ main = "auth_oidc_start"
  /\ task = "none"
  /\ discovery = Null /\ jwks = Null /\ err = FALSE
  /\ req = "idle"
  /\ token = [form |-> "absent"]
  /\ header = Null /\ copy = Null
  /\ result = "MISSING"
  /\ response = "none"

----------------------------------------------------------------------------
(* The heap: malloc returns a block, or null when memory is tight; free    *)
(* ignores null.                                                           *)
Blocks(p) == IF p = Null THEN 0 ELSE 1

MallocMayFail == tight

----------------------------------------------------------------------------
(* app_main calls auth_oidc_start, then sensor_task_start and              *)
(* api_server_start.  Without an audience no task is created; any error    *)
(* aborts, which reboots.                                                  *)
StartAuth ==
  /\ main = "auth_oidc_start"
  /\ \/ main' = "api_server_start" /\ task' \in {"none", "begin"}
     \/ main' = "aborted" /\ UNCHANGED task
  /\ auth_ready' = FALSE
  /\ UNCHANGED <<tight, live, s_auth_mutex, s_jwks_json, time_synced, Refresh, req, Request>>

StartServer ==
  /\ main = "api_server_start"
  /\ main' \in {"serving", "aborted"}
  /\ UNCHANGED <<tight, live, Auth, time_synced, task, Refresh, req, Request>>

(* wifi_manager.c clears time_synced on every reconnection and sets it     *)
(* again once the clock has been checked.                                  *)
TimeSyncChanges ==
  /\ time_synced' = ~time_synced
  /\ UNCHANGED <<tight, live, Auth, main, task, Refresh, req, Request>>

----------------------------------------------------------------------------
(* auth_oidc_task: one call of auth_discover_and_fetch_jwks after another.  *)

TaskGoes(from, to) ==
  /\ main # "aborted"
  /\ task = from
  /\ task' = to
  /\ UNCHANGED <<tight, time_synced, main, req, Request>>

(* auth_oidc_get_config_copy and auth_build_discovery_url; the issuer was   *)
(* validated by auth_oidc_start, so the URL is well formed.                *)
BeginRefresh ==
  /\ TaskGoes("begin", "alloc")
  /\ s_auth_mutex = "free"
  /\ UNCHANGED <<live, Auth, Refresh>>

(* Two callocs; if either fails the other block is freed again.            *)
AllocBuffersLeaky ==
  /\ \E d, j \in {Null, Empty} :
       /\ MallocMayFail \/ (d # Null /\ j # Null)
       /\ IF d = Null \/ j = Null
            THEN TaskGoes("alloc", "failed") /\ err' = TRUE /\ UNCHANGED <<discovery, jwks>>
            ELSE TaskGoes("alloc", "discover") /\ discovery' = d /\ jwks' = j /\ UNCHANGED err
       /\ live' = live + Blocks(d) + Blocks(j)
  /\ UNCHANGED Auth

AllocBuffers ==
  /\ \/ /\ TaskGoes("alloc", "discover")
        /\ discovery' = Empty /\ jwks' = Empty
        /\ live' = live + 2
        /\ UNCHANGED err
     \/ /\ TaskGoes("alloc", "failed")
        /\ MallocMayFail
        /\ err' = TRUE
        /\ UNCHANGED <<live, discovery, jwks>>
  /\ UNCHANGED Auth

(* auth_https_get_json and auth_parse_discovery: any network, size, status, *)
(* issuer or jwks_uri error ends the attempt.                              *)
Discover ==
  /\ \/ TaskGoes("discover", "fetch") /\ err' = FALSE
     \/ TaskGoes("discover", "cleanup") /\ err' = TRUE
  /\ UNCHANGED <<live, Auth, discovery, jwks>>

(* auth_https_get_json fails, or brings whatever the issuer publishes now; *)
(* auth_validate_jwks wants at least one entry.                            *)
FetchUnvalidated ==
  /\ \/ TaskGoes("fetch", "cleanup") /\ err' = TRUE /\ UNCHANGED jwks
     \/ \E doc \in Documents :
          TaskGoes("fetch", "lock") /\ err' = FALSE /\ jwks' = doc
  /\ UNCHANGED <<live, Auth, discovery>>

FetchJwks ==
  /\ \/ TaskGoes("fetch", "cleanup") /\ err' = TRUE /\ UNCHANGED jwks
     \/ \E doc \in Documents :
          /\ jwks' = doc
          /\ IF doc.valid
               THEN TaskGoes("fetch", "lock") /\ err' = FALSE
               ELSE TaskGoes("fetch", "cleanup") /\ err' = TRUE
  /\ UNCHANGED <<live, Auth, discovery>>

LockToPublish ==
  /\ TaskGoes("lock", "free_old")
  /\ s_auth_mutex = "free"
  /\ s_auth_mutex' = "task"
  /\ UNCHANGED <<live, s_jwks_json, auth_ready, Refresh>>

FreeOldJwks ==
  /\ TaskGoes("free_old", "publish")
  /\ live' = live - Blocks(s_jwks_json)
  /\ s_jwks_json' = IF s_jwks_json = Null THEN Null ELSE Dangling
  /\ UNCHANGED <<s_auth_mutex, auth_ready, Refresh>>

PublishJwksShared ==
  /\ TaskGoes("publish", "ready")
  /\ s_jwks_json' = jwks
  /\ UNCHANGED <<live, s_auth_mutex, auth_ready, Refresh>>

PublishJwks ==
  /\ TaskGoes("publish", "ready")
  /\ s_jwks_json' = jwks
  /\ jwks' = Null
  /\ UNCHANGED <<live, s_auth_mutex, auth_ready, discovery, err>>

PublishQuietly ==
  /\ TaskGoes("ready", "unlock")
  /\ UNCHANGED <<live, Auth, Refresh>>

SetAuthReady ==
  /\ TaskGoes("ready", "unlock")
  /\ auth_ready' = TRUE
  /\ UNCHANGED <<live, s_auth_mutex, s_jwks_json, Refresh>>

UnlockForgotten ==
  /\ TaskGoes("unlock", "cleanup")
  /\ UNCHANGED <<live, Auth, Refresh>>

UnlockPublished ==
  /\ TaskGoes("unlock", "cleanup")
  /\ s_auth_mutex' = "free"
  /\ UNCHANGED <<live, s_jwks_json, auth_ready, Refresh>>

FreeBuffers ==
  /\ TaskGoes("cleanup", IF err THEN "failed" ELSE "sleep")
  /\ live' = live - Blocks(discovery) - Blocks(jwks)
  /\ discovery' = Null /\ jwks' = Null
  /\ UNCHANGED <<Auth, err>>

KeepAuthReady ==
  /\ TaskGoes("failed", "sleep")
  /\ UNCHANGED <<live, Auth, Refresh>>

RefreshFailed ==
  /\ TaskGoes("failed", "sleep")
  /\ auth_ready' = FALSE
  /\ UNCHANGED <<live, s_auth_mutex, s_jwks_json, Refresh>>

Wake ==
  /\ TaskGoes("sleep", "begin")
  /\ UNCHANGED <<live, Auth, Refresh>>

AuthTask ==
  \/ BeginRefresh \/ AllocBuffers \/ Discover \/ FetchJwks
  \/ LockToPublish \/ FreeOldJwks \/ PublishJwks \/ SetAuthReady
  \/ UnlockPublished \/ FreeBuffers \/ RefreshFailed \/ Wake

----------------------------------------------------------------------------
(* The HTTP server's task: latest_handler and what it calls.               *)

ReqGoes(from, to) ==
  /\ main = "serving"
  /\ req = from
  /\ req' = to
  /\ UNCHANGED <<tight, time_synced, main, task, Refresh, s_jwks_json, auth_ready>>

(* The header is copied to the heap; without memory the answer is 500, and *)
(* without a Bearer header the result is MISSING.                          *)
Receive ==
  /\ \E t \in Tokens :
       /\ token' = t
       /\ \/ /\ t.form \in {"absent", "not_bearer"}
             /\ ReqGoes("idle", "answer")
             /\ result' = "MISSING" /\ response' = "none"
             /\ header' = IF t.form = "absent" THEN Null ELSE Empty
          \/ /\ t.form \in {"malformed", "jwt"}
             /\ ReqGoes("idle", "auth_ready")
             /\ result' = "INVALID" /\ response' = "none"
             /\ header' = Empty
          \/ /\ t.form # "absent" /\ MallocMayFail
             /\ ReqGoes("idle", "idle")
             /\ response' = "500" /\ header' = Null
             /\ UNCHANGED result
  /\ live' = live + Blocks(header')
  /\ UNCHANGED <<s_auth_mutex, copy>>

(* auth_oidc_validate_authorization_header: two reads of the status.       *)
CheckReady ==
  /\ IF auth_ready
       THEN ReqGoes("auth_ready", "time_synced") /\ UNCHANGED result
       ELSE ReqGoes("auth_ready", "answer") /\ result' = "NOT_READY"
  /\ UNCHANGED <<live, s_auth_mutex, token, header, copy, response>>

(* A device whose time is synchronised goes on to                          *)
(* verify_jwt_signature_and_claims, where result is INVALID until it is OK: *)
(* the segments are allocated, decoded and the header parsed.              *)
CheckTime ==
  /\ \/ ReqGoes("time_synced", "lock") /\ time_synced /\ token.form = "jwt" /\ UNCHANGED result
     \/ /\ ReqGoes("time_synced", "answer")
        /\ time_synced
        /\ token.form = "malformed" \/ MallocMayFail
        /\ UNCHANGED result
     \/ ReqGoes("time_synced", "answer") /\ ~time_synced /\ result' = "NOT_READY"
  /\ UNCHANGED <<live, s_auth_mutex, token, header, copy, response>>

(* auth_oidc_copy_jwks_json_alloc *)
LockToCopyUnlocked ==
  /\ ReqGoes("lock", "copy")
  /\ UNCHANGED <<live, s_auth_mutex, token, header, copy, result, response>>

LockToCopyOrGiveUp ==
  /\ IF s_auth_mutex = "free"
       THEN ReqGoes("lock", "copy") /\ s_auth_mutex' = "httpd"
       ELSE ReqGoes("lock", "answer") /\ UNCHANGED s_auth_mutex
  /\ UNCHANGED <<live, token, header, copy, result, response>>

LockToCopy ==
  /\ ReqGoes("lock", "copy")
  /\ s_auth_mutex = "free"
  /\ s_auth_mutex' = "httpd"
  /\ UNCHANGED <<live, token, header, copy, result, response>>

CopyJwks ==
  /\ ReqGoes("copy", "unlock")
  /\ \/ copy' = s_jwks_json
     \/ copy' = Null /\ MallocMayFail
  /\ live' = live + Blocks(copy')
  /\ UNCHANGED <<s_auth_mutex, token, header, result, response>>

UnlockOnlyCopied ==
  /\ ReqGoes("unlock", IF copy = Null THEN "answer" ELSE "verify")
  /\ s_auth_mutex' = IF copy = Null THEN s_auth_mutex ELSE "free"
  /\ UNCHANGED <<live, token, header, copy, result, response>>

UnlockCopied ==
  /\ ReqGoes("unlock", IF copy = Null THEN "answer" ELSE "verify")
  /\ s_auth_mutex' = "free"
  /\ UNCHANGED <<live, token, header, copy, result, response>>

(* find_jwk_by_kid and verify_rs256_with_jwk, which may run out of memory; *)
(* on success auth_oidc_validate_claims_json reads time_synced again.      *)
VerifyIf(verified) ==
  /\ \/ ReqGoes("verify", "claims") /\ verified /\ time_synced /\ UNCHANGED result
     \/ ReqGoes("verify", "answer") /\ verified /\ ~time_synced /\ result' = "NOT_READY"
     \/ ReqGoes("verify", "answer") /\ (~verified \/ MallocMayFail) /\ UNCHANGED result
  /\ UNCHANGED <<live, s_auth_mutex, token, header, copy, response>>

VerifyAnyKey == VerifyIf(token.genuine)

VerifySignature == VerifyIf(token.kid \in copy.keys /\ token.genuine)

(* ... copies the configuration under the mutex and decides.               *)
ValidateClaims ==
  /\ ReqGoes("claims", "answer")
  /\ s_auth_mutex = "free"
  /\ \/ result' = token.claims
     \/ result' = "INVALID" /\ MallocMayFail
  /\ UNCHANGED <<live, s_auth_mutex, token, header, copy, response>>

(* The cleanup of verify_jwt_signature_and_claims, then latest_handler     *)
(* frees the header and turns the result into a status.                    *)
Answer ==
  /\ live' = live - Blocks(copy) - Blocks(header)
  /\ copy' = Null /\ header' = Null
  /\ \/ /\ result = "OK"
        /\ ReqGoes("answer", "sensor")
        /\ UNCHANGED response
     \/ /\ result # "OK"
        /\ ReqGoes("answer", "idle")
        /\ response' = CASE result \in {"MISSING", "INVALID"} -> "401"
                         [] result = "FORBIDDEN" -> "403"
                         [] result = "NOT_READY" -> "503_auth"
  /\ UNCHANGED <<s_auth_mutex, token, result>>

(* sensor_latest_get has a valid measurement or it has not.                *)
ReadSensor ==
  /\ ReqGoes("sensor", "idle")
  /\ response' \in {"200", "503_sensor"}
  /\ UNCHANGED <<live, s_auth_mutex, token, header, copy, result>>

Httpd ==
  \/ Receive \/ CheckReady \/ CheckTime \/ LockToCopy \/ CopyJwks \/ UnlockCopied
  \/ VerifySignature \/ ValidateClaims \/ Answer \/ ReadSensor

----------------------------------------------------------------------------
Next == StartAuth \/ StartServer \/ TimeSyncChanges \/ AuthTask \/ Httpd

(* FreeRTOS runs both tasks and hands a mutex to the task waiting for it,  *)
(* so neither starves at the lock; requests and clock changes owe nothing. *)
Fairness ==
  /\ SF_vars(AuthTask)
  /\ SF_vars(Httpd /\ req # "idle")

Spec == Init /\ [][Next]_vars /\ Fairness

----------------------------------------------------------------------------
(* Properties.                                                             *)

(* Every variable keeps its type, and the lock is held exactly where the   *)
(* code is between take and give.                                          *)
TypeOK ==
  /\ tight \in BOOLEAN
  /\ live \in 0..5
  /\ s_auth_mutex = IF task \in {"free_old", "publish", "ready", "unlock"} THEN "task"
                    ELSE IF req \in {"copy", "unlock"} THEN "httpd" ELSE "free"
  /\ s_jwks_json \in Pointers
  /\ auth_ready \in BOOLEAN
  /\ time_synced \in BOOLEAN
  /\ main \in MainPc
  /\ task \in TaskPc
  /\ discovery \in {Null, Empty}
  /\ jwks \in Documents \cup {Null}
  /\ err \in BOOLEAN
  /\ req \in ReqPc
  /\ token \in Tokens
  /\ header \in {Null, Empty}
  /\ copy \in Documents \cup {Null}
  /\ result \in Results
  /\ response \in Responses

Owned(p) == IF p \in {Null, Dangling} THEN 0 ELSE 1

(* Each live block is held by exactly one pointer, on every path and every *)
(* failed allocation: a leak in the five-minute loop or in a request would *)
(* exhaust the heap in days, and a second owner would free it twice.       *)
HeapOwned ==
  live = Owned(discovery) + Owned(jwks) + Owned(s_jwks_json) + Owned(header) + Owned(copy)

(* Nobody but the refresher in its critical section sees the freed JWKS,   *)
(* and in particular no request copies it.                                 *)
NoDanglingRead ==
  /\ s_jwks_json = Dangling => s_auth_mutex = "task"
  /\ req = "copy" => s_jwks_json # Dangling

(* auth_ready opens the gate only over a published JWKS that passed        *)
(* auth_validate_jwks, also while a later refresh is replacing it.         *)
ReadyHasJwks ==
  auth_ready => s_jwks_json # Null /\ (s_jwks_json # Dangling => s_jwks_json.valid)

(* Between refreshes the gate says how the last one ended: one failure     *)
(* closes it, although the old keys stay in memory.                        *)
GateFollowsRefresh == task = "sleep" => (auth_ready <=> ~err)

(* The free and the assignment in the critical section are one replacement *)
(* to everybody else, made when the old document is freed: requests copy   *)
(* whole documents that passed validation, from before or from after it,   *)
(* and the gate is opened over such a document.                            *)
PublishedBar == IF task = "publish" THEN jwks ELSE s_jwks_json

Cell == INSTANCE JwksCell WITH
          Documents <- {d \in Documents : d.valid}, published <- PublishedBar, gate <- auth_ready

ImplementsJwksCell == Cell!Spec

(* Every request is answered.                                              *)
RequestAnswered == req # "idle" ~> req = "idle"

(* The refresher never gets stuck: it always comes back to its sleep.      *)
RefreshRecurs == main = "serving" /\ task = "begin" ~> task = "sleep"

(* If from some time on every refresh succeeds, the API opens and stays    *)
(* open.                                                                   *)
RecoversAndStaysReady ==
  <>[](main = "serving" /\ task # "none" /\ ~err) => <>[]auth_ready
=============================================================================
