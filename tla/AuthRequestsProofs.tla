------------------------- MODULE AuthRequestsProofs -------------------------
(***************************************************************************)
(* What the API promises, for any number of keys: a measurement is served  *)
(* only on a sound token, and on every token that stays good.  The proofs  *)
(* follow a request: each check it has passed is still known, through the  *)
(* history, when it is answered.                                           *)
(***************************************************************************)
EXTENDS AuthRequests, AuthOidcProofs

History == [listed : BOOLEAN, kept : BOOLEAN,
            ready : BOOLEAN, synced : BOOLEAN, steady : BOOLEAN]

PastReady  == {"time_synced", "lock", "copy", "unlock", "verify", "claims"}
PastSynced == PastReady \ {"time_synced"}
HasCopy    == {"unlock", "verify", "claims"}

Sound ==
  /\ token \in Jwts
  /\ token.genuine /\ token.claims = "OK"
  /\ during.listed
  /\ during.ready /\ during.synced

(* The checks a request has passed, by where it is.                        *)
ChecksPassed ==
  /\ req \in PastReady => during.ready
  /\ req \in PastSynced => during.synced
  /\ req \in HasCopy /\ copy # Null /\ token.kid \in copy.keys => during.listed
  /\ req = "verify" => copy # Null
  /\ req = "claims" => token.genuine /\ during.listed
  /\ req = "sensor" => result = "OK"
  /\ req \in {"answer", "sensor"} /\ result = "OK" => Sound
  /\ req \in PastReady \cup {"auth_ready"} => result # "OK"

RequestsInv ==
  /\ during \in History
  /\ ChecksPassed
  /\ AcceptedSoundly

(* The history never forgets within a request, and notes what is so now.   *)
LEMMA ObserveEffect ==
  ASSUME Observe, req # "idle", during \in History,
         auth_ready' \in BOOLEAN, time_synced' \in BOOLEAN
  PROVE  /\ during.ready \/ auth_ready' => during'.ready
         /\ during.synced \/ time_synced' => during'.synced
         /\ during.listed => during'.listed
         /\ token'.form = "jwt" /\ token'.kid \in PublishedKeys(s_jwks_json') => during'.listed
<1> USE DEF Observe, History
<1> DEFINE lists == token'.form = "jwt" /\ token'.kid \in PublishedKeys(s_jwks_json')
<1>1. during'.listed = (during.listed \/ lists)
  OBVIOUS
<1>2. during'.ready = (during.ready \/ auth_ready')
  OBVIOUS
<1>3. during'.synced = (during.synced \/ time_synced')
  OBVIOUS
<1> QED
  BY <1>1, <1>2, <1>3

LEMMA HistoryType ==
  ASSUME Observe, during \in History, auth_ready' \in BOOLEAN, time_synced' \in BOOLEAN
  PROVE  during' \in History
BY DEF Observe, History

LEMMA JwtFacts == \A t \in Jwts : t.form = "jwt"
BY DEF Jwts

(* A step of another part of the system leaves the request alone.          *)
LEMMA QuietStep ==
  ASSUME RequestsInv, Observe, auth_ready' \in BOOLEAN, time_synced' \in BOOLEAN,
         req' = req, token' = token, copy' = copy, result' = result, response' = response
  PROVE  RequestsInv'
<1> USE DEF RequestsInv, ChecksPassed, AcceptedSoundly, Sound, PastReady, PastSynced, HasCopy
<1>1. during' \in History
  BY HistoryType
<1>2. CASE req = "idle"
  <2>1. during' = during
    BY <1>2 DEF Observe
  <2> QED
    BY <1>1, <1>2, <2>1
<1>3. CASE req # "idle"
  BY <1>1, <1>3, ObserveEffect
<1> QED
  BY <1>2, <1>3

LEMMA ServedStep ==
  ASSUME RequestsInv, AuthInv, AuthInv', Httpd, Observe
  PROVE  RequestsInv'
<1> USE JwtFacts
    DEF RequestsInv, ChecksPassed, AcceptedSoundly, Sound, PastReady, PastSynced, HasCopy
<1>1. auth_ready' \in BOOLEAN /\ time_synced' \in BOOLEAN
  BY DEF AuthInv, TypeOK
<1>2. during' \in History
  BY <1>1, HistoryType
<1>3. req # "idle" =>
        /\ during.ready \/ auth_ready' => during'.ready
        /\ during.synced \/ time_synced' => during'.synced
        /\ during.listed => during'.listed
        /\ token'.form = "jwt" /\ token'.kid \in PublishedKeys(s_jwks_json') => during'.listed
  BY <1>1, ObserveEffect
<1>4. CASE Receive
  BY <1>2, <1>4, ReceiveEffect
<1>5. CASE CheckReady
  BY <1>2, <1>3, <1>5 DEF CheckReady, ReqGoes
<1>6. CASE CheckTime
  BY <1>2, <1>3, <1>6 DEF CheckTime, ReqGoes
<1>7. CASE LockToCopy
  BY <1>2, <1>3, <1>7 DEF LockToCopy, ReqGoes
<1>8. CASE CopyJwks
  <2>1. s_jwks_json # Dangling /\ token \in Jwts
    BY <1>8 DEF CopyJwks, ReqGoes, AuthInv, TypeOK, RefreshShape, RequestShape, Publishing, Copying
  <2>2. copy' # Null => copy'.keys = PublishedKeys(s_jwks_json')
    BY <1>8, <2>1 DEF CopyJwks, ReqGoes, PublishedKeys
  <2> QED
    BY <1>2, <1>3, <1>8, <2>1, <2>2 DEF CopyJwks, ReqGoes
<1>9. CASE UnlockCopied
  BY <1>2, <1>3, <1>9 DEF UnlockCopied, ReqGoes
<1>10. CASE VerifySignature
  BY <1>2, <1>3, <1>10 DEF VerifySignature, VerifyIf, ReqGoes
<1>11. CASE ValidateClaims
  <2>1. token \in Jwts
    BY <1>11 DEF ValidateClaims, ReqGoes, AuthInv, RequestShape
  <2> QED
    BY <1>2, <1>3, <1>11, <2>1 DEF ValidateClaims, ReqGoes
<1>12. CASE Answer
  BY <1>2, <1>3, <1>12, AnswerEffect DEF AuthInv, TypeOK
<1>13. CASE ReadSensor
  BY <1>2, <1>3, <1>13 DEF ReadSensor, ReqGoes
<1> QED
  BY <1>4, <1>5, <1>6, <1>7, <1>8, <1>9, <1>10, <1>11, <1>12, <1>13 DEF Httpd

LEMMA RequestsAlways == RequestsSpec => [](AuthInv /\ RequestsInv)
<1>1. RequestsInit => AuthInv /\ RequestsInv
  <2>1. RequestsInit => AuthInv
    BY InitStep DEF RequestsInit
  <2>2. RequestsInit => RequestsInv
    BY DEF RequestsInit, Init, RequestsInv, History, ChecksPassed, AcceptedSoundly, Sound,
           PastReady, PastSynced, HasCopy
  <2> QED
    BY <2>1, <2>2
<1>2. AuthInv /\ RequestsInv /\ [Next /\ Observe]_<<vars, during>> => (AuthInv /\ RequestsInv)'
  <2> SUFFICES ASSUME AuthInv, RequestsInv, [Next /\ Observe]_<<vars, during>>
               PROVE  AuthInv' /\ RequestsInv'
    OBVIOUS
  <2>1. AuthInv'
    BY NextStep
  <2>2. auth_ready' \in BOOLEAN /\ time_synced' \in BOOLEAN
    BY <2>1 DEF AuthInv, TypeOK
  <2>3. CASE Httpd /\ Observe
    BY <2>1, <2>3, ServedStep
  <2>4. CASE (StartAuth \/ StartServer \/ TimeSyncChanges \/ AuthTask) /\ Observe
    <3>1. /\ req' = req /\ token' = token /\ copy' = copy
          /\ result' = result /\ response' = response
      BY <2>4
      DEF Request, StartAuth, StartServer, TimeSyncChanges, AuthTask, TaskGoes, BeginRefresh, AllocBuffers,
          Discover, FetchJwks, LockToPublish, FreeOldJwks, PublishJwks, SetAuthReady,
          UnlockPublished, FreeBuffers, RefreshFailed, Wake
    <3>2. Observe
      BY <2>4
    <3> QED
      BY <2>1, <2>2, <3>1, <3>2, QuietStep
  <2>5. CASE UNCHANGED <<vars, during>>
    <3>1. UNCHANGED <<req, token, copy, result, response, during>>
      BY <2>5 DEF vars, Request
    <3> QED
      BY <2>1, <3>1
      DEF RequestsInv, ChecksPassed, AcceptedSoundly, Sound, PastReady, PastSynced, HasCopy
  <2> QED
    BY <2>3, <2>4, <2>5 DEF Next
<1> QED
  BY <1>1, <1>2, PTL DEF RequestsSpec

(* The API serves a measurement only to a genuine token with good claims,  *)
(* whose key was in a JWKS published while the request ran, and only if    *)
(* both gates were open during it: whatever refreshes, resynchronisations  *)
(* and failed allocations come between the handler's separate checks.      *)
THEOREM SoundAcceptance == RequestsSpec => []AcceptedSoundly
<1>1. RequestsInv => AcceptedSoundly
  BY DEF RequestsInv
<1> QED
  BY <1>1, RequestsAlways, PTL

(***************************************************************************)
(* The converse follows a good token: while its key stays published and    *)
(* both flags stay set, every check it meets lets it pass.                 *)
(***************************************************************************)
Good ==
  /\ ~tight
  /\ token \in Jwts /\ token.genuine /\ token.claims = "OK"
  /\ during.kept /\ during.steady

StillGood ==
  Good =>
    /\ req # "idle" => auth_ready /\ time_synced
    /\ req # "idle" /\ s_jwks_json # Dangling => token.kid \in PublishedKeys(s_jwks_json)
    /\ req \in {"unlock", "verify"} => copy # Null /\ token.kid \in copy.keys
    /\ req \in {"answer", "sensor"} => result = "OK"
    /\ req = "idle" /\ response # "none" => response \in {"200", "503_sensor"}

(* What the history says of a request under way is so now, and was said    *)
(* before.                                                                 *)
LEMMA ObserveKept ==
  ASSUME Observe, during \in History, auth_ready' \in BOOLEAN, time_synced' \in BOOLEAN,
         during'.kept, during'.steady
  PROVE  /\ req # "idle" => during.kept /\ during.steady
         /\ req # "idle" \/ req' # "idle" =>
              /\ auth_ready' /\ time_synced'
              /\ token'.kid \in PublishedKeys(s_jwks_json') \/ s_jwks_json' = Dangling
<1> USE DEF Observe, History
<1> DEFINE lists == token'.form = "jwt" /\ token'.kid \in PublishedKeys(s_jwks_json')
           both  == auth_ready' /\ time_synced'
<1>1. CASE req # "idle"
  <2>1. during'.kept = (during.kept /\ (lists \/ s_jwks_json' = Dangling))
    BY <1>1
  <2>2. during'.steady = (during.steady /\ both)
    BY <1>1
  <2> QED
    BY <1>1, <2>1, <2>2
<1>2. CASE req = "idle" /\ req' # "idle"
  <2>1. during'.kept = lists /\ during'.steady = both
    BY <1>2
  <2> QED
    BY <1>2, <2>1
<1> QED
  BY <1>1, <1>2

LEMMA StillGoodStep ==
  ASSUME AuthInv, AuthInv', RequestsInv, StillGood, Next, Observe
  PROVE  StillGood'
<1> SUFFICES ASSUME Good'
             PROVE  /\ req' # "idle" => auth_ready' /\ time_synced'
                    /\ req' # "idle" /\ s_jwks_json' # Dangling
                         => token'.kid \in PublishedKeys(s_jwks_json')
                    /\ req' \in {"unlock", "verify"} => copy' # Null /\ token'.kid \in copy'.keys
                    /\ req' \in {"answer", "sensor"} => result' = "OK"
                    /\ req' = "idle" /\ response' # "none" => response' \in {"200", "503_sensor"}
  BY DEF StillGood
<1>1. auth_ready' \in BOOLEAN /\ time_synced' \in BOOLEAN /\ during \in History
  BY DEF AuthInv, TypeOK, RequestsInv
<1>2. /\ req # "idle" => during.kept /\ during.steady
      /\ req # "idle" \/ req' # "idle" =>
           /\ auth_ready' /\ time_synced'
           /\ token'.kid \in PublishedKeys(s_jwks_json') \/ s_jwks_json' = Dangling
  BY <1>1, ObserveKept DEF Good
<1>3. CASE Receive
  BY <1>2, <1>3, JwtFacts DEF Receive, ReqGoes, Good, MallocMayFail
<1>4. CASE Httpd /\ ~Receive
  <2>1. /\ req # "idle" /\ UNCHANGED <<token, tight, auth_ready, time_synced, s_jwks_json>>
    BY <1>4 DEF Httpd, ReqGoes, CheckReady, CheckTime, LockToCopy, CopyJwks, UnlockCopied,
                VerifySignature, VerifyIf, ValidateClaims, Answer, ReadSensor
  <2>2. Good /\ auth_ready /\ time_synced /\ token.form = "jwt"
    BY <1>2, <2>1, JwtFacts DEF Good
  <2>3. CASE CheckReady
    BY <1>2, <2>2, <2>3 DEF CheckReady, ReqGoes
  <2>4. CASE CheckTime
    BY <1>2, <2>2, <2>4 DEF CheckTime, ReqGoes, MallocMayFail, Good
  <2>5. CASE LockToCopy
    BY <1>2, <2>5 DEF LockToCopy, ReqGoes
  <2>6. CASE CopyJwks
    <3>1. s_jwks_json # Dangling
      BY <2>6 DEF CopyJwks, ReqGoes, AuthInv, RefreshShape, RequestShape, Publishing, Copying
    <3> QED
      BY <1>2, <2>1, <2>2, <2>6, <3>1 DEF CopyJwks, ReqGoes, MallocMayFail, Good, PublishedKeys
  <2>7. CASE UnlockCopied
    BY <1>2, <2>2, <2>7 DEF UnlockCopied, ReqGoes, StillGood
  <2>8. CASE VerifySignature
    BY <1>2, <2>2, <2>8 DEF VerifySignature, VerifyIf, ReqGoes, StillGood, Good, MallocMayFail
  <2>9. CASE ValidateClaims
    BY <1>2, <2>2, <2>9 DEF ValidateClaims, ReqGoes, Good, MallocMayFail
  <2>10. CASE Answer
    BY <1>2, <2>2, <2>10 DEF Answer, ReqGoes, StillGood
  <2>11. CASE ReadSensor
    BY <1>2, <2>11 DEF ReadSensor, ReqGoes
  <2> QED
    BY <1>4, <2>3, <2>4, <2>5, <2>6, <2>7, <2>8, <2>9, <2>10, <2>11 DEF Httpd
<1>5. CASE StartAuth \/ StartServer \/ TimeSyncChanges \/ AuthTask
  <2>1. UNCHANGED <<req, token, copy, result, response, tight>>
    BY <1>5 DEF Request, StartAuth, StartServer, TimeSyncChanges, AuthTask, TaskGoes,
                BeginRefresh, AllocBuffers, Discover, FetchJwks, LockToPublish, FreeOldJwks,
                PublishJwks, SetAuthReady, UnlockPublished, FreeBuffers, RefreshFailed, Wake
  <2>2. req = "idle" => during' = during
    BY <2>1 DEF Observe
  <2>3. Good
    BY <1>2, <2>1, <2>2 DEF Good
  <2> QED
    BY <1>2, <2>1, <2>3 DEF StillGood
<1> QED
  BY <1>3, <1>4, <1>5 DEF Next

(* No spurious refusal: while memory lasts, a good token whose key stays   *)
(* published, on a device that stays ready and synchronised, gets past     *)
(* every check, however the refresher and the clock run beside it.         *)
THEOREM GoodTokensPass == RequestsSpec => []GoodTokenAccepted
<1>1. RequestsInit => StillGood
  BY DEF RequestsInit, Init, StillGood, Good
<1>2. AuthInv /\ AuthInv' /\ RequestsInv /\ StillGood /\ [Next /\ Observe]_<<vars, during>>
        => StillGood'
  <2> SUFFICES ASSUME AuthInv, AuthInv', RequestsInv, StillGood,
                      [Next /\ Observe]_<<vars, during>>
               PROVE  StillGood'
    OBVIOUS
  <2>1. CASE Next /\ Observe
    BY <2>1, StillGoodStep
  <2>2. CASE UNCHANGED <<vars, during>>
    BY <2>2 DEF vars, Auth, Request, StillGood, Good
  <2> QED
    BY <2>1, <2>2
<1>3. StillGood => GoodTokenAccepted
  BY DEF StillGood, Good, GoodTokenAccepted
<1> QED
  BY <1>1, <1>2, <1>3, RequestsAlways, PTL DEF RequestsSpec

=============================================================================
