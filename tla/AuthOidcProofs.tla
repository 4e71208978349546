--------------------------- MODULE AuthOidcProofs ---------------------------
(***************************************************************************)
(* Safety of AuthOidc for any number of keys, proved from one inductive    *)
(* invariant.  RefreshShape says what the refresher holds at each step and  *)
(* RequestShape what a request holds; with the mutual exclusion of the two *)
(* critical sections they imply every safety property of AuthOidc.         *)
(***************************************************************************)
EXTENDS AuthOidc, TLAPS

Publishing == {"free_old", "publish", "ready", "unlock"}
Copying    == {"copy", "unlock"}

(* The buffers exist from their allocation to the cleanup, the fetched     *)
(* document is valid once it is to be published, the freed one is out of   *)
(* reach again before the lock is given back, and err and the gate agree   *)
(* on how the attempt went.                                                *)
RefreshShape ==
  /\ main = "auth_oidc_start" => task = "none"
  /\ task \in {"none", "begin", "alloc", "failed", "sleep"} => discovery = Null /\ jwks = Null
  /\ task \in {"discover", "fetch"} => discovery # Null /\ jwks # Null
  /\ task \in {"lock", "free_old", "publish"} => jwks \in Documents /\ jwks.valid
  /\ task = "publish" => s_jwks_json \in {Null, Dangling}
  /\ s_jwks_json = Dangling => task = "publish"
  /\ task \in {"ready", "unlock"} => s_jwks_json \in Documents /\ s_jwks_json.valid
  /\ task \in Publishing \cup {"lock"} => ~err
  /\ task = "failed" => err
  /\ task = "unlock" \/ (task = "cleanup" /\ ~err) => auth_ready

(* A request holds its header until it is answered and its copy from the   *)
(* moment it is made, copies only while nobody publishes, and copies at all *)
(* only for a JWT.                                                         *)
RequestShape ==
  /\ req \in {"idle", "sensor"} => header = Null
  /\ req \in {"idle", "auth_ready", "time_synced", "lock", "copy", "sensor"} => copy = Null
  /\ ~(task \in Publishing /\ req \in Copying)
  /\ req \in {"lock", "copy", "unlock", "verify", "claims"} => token \in Jwts

AuthInv ==
  /\ TypeOK /\ HeapOwned /\ ReadyHasJwks /\ GateFollowsRefresh
  /\ RefreshShape /\ RequestShape

LEMMA DocumentFacts ==
  /\ Empty \in Documents
  /\ Null \notin Documents /\ Dangling \notin Documents /\ Null # Dangling
  /\ Empty # Null
<1> USE PointerAssumption DEF Documents, Empty
<1>1. Empty \in Documents
  OBVIOUS
<1>2. Documents \subseteq [keys : SUBSET Keys, valid : BOOLEAN]
  OBVIOUS
<1> QED
  BY <1>1, <1>2

LEMMA TokenFacts ==
  /\ Jwts \subseteq Tokens
  /\ \A t \in Tokens : t.form = "jwt" => t \in Jwts
  /\ \A t \in Jwts : t.claims \in Results
BY DEF Tokens, Unusable, Jwts, Results

(* What the invariant needs to know of receiving and answering a request.  *)
LEMMA ReceiveEffect ==
  Receive =>
    /\ main = "serving" /\ req = "idle"
    /\ req' \in {"idle", "answer", "auth_ready"}
    /\ token' \in Tokens
    /\ header' \in {Null, Empty}
    /\ req' = "idle" => header' = Null
    /\ result' \in {result, "MISSING", "INVALID"}
    /\ req' # "idle" => result' # "OK"
    /\ response' \in {"none", "500"}
    /\ live' = live + Blocks(header')
    /\ UNCHANGED <<tight, time_synced, main, task, Refresh, s_jwks_json, auth_ready, s_auth_mutex, copy>>
BY DEF Receive, ReqGoes

LEMMA AnswerEffect ==
  Answer =>
    /\ main = "serving" /\ req = "answer"
    /\ req' \in {"idle", "sensor"}
    /\ req' = "sensor" => result = "OK"
    /\ header' = Null /\ copy' = Null
    /\ result \in Results => response' \in {response, "401", "403", "503_auth"}
    /\ live' = live - Blocks(copy) - Blocks(header)
    /\ UNCHANGED <<tight, time_synced, main, task, Refresh, s_jwks_json, auth_ready, s_auth_mutex, token, result>>
BY DEF Answer, ReqGoes, Results

(* Each conjunct of the invariant is preserved by each action.             *)

LEMMA HeapStep == AuthInv /\ [Next]_vars => HeapOwned'
<1> SUFFICES ASSUME AuthInv, [Next]_vars PROVE HeapOwned'
  OBVIOUS
<1> USE DocumentFacts, TokenFacts
    DEF AuthInv, TypeOK, RefreshShape, RequestShape, Publishing, Copying, Pointers,
        TaskPc, ReqPc, MainPc, Auth, Refresh, Request, HeapOwned, Owned
<1>1. CASE StartAuth
  BY <1>1 DEF StartAuth
<1>2. CASE StartServer
  BY <1>2 DEF StartServer
<1>3. CASE TimeSyncChanges
  BY <1>3 DEF TimeSyncChanges
<1>4. CASE BeginRefresh
  BY <1>4 DEF BeginRefresh, TaskGoes
<1>5. CASE AllocBuffers
  BY <1>5 DEF AllocBuffers, TaskGoes, MallocMayFail
<1>6. CASE Discover
  BY <1>6 DEF Discover, TaskGoes
<1>7. CASE FetchJwks
  BY <1>7 DEF FetchJwks, TaskGoes
<1>8. CASE LockToPublish
  BY <1>8 DEF LockToPublish, TaskGoes
<1>9. CASE FreeOldJwks
  BY <1>9 DEF FreeOldJwks, TaskGoes, Blocks
<1>10. CASE PublishJwks
  BY <1>10 DEF PublishJwks, TaskGoes
<1>11. CASE SetAuthReady
  BY <1>11 DEF SetAuthReady, TaskGoes
<1>12. CASE UnlockPublished
  BY <1>12 DEF UnlockPublished, TaskGoes
<1>13. CASE FreeBuffers
  BY <1>13 DEF FreeBuffers, TaskGoes, Blocks
<1>14. CASE RefreshFailed
  BY <1>14 DEF RefreshFailed, TaskGoes
<1>15. CASE Wake
  BY <1>15 DEF Wake, TaskGoes
<1>16. CASE Receive
  BY <1>16, ReceiveEffect DEF Blocks
<1>17. CASE CheckReady
  BY <1>17 DEF CheckReady, ReqGoes
<1>18. CASE CheckTime
  BY <1>18 DEF CheckTime, ReqGoes, MallocMayFail
<1>19. CASE LockToCopy
  BY <1>19 DEF LockToCopy, ReqGoes
<1>20. CASE CopyJwks
  BY <1>20 DEF CopyJwks, ReqGoes, MallocMayFail, Blocks
<1>21. CASE UnlockCopied
  BY <1>21 DEF UnlockCopied, ReqGoes
<1>22. CASE VerifySignature
  BY <1>22 DEF VerifySignature, ReqGoes, VerifyIf, MallocMayFail
<1>23. CASE ValidateClaims
  BY <1>23 DEF ValidateClaims, ReqGoes, MallocMayFail
<1>24. CASE Answer
  BY <1>24, AnswerEffect DEF Blocks
<1>25. CASE ReadSensor
  BY <1>25 DEF ReadSensor, ReqGoes
<1>26. CASE UNCHANGED vars
  BY <1>26 DEF vars
<1> QED
  BY <1>1, <1>2, <1>3, <1>4, <1>5, <1>6, <1>7, <1>8, <1>9, <1>10, <1>11, <1>12, <1>13,
     <1>14, <1>15, <1>16, <1>17, <1>18, <1>19, <1>20, <1>21, <1>22, <1>23, <1>24, <1>25, <1>26
  DEF Next, AuthTask, Httpd

LEMMA ReadyStep == AuthInv /\ [Next]_vars => ReadyHasJwks'
<1> SUFFICES ASSUME AuthInv, [Next]_vars PROVE ReadyHasJwks'
  OBVIOUS
<1> USE DocumentFacts, TokenFacts
    DEF AuthInv, TypeOK, RefreshShape, RequestShape, Publishing, Copying, Pointers,
        TaskPc, ReqPc, MainPc, Auth, Refresh, Request, ReadyHasJwks
<1>1. CASE StartAuth
  BY <1>1 DEF StartAuth
<1>2. CASE StartServer
  BY <1>2 DEF StartServer
<1>3. CASE TimeSyncChanges
  BY <1>3 DEF TimeSyncChanges
<1>4. CASE BeginRefresh
  BY <1>4 DEF BeginRefresh, TaskGoes
<1>5. CASE AllocBuffers
  BY <1>5 DEF AllocBuffers, TaskGoes, MallocMayFail
<1>6. CASE Discover
  BY <1>6 DEF Discover, TaskGoes
<1>7. CASE FetchJwks
  BY <1>7 DEF FetchJwks, TaskGoes
<1>8. CASE LockToPublish
  BY <1>8 DEF LockToPublish, TaskGoes
<1>9. CASE FreeOldJwks
  BY <1>9 DEF FreeOldJwks, TaskGoes, Blocks
<1>10. CASE PublishJwks
  BY <1>10 DEF PublishJwks, TaskGoes
<1>11. CASE SetAuthReady
  BY <1>11 DEF SetAuthReady, TaskGoes
<1>12. CASE UnlockPublished
  BY <1>12 DEF UnlockPublished, TaskGoes
<1>13. CASE FreeBuffers
  BY <1>13 DEF FreeBuffers, TaskGoes, Blocks
<1>14. CASE RefreshFailed
  BY <1>14 DEF RefreshFailed, TaskGoes
<1>15. CASE Wake
  BY <1>15 DEF Wake, TaskGoes
<1>16. CASE Receive
  BY <1>16, ReceiveEffect DEF Blocks
<1>17. CASE CheckReady
  BY <1>17 DEF CheckReady, ReqGoes
<1>18. CASE CheckTime
  BY <1>18 DEF CheckTime, ReqGoes, MallocMayFail
<1>19. CASE LockToCopy
  BY <1>19 DEF LockToCopy, ReqGoes
<1>20. CASE CopyJwks
  BY <1>20 DEF CopyJwks, ReqGoes, MallocMayFail, Blocks
<1>21. CASE UnlockCopied
  BY <1>21 DEF UnlockCopied, ReqGoes
<1>22. CASE VerifySignature
  BY <1>22 DEF VerifySignature, ReqGoes, VerifyIf, MallocMayFail
<1>23. CASE ValidateClaims
  BY <1>23 DEF ValidateClaims, ReqGoes, MallocMayFail
<1>24. CASE Answer
  BY <1>24, AnswerEffect DEF Blocks
<1>25. CASE ReadSensor
  BY <1>25 DEF ReadSensor, ReqGoes
<1>26. CASE UNCHANGED vars
  BY <1>26 DEF vars
<1> QED
  BY <1>1, <1>2, <1>3, <1>4, <1>5, <1>6, <1>7, <1>8, <1>9, <1>10, <1>11, <1>12, <1>13,
     <1>14, <1>15, <1>16, <1>17, <1>18, <1>19, <1>20, <1>21, <1>22, <1>23, <1>24, <1>25, <1>26
  DEF Next, AuthTask, Httpd

LEMMA GateStep == AuthInv /\ [Next]_vars => GateFollowsRefresh'
<1> SUFFICES ASSUME AuthInv, [Next]_vars PROVE GateFollowsRefresh'
  OBVIOUS
<1> USE DocumentFacts, TokenFacts
    DEF AuthInv, TypeOK, RefreshShape, RequestShape, Publishing, Copying, Pointers,
        TaskPc, ReqPc, MainPc, Auth, Refresh, Request, GateFollowsRefresh
<1>1. CASE StartAuth
  BY <1>1 DEF StartAuth
<1>2. CASE StartServer
  BY <1>2 DEF StartServer
<1>3. CASE TimeSyncChanges
  BY <1>3 DEF TimeSyncChanges
<1>4. CASE BeginRefresh
  BY <1>4 DEF BeginRefresh, TaskGoes
<1>5. CASE AllocBuffers
  BY <1>5 DEF AllocBuffers, TaskGoes, MallocMayFail
<1>6. CASE Discover
  BY <1>6 DEF Discover, TaskGoes
<1>7. CASE FetchJwks
  BY <1>7 DEF FetchJwks, TaskGoes
<1>8. CASE LockToPublish
  BY <1>8 DEF LockToPublish, TaskGoes
<1>9. CASE FreeOldJwks
  BY <1>9 DEF FreeOldJwks, TaskGoes, Blocks
<1>10. CASE PublishJwks
  BY <1>10 DEF PublishJwks, TaskGoes
<1>11. CASE SetAuthReady
  BY <1>11 DEF SetAuthReady, TaskGoes
<1>12. CASE UnlockPublished
  BY <1>12 DEF UnlockPublished, TaskGoes
<1>13. CASE FreeBuffers
  BY <1>13 DEF FreeBuffers, TaskGoes, Blocks
<1>14. CASE RefreshFailed
  BY <1>14 DEF RefreshFailed, TaskGoes
<1>15. CASE Wake
  BY <1>15 DEF Wake, TaskGoes
<1>16. CASE Receive
  BY <1>16, ReceiveEffect DEF Blocks
<1>17. CASE CheckReady
  BY <1>17 DEF CheckReady, ReqGoes
<1>18. CASE CheckTime
  BY <1>18 DEF CheckTime, ReqGoes, MallocMayFail
<1>19. CASE LockToCopy
  BY <1>19 DEF LockToCopy, ReqGoes
<1>20. CASE CopyJwks
  BY <1>20 DEF CopyJwks, ReqGoes, MallocMayFail, Blocks
<1>21. CASE UnlockCopied
  BY <1>21 DEF UnlockCopied, ReqGoes
<1>22. CASE VerifySignature
  BY <1>22 DEF VerifySignature, ReqGoes, VerifyIf, MallocMayFail
<1>23. CASE ValidateClaims
  BY <1>23 DEF ValidateClaims, ReqGoes, MallocMayFail
<1>24. CASE Answer
  BY <1>24, AnswerEffect DEF Blocks
<1>25. CASE ReadSensor
  BY <1>25 DEF ReadSensor, ReqGoes
<1>26. CASE UNCHANGED vars
  BY <1>26 DEF vars
<1> QED
  BY <1>1, <1>2, <1>3, <1>4, <1>5, <1>6, <1>7, <1>8, <1>9, <1>10, <1>11, <1>12, <1>13,
     <1>14, <1>15, <1>16, <1>17, <1>18, <1>19, <1>20, <1>21, <1>22, <1>23, <1>24, <1>25, <1>26
  DEF Next, AuthTask, Httpd

LEMMA RefreshStep == AuthInv /\ [Next]_vars => RefreshShape'
<1> SUFFICES ASSUME AuthInv, [Next]_vars PROVE RefreshShape'
  OBVIOUS
<1> USE DocumentFacts, TokenFacts
    DEF AuthInv, TypeOK, RefreshShape, RequestShape, Publishing, Copying, Pointers,
        TaskPc, ReqPc, MainPc, Auth, Refresh, Request, ReadyHasJwks
<1>1. CASE StartAuth
  BY <1>1 DEF StartAuth
<1>2. CASE StartServer
  BY <1>2 DEF StartServer
<1>3. CASE TimeSyncChanges
  BY <1>3 DEF TimeSyncChanges
<1>4. CASE BeginRefresh
  BY <1>4 DEF BeginRefresh, TaskGoes
<1>5. CASE AllocBuffers
  BY <1>5 DEF AllocBuffers, TaskGoes, MallocMayFail
<1>6. CASE Discover
  BY <1>6 DEF Discover, TaskGoes
<1>7. CASE FetchJwks
  BY <1>7 DEF FetchJwks, TaskGoes
<1>8. CASE LockToPublish
  BY <1>8 DEF LockToPublish, TaskGoes
<1>9. CASE FreeOldJwks
  BY <1>9 DEF FreeOldJwks, TaskGoes, Blocks
<1>10. CASE PublishJwks
  BY <1>10 DEF PublishJwks, TaskGoes
<1>11. CASE SetAuthReady
  BY <1>11 DEF SetAuthReady, TaskGoes
<1>12. CASE UnlockPublished
  BY <1>12 DEF UnlockPublished, TaskGoes
<1>13. CASE FreeBuffers
  BY <1>13 DEF FreeBuffers, TaskGoes, Blocks
<1>14. CASE RefreshFailed
  BY <1>14 DEF RefreshFailed, TaskGoes
<1>15. CASE Wake
  BY <1>15 DEF Wake, TaskGoes
<1>16. CASE Receive
  BY <1>16, ReceiveEffect DEF Blocks
<1>17. CASE CheckReady
  BY <1>17 DEF CheckReady, ReqGoes
<1>18. CASE CheckTime
  BY <1>18 DEF CheckTime, ReqGoes, MallocMayFail
<1>19. CASE LockToCopy
  BY <1>19 DEF LockToCopy, ReqGoes
<1>20. CASE CopyJwks
  BY <1>20 DEF CopyJwks, ReqGoes, MallocMayFail, Blocks
<1>21. CASE UnlockCopied
  BY <1>21 DEF UnlockCopied, ReqGoes
<1>22. CASE VerifySignature
  BY <1>22 DEF VerifySignature, ReqGoes, VerifyIf, MallocMayFail
<1>23. CASE ValidateClaims
  BY <1>23 DEF ValidateClaims, ReqGoes, MallocMayFail
<1>24. CASE Answer
  BY <1>24, AnswerEffect DEF Blocks
<1>25. CASE ReadSensor
  BY <1>25 DEF ReadSensor, ReqGoes
<1>26. CASE UNCHANGED vars
  BY <1>26 DEF vars
<1> QED
  BY <1>1, <1>2, <1>3, <1>4, <1>5, <1>6, <1>7, <1>8, <1>9, <1>10, <1>11, <1>12, <1>13,
     <1>14, <1>15, <1>16, <1>17, <1>18, <1>19, <1>20, <1>21, <1>22, <1>23, <1>24, <1>25, <1>26
  DEF Next, AuthTask, Httpd

LEMMA RequestStep == AuthInv /\ [Next]_vars => RequestShape'
<1> SUFFICES ASSUME AuthInv, [Next]_vars PROVE RequestShape'
  OBVIOUS
<1> USE DocumentFacts, TokenFacts
    DEF AuthInv, TypeOK, RefreshShape, RequestShape, Publishing, Copying, Pointers,
        TaskPc, ReqPc, MainPc, Auth, Refresh, Request, RequestShape
<1>1. CASE StartAuth
  BY <1>1 DEF StartAuth
<1>2. CASE StartServer
  BY <1>2 DEF StartServer
<1>3. CASE TimeSyncChanges
  BY <1>3 DEF TimeSyncChanges
<1>4. CASE BeginRefresh
  BY <1>4 DEF BeginRefresh, TaskGoes
<1>5. CASE AllocBuffers
  BY <1>5 DEF AllocBuffers, TaskGoes, MallocMayFail
<1>6. CASE Discover
  BY <1>6 DEF Discover, TaskGoes
<1>7. CASE FetchJwks
  BY <1>7 DEF FetchJwks, TaskGoes
<1>8. CASE LockToPublish
  BY <1>8 DEF LockToPublish, TaskGoes
<1>9. CASE FreeOldJwks
  BY <1>9 DEF FreeOldJwks, TaskGoes, Blocks
<1>10. CASE PublishJwks
  BY <1>10 DEF PublishJwks, TaskGoes
<1>11. CASE SetAuthReady
  BY <1>11 DEF SetAuthReady, TaskGoes
<1>12. CASE UnlockPublished
  BY <1>12 DEF UnlockPublished, TaskGoes
<1>13. CASE FreeBuffers
  BY <1>13 DEF FreeBuffers, TaskGoes, Blocks
<1>14. CASE RefreshFailed
  BY <1>14 DEF RefreshFailed, TaskGoes
<1>15. CASE Wake
  BY <1>15 DEF Wake, TaskGoes
<1>16. CASE Receive
  BY <1>16, ReceiveEffect DEF Blocks
<1>17. CASE CheckReady
  BY <1>17 DEF CheckReady, ReqGoes
<1>18. CASE CheckTime
  BY <1>18 DEF CheckTime, ReqGoes, MallocMayFail
<1>19. CASE LockToCopy
  BY <1>19 DEF LockToCopy, ReqGoes
<1>20. CASE CopyJwks
  BY <1>20 DEF CopyJwks, ReqGoes, MallocMayFail, Blocks
<1>21. CASE UnlockCopied
  BY <1>21 DEF UnlockCopied, ReqGoes
<1>22. CASE VerifySignature
  BY <1>22 DEF VerifySignature, ReqGoes, VerifyIf, MallocMayFail
<1>23. CASE ValidateClaims
  BY <1>23 DEF ValidateClaims, ReqGoes, MallocMayFail
<1>24. CASE Answer
  BY <1>24, AnswerEffect DEF Blocks
<1>25. CASE ReadSensor
  BY <1>25 DEF ReadSensor, ReqGoes
<1>26. CASE UNCHANGED vars
  BY <1>26 DEF vars
<1> QED
  BY <1>1, <1>2, <1>3, <1>4, <1>5, <1>6, <1>7, <1>8, <1>9, <1>10, <1>11, <1>12, <1>13,
     <1>14, <1>15, <1>16, <1>17, <1>18, <1>19, <1>20, <1>21, <1>22, <1>23, <1>24, <1>25, <1>26
  DEF Next, AuthTask, Httpd

LEMMA TypeStep == AuthInv /\ [Next]_vars => TypeOK'
<1> SUFFICES ASSUME AuthInv, [Next]_vars PROVE TypeOK'
  OBVIOUS
<1> USE DocumentFacts, TokenFacts
    DEF AuthInv, TypeOK, RefreshShape, RequestShape, Publishing, Copying, Pointers,
        TaskPc, ReqPc, MainPc, Auth, Refresh, Request, Results, Responses
<1>0. live' \in 0..5
  BY HeapStep DEF HeapOwned, Owned
<1>1. CASE StartAuth
  <2>1. auth_ready' \in BOOLEAN
    BY <1>1 DEF StartAuth
  <2> QED
    BY <1>0, <1>1, <2>1 DEF StartAuth
<1>2. CASE StartServer
  BY <1>0, <1>2 DEF StartServer
<1>3. CASE TimeSyncChanges
  BY <1>0, <1>3 DEF TimeSyncChanges
<1>4. CASE BeginRefresh
  BY <1>0, <1>4 DEF BeginRefresh, TaskGoes
<1>5. CASE AllocBuffers
  <2>1. err' \in BOOLEAN
    BY <1>5 DEF AllocBuffers, TaskGoes, MallocMayFail
  <2> QED
    BY <1>0, <1>5, <2>1 DEF AllocBuffers, TaskGoes, MallocMayFail
<1>6. CASE Discover
  <2>1. err' \in BOOLEAN
    BY <1>6 DEF Discover, TaskGoes
  <2> QED
    BY <1>0, <1>6, <2>1 DEF Discover, TaskGoes
<1>7. CASE FetchJwks
  <2>1. err' \in BOOLEAN
    BY <1>7 DEF FetchJwks, TaskGoes
  <2> QED
    BY <1>0, <1>7, <2>1 DEF FetchJwks, TaskGoes
<1>8. CASE LockToPublish
  BY <1>0, <1>8 DEF LockToPublish, TaskGoes
<1>9. CASE FreeOldJwks
  BY <1>0, <1>9 DEF FreeOldJwks, TaskGoes, Blocks
<1>10. CASE PublishJwks
  BY <1>0, <1>10 DEF PublishJwks, TaskGoes
<1>11. CASE SetAuthReady
  BY <1>0, <1>11 DEF SetAuthReady, TaskGoes
<1>12. CASE UnlockPublished
  BY <1>0, <1>12 DEF UnlockPublished, TaskGoes
<1>13. CASE FreeBuffers
  BY <1>0, <1>13 DEF FreeBuffers, TaskGoes, Blocks
<1>14. CASE RefreshFailed
  <2>1. auth_ready' \in BOOLEAN
    BY <1>14 DEF RefreshFailed, TaskGoes
  <2> QED
    BY <1>0, <1>14, <2>1 DEF RefreshFailed, TaskGoes
<1>15. CASE Wake
  BY <1>0, <1>15 DEF Wake, TaskGoes
<1>16. CASE Receive
  BY <1>0, <1>16, ReceiveEffect DEF Blocks
<1>17. CASE CheckReady
  BY <1>0, <1>17 DEF CheckReady, ReqGoes
<1>18. CASE CheckTime
  BY <1>0, <1>18 DEF CheckTime, ReqGoes, MallocMayFail
<1>19. CASE LockToCopy
  BY <1>0, <1>19 DEF LockToCopy, ReqGoes
<1>20. CASE CopyJwks
  BY <1>0, <1>20 DEF CopyJwks, ReqGoes, MallocMayFail, Blocks
<1>21. CASE UnlockCopied
  BY <1>0, <1>21 DEF UnlockCopied, ReqGoes
<1>22. CASE VerifySignature
  BY <1>0, <1>22 DEF VerifySignature, ReqGoes, VerifyIf, MallocMayFail
<1>23. CASE ValidateClaims
  BY <1>0, <1>23 DEF ValidateClaims, ReqGoes, MallocMayFail
<1>24. CASE Answer
  BY <1>0, <1>24, AnswerEffect DEF Blocks
<1>25. CASE ReadSensor
  BY <1>0, <1>25 DEF ReadSensor, ReqGoes
<1>26. CASE UNCHANGED vars
  BY <1>0, <1>26 DEF vars
<1> QED
  BY <1>0, <1>1, <1>2, <1>3, <1>4, <1>5, <1>6, <1>7, <1>8, <1>9, <1>10, <1>11, <1>12, <1>13,
     <1>14, <1>15, <1>16, <1>17, <1>18, <1>19, <1>20, <1>21, <1>22, <1>23, <1>24, <1>25, <1>26
  DEF Next, AuthTask, Httpd

LEMMA InitStep == Init => AuthInv
<1> SUFFICES ASSUME Init PROVE AuthInv
  OBVIOUS
<1> USE DocumentFacts DEF Init
<1>1. auth_ready \in BOOLEAN /\ err \in BOOLEAN
  OBVIOUS
<1>2. token \in Tokens
  BY DEF Tokens, Unusable
<1>3. TypeOK
  BY <1>1, <1>2 DEF TypeOK, Pointers, Results, Responses, TaskPc, ReqPc, MainPc
<1>4. HeapOwned
  BY DEF HeapOwned, Owned
<1>5. ReadyHasJwks /\ GateFollowsRefresh
  BY DEF ReadyHasJwks, GateFollowsRefresh
<1>6. RefreshShape /\ RequestShape
  BY DEF RefreshShape, RequestShape, Publishing, Copying
<1> QED
  BY <1>3, <1>4, <1>5, <1>6 DEF AuthInv

LEMMA NextStep == AuthInv /\ [Next]_vars => AuthInv'
BY TypeStep, HeapStep, ReadyStep, GateStep, RefreshStep, RequestStep DEF AuthInv

LEMMA AuthInvHolds == Spec => []AuthInv
BY InitStep, NextStep, PTL DEF Spec

(* Every variable keeps its type, and s_auth_mutex is held exactly between *)
(* its take and its give.                                                  *)
THEOREM AuthTypeCorrect == Spec => []TypeOK
<1>1. AuthInv => TypeOK
  BY DEF AuthInv
<1> QED
  BY <1>1, AuthInvHolds, PTL

(* No refresh and no request, successful or cut short by an error or a     *)
(* failed allocation, leaks a block or leaves two owners of one.           *)
THEOREM HeapSafe == Spec => []HeapOwned
<1>1. AuthInv => HeapOwned
  BY DEF AuthInv
<1> QED
  BY <1>1, AuthInvHolds, PTL

(* No request copies the JWKS between its free and the assignment of the   *)
(* new one: both happen in one critical section.                           *)
THEOREM NoUseAfterFree == Spec => []NoDanglingRead
<1>1. AuthInv => NoDanglingRead
  BY DEF AuthInv, NoDanglingRead, TypeOK, RefreshShape, RequestShape, Publishing, Copying
<1> QED
  BY <1>1, AuthInvHolds, PTL

(* The gate is never open without a JWKS that passed validation.           *)
THEOREM GateHasJwks == Spec => []ReadyHasJwks
<1>1. AuthInv => ReadyHasJwks
  BY DEF AuthInv
<1> QED
  BY <1>1, AuthInvHolds, PTL

(* While the refresher sleeps, auth_ready says how its last attempt ended. *)
THEOREM GateIsHonest == Spec => []GateFollowsRefresh
<1>1. AuthInv => GateFollowsRefresh
  BY DEF AuthInv
<1> QED
  BY <1>1, AuthInvHolds, PTL

(* The two operations of the refresher that matter to the cell, and the    *)
(* one of a request: the old document is replaced when it is freed, and    *)
(* the assignment that follows changes nothing.                            *)
LEMMA CellChanges ==
  ASSUME AuthInv
  PROVE  /\ FreeOldJwks => PublishedBar' \in {d \in Documents : d.valid} /\ UNCHANGED <<copy, auth_ready>>
         /\ PublishJwks => UNCHANGED <<PublishedBar, copy, auth_ready>>
         /\ SetAuthReady => /\ PublishedBar \in {d \in Documents : d.valid} /\ auth_ready' = TRUE
                            /\ UNCHANGED <<PublishedBar, copy>>
         /\ CopyJwks => /\ copy = Null /\ copy' \in {PublishedBar, Null}
                        /\ UNCHANGED <<PublishedBar, auth_ready>>
<1> USE DEF AuthInv, RefreshShape, RequestShape, Publishing, Copying, Auth, Refresh, Request, PublishedBar
<1>1. FreeOldJwks => PublishedBar' \in {d \in Documents : d.valid} /\ UNCHANGED <<copy, auth_ready>>
  BY DEF FreeOldJwks, TaskGoes
<1>2. PublishJwks => UNCHANGED <<PublishedBar, copy, auth_ready>>
  BY DEF PublishJwks, TaskGoes
<1>3. SetAuthReady => /\ PublishedBar \in {d \in Documents : d.valid} /\ auth_ready' = TRUE
                      /\ UNCHANGED <<PublishedBar, copy>>
  BY DEF SetAuthReady, TaskGoes
<1>4. CopyJwks => /\ copy = Null /\ copy' \in {PublishedBar, Null}
                  /\ UNCHANGED <<PublishedBar, auth_ready>>
  BY DEF CopyJwks, ReqGoes
<1> QED
  BY <1>1, <1>2, <1>3, <1>4

LEMMA CellStep == AuthInv /\ [Next]_vars => [Cell!Next]_(Cell!vars)
<1> SUFFICES ASSUME AuthInv, [Next]_vars PROVE [Cell!Next]_(Cell!vars)
  OBVIOUS
<1> USE DEF Cell!Next, Cell!vars
<1> DEFINE Still == UNCHANGED <<PublishedBar, copy, auth_ready>>
<1>1. CASE Still
  BY <1>1 DEF PublishedBar
<1> HIDE DEF Still
<1>2. CASE StartAuth
  <2>1. UNCHANGED <<PublishedBar, copy>> /\ auth_ready' = FALSE
    BY <1>2 DEF StartAuth, PublishedBar, AuthInv, RefreshShape, Refresh, Request
  <2> QED
    BY <2>1 DEF Cell!Close
<1>3. CASE StartServer
  <2>1. Still
    BY <1>3 DEF Still, PublishedBar, StartServer, Auth, Refresh, Request
  <2> QED
    BY <1>1, <2>1
<1>4. CASE TimeSyncChanges
  <2>1. Still
    BY <1>4 DEF Still, PublishedBar, TimeSyncChanges, Auth, Refresh, Request
  <2> QED
    BY <1>1, <2>1
<1>5. CASE BeginRefresh
  <2>1. Still
    BY <1>5 DEF Still, PublishedBar, BeginRefresh, TaskGoes, Auth, Refresh, Request
  <2> QED
    BY <1>1, <2>1
<1>6. CASE AllocBuffers
  <2>1. Still
    BY <1>6 DEF Still, PublishedBar, AllocBuffers, TaskGoes, Auth, Refresh, Request
  <2> QED
    BY <1>1, <2>1
<1>7. CASE Discover
  <2>1. Still
    BY <1>7 DEF Still, PublishedBar, Discover, TaskGoes, Auth, Refresh, Request
  <2> QED
    BY <1>1, <2>1
<1>8. CASE FetchJwks
  <2>1. Still
    BY <1>8 DEF Still, PublishedBar, FetchJwks, TaskGoes, Auth, Refresh, Request
  <2> QED
    BY <1>1, <2>1
<1>9. CASE LockToPublish
  <2>1. Still
    BY <1>9 DEF Still, PublishedBar, LockToPublish, TaskGoes, Auth, Refresh, Request
  <2> QED
    BY <1>1, <2>1
<1>10. CASE UnlockPublished
  <2>1. Still
    BY <1>10 DEF Still, PublishedBar, UnlockPublished, TaskGoes, Auth, Refresh, Request
  <2> QED
    BY <1>1, <2>1
<1>11. CASE FreeBuffers
  <2>1. Still
    BY <1>11 DEF Still, PublishedBar, FreeBuffers, TaskGoes, Auth, Refresh, Request
  <2> QED
    BY <1>1, <2>1
<1>12. CASE Wake
  <2>1. Still
    BY <1>12 DEF Still, PublishedBar, Wake, TaskGoes, Auth, Refresh, Request
  <2> QED
    BY <1>1, <2>1
<1>13. CASE CheckReady
  <2>1. Still
    BY <1>13 DEF Still, PublishedBar, CheckReady, ReqGoes, Auth, Refresh, Request
  <2> QED
    BY <1>1, <2>1
<1>14. CASE CheckTime
  <2>1. Still
    BY <1>14 DEF Still, PublishedBar, CheckTime, ReqGoes, Auth, Refresh, Request
  <2> QED
    BY <1>1, <2>1
<1>15. CASE LockToCopy
  <2>1. Still
    BY <1>15 DEF Still, PublishedBar, LockToCopy, ReqGoes, Auth, Refresh, Request
  <2> QED
    BY <1>1, <2>1
<1>16. CASE UnlockCopied
  <2>1. Still
    BY <1>16 DEF Still, PublishedBar, UnlockCopied, ReqGoes, Auth, Refresh, Request
  <2> QED
    BY <1>1, <2>1
<1>17. CASE VerifySignature
  <2>1. Still
    BY <1>17 DEF Still, PublishedBar, VerifySignature, ReqGoes, VerifyIf, Auth, Refresh, Request
  <2> QED
    BY <1>1, <2>1
<1>18. CASE ValidateClaims
  <2>1. Still
    BY <1>18 DEF Still, PublishedBar, ValidateClaims, ReqGoes, Auth, Refresh, Request
  <2> QED
    BY <1>1, <2>1
<1>19. CASE ReadSensor
  <2>1. Still
    BY <1>19 DEF Still, PublishedBar, ReadSensor, ReqGoes, Auth, Refresh, Request
  <2> QED
    BY <1>1, <2>1
<1>20. CASE FreeOldJwks
  BY <1>20, CellChanges DEF Cell!Replace
<1>21. CASE PublishJwks
  <2>1. Still
    BY <1>21, CellChanges DEF Still
  <2> QED
    BY <1>1, <2>1
<1>22. CASE SetAuthReady
  BY <1>22, CellChanges DEF Cell!Open
<1>23. CASE RefreshFailed
  <2>1. UNCHANGED <<PublishedBar, copy>> /\ auth_ready' = FALSE
    BY <1>23 DEF RefreshFailed, TaskGoes, PublishedBar, Refresh, Request
  <2> QED
    BY <2>1 DEF Cell!Close
<1>24. CASE CopyJwks
  BY <1>24, CellChanges DEF Cell!Copy, Cell!Drop
<1>25. CASE Receive
  <2>1. Still
    BY <1>25, ReceiveEffect DEF Still, PublishedBar, Refresh
  <2> QED
    BY <1>1, <2>1
<1>26. CASE Answer
  <2>1. UNCHANGED <<PublishedBar, auth_ready>> /\ copy' = Null
    BY <1>26, AnswerEffect DEF PublishedBar, Refresh
  <2> QED
    BY <2>1 DEF Cell!Drop
<1>27. CASE UNCHANGED vars
  <2>1. Still
    BY <1>27 DEF Still, PublishedBar, vars, Auth, Refresh, Request
  <2> QED
    BY <1>1, <2>1
<1> QED
  BY <1>2, <1>3, <1>4, <1>5, <1>6, <1>7, <1>8, <1>9, <1>10, <1>11, <1>12, <1>13, <1>14, <1>15, <1>16, <1>17, <1>18, <1>19, <1>20, <1>21, <1>22, <1>23, <1>24, <1>25, <1>26, <1>27
     DEF Next, AuthTask, Httpd

(* The JWKS is an atomic cell: whatever fails and whatever runs beside it, *)
(* a refresh replaces the document at one moment, a request copies a whole *)
(* one, and the gate opens over a valid one.                               *)
THEOREM JwksIsAtomic == Spec => ImplementsJwksCell
<1>1. Init => Cell!Init
  BY DEF Init, Cell!Init, PublishedBar
<1>2. AuthInv /\ [Next]_vars => [Cell!Next]_(Cell!vars)
  BY CellStep
<1> QED
  BY <1>1, <1>2, AuthInvHolds, PTL DEF Spec, ImplementsJwksCell, Cell!Spec
=============================================================================
