------------------------- MODULE WifiManagerProofs -------------------------
(***************************************************************************)
(* What holds of WifiManager for every MaxRetry and every set of SNTP      *)
(* tasks.  Each invariant is proved by cases on the actions; the later     *)
(* ones use TypeCorrect and, where they are not inductive, a named         *)
(* strengthening.                                                          *)
(***************************************************************************)
EXTENDS WifiManager, TLAPS

(* The solver that does the arithmetic loses the type of a flag assigned   *)
(* FALSE, so the flags and the rest of the state are typed separately.     *)
FlagTypes ==
  /\ wifi_connected \in BOOLEAN
  /\ time_synced \in BOOLEAN
  /\ s_sntp_sync_running \in BOOLEAN
  /\ clockSane \in BOOLEAN
  /\ sntpRunning \in BOOLEAN

OtherTypes ==
  /\ s_wifi_events \in SUBSET Bits
  /\ s_retry_count \in 0..MaxRetry
  /\ main \in MainPc
  /\ handler \in HandlerPc
  /\ sntp \in [SntpTasks -> SntpPc]
  /\ radio \in Radio
  /\ queue \in Seq(Events)

(* Type correctness, with the bound on the retry counter: the log never    *)
(* counts past MAX_RETRY, whatever order connects and disconnects come in. *)
THEOREM TypeCorrect == Spec => []TypeOK
<1>1. Init => TypeOK
  <2> SUFFICES ASSUME Init PROVE TypeOK
    OBVIOUS
  <2>1. FlagTypes
    BY Zenon DEF Init, FlagTypes
  <2>2. OtherTypes
    BY MaxRetryAssumption
    DEF Init, OtherTypes, Bits, Radio, MainPc, HandlerPc, SntpPc
  <2> QED
    BY <2>1, <2>2 DEF TypeOK, FlagTypes, OtherTypes
<1>2. TypeOK /\ [Next]_vars => TypeOK'
  <2> SUFFICES ASSUME FlagTypes, OtherTypes, [Next]_vars
               PROVE  FlagTypes' /\ OtherTypes'
    BY DEF TypeOK, FlagTypes, OtherTypes
  <2> USE MaxRetryAssumption DEF status, shared, clock,
      Bits, Events, Radio, MainPc, HandlerPc, SntpPc
  <2>1. CASE GetIp
    <3>1. FlagTypes'
      BY <2>1, Zenon DEF FlagTypes, GetIp
    <3>2. OtherTypes'
      BY <2>1 DEF OtherTypes, GetIp
    <3> QED
      BY <3>1, <3>2
  <2>2. CASE LoseLink
    <3>1. FlagTypes'
      BY <2>2, Zenon DEF FlagTypes, LoseLink, EspWifiDown, Active
    <3>2. OtherTypes'
      BY <2>2 DEF OtherTypes, LoseLink, EspWifiDown, Active
    <3> QED
      BY <3>1, <3>2
  <2>3. CASE ProvisionerConnect
    <3>1. FlagTypes'
      BY <2>3, Zenon DEF FlagTypes, ProvisionerConnect, EspWifiConnect
    <3>2. OtherTypes'
      BY <2>3 DEF OtherTypes, ProvisionerConnect, EspWifiConnect
    <3> QED
      BY <3>1, <3>2
  <2>4. CASE ClockSet
    <3>1. FlagTypes'
      BY <2>4, Zenon DEF FlagTypes, ClockSet
    <3>2. OtherTypes'
      BY <2>4 DEF OtherTypes, ClockSet
    <3> QED
      BY <3>1, <3>2
  <2>5. CASE InitStack
    <3>1. FlagTypes'
      BY <2>5, Zenon DEF FlagTypes, InitStack, MainGoes
    <3>2. OtherTypes'
      BY <2>5 DEF OtherTypes, InitStack, MainGoes
    <3> QED
      BY <3>1, <3>2
  <2>6. CASE StartStation
    <3>1. FlagTypes'
      BY <2>6, Zenon DEF FlagTypes, StartStation, MainGoes, EspWifiStart
    <3>2. OtherTypes'
      BY <2>6 DEF OtherTypes, StartStation, MainGoes, EspWifiStart
    <3> QED
      BY <3>1, <3>2
  <2>7. CASE WaitConnected
    <3>1. FlagTypes'
      BY <2>7, Zenon DEF FlagTypes, WaitConnected, MainGoes
    <3>2. OtherTypes'
      BY <2>7 DEF OtherTypes, WaitConnected, MainGoes
    <3> QED
      BY <3>1, <3>2
  <2>8. CASE ConnectFailed
    <3>1. FlagTypes'
      BY <2>8, Zenon DEF FlagTypes, ConnectFailed, MainGoes
    <3>2. OtherTypes'
      BY <2>8 DEF OtherTypes, ConnectFailed, MainGoes
    <3> QED
      BY <3>1, <3>2
  <2>9. CASE WaitTime
    <3>1. FlagTypes'
      BY <2>9, Zenon DEF FlagTypes, WaitTime, MainGoes
    <3>2. OtherTypes'
      BY <2>9 DEF OtherTypes, WaitTime, MainGoes
    <3> QED
      BY <3>1, <3>2
  <2>10. CASE TimeFailed
    <3>1. FlagTypes'
      BY <2>10, Zenon DEF FlagTypes, TimeFailed, MainGoes
    <3>2. OtherTypes'
      BY <2>10 DEF OtherTypes, TimeFailed, MainGoes
    <3> QED
      BY <3>1, <3>2
  <2>11. CASE FallbackDisconnect
    <3>1. FlagTypes'
      BY <2>11, Zenon DEF FlagTypes, FallbackDisconnect, MainGoes, EspWifiDown, Active
    <3>2. OtherTypes'
      BY <2>11 DEF OtherTypes, FallbackDisconnect, MainGoes, EspWifiDown, Active
    <3> QED
      BY <3>1, <3>2
  <2>12. CASE FallbackStop
    <3>1. FlagTypes'
      BY <2>12, Zenon DEF FlagTypes, FallbackStop, MainGoes, EspWifiDown, Active
    <3>2. OtherTypes'
      BY <2>12 DEF OtherTypes, FallbackStop, MainGoes, EspWifiDown, Active
    <3> QED
      BY <3>1, <3>2
  <2>13. CASE ProvisioningClearWifi
    <3>1. FlagTypes'
      BY <2>13, Zenon DEF FlagTypes, ProvisioningClearWifi, MainGoes
    <3>2. OtherTypes'
      BY <2>13 DEF OtherTypes, ProvisioningClearWifi, MainGoes
    <3> QED
      BY <3>1, <3>2
  <2>14. CASE ProvisioningClearTime
    <3>1. FlagTypes'
      BY <2>14, Zenon DEF FlagTypes, ProvisioningClearTime, MainGoes
    <3>2. OtherTypes'
      BY <2>14 DEF OtherTypes, ProvisioningClearTime, MainGoes
    <3> QED
      BY <3>1, <3>2
  <2>15. CASE StartProvisioning
    <3>1. FlagTypes'
      BY <2>15, Zenon DEF FlagTypes, StartProvisioning, MainGoes, EspWifiStart
    <3>2. OtherTypes'
      BY <2>15 DEF OtherTypes, StartProvisioning, MainGoes, EspWifiStart
    <3> QED
      BY <3>1, <3>2
  <2>16. CASE HandleStaStart
    <3>1. FlagTypes'
      BY <2>16, Zenon DEF FlagTypes, HandleStaStart, Dispatch, EspWifiConnect
    <3>2. OtherTypes'
      BY <2>16 DEF OtherTypes, HandleStaStart, Dispatch, EspWifiConnect
    <3> QED
      BY <3>1, <3>2
  <2>17. CASE HandleDisconnected
    <3>1. FlagTypes'
      BY <2>17, Zenon DEF FlagTypes, HandleDisconnected, HandlerGoes, Dispatch
    <3>2. OtherTypes'
      BY <2>17 DEF OtherTypes, HandleDisconnected, HandlerGoes, Dispatch
    <3> QED
      BY <3>1, <3>2
  <2>18. CASE RetryOrGiveUp
    <3>1. FlagTypes'
      BY <2>18, Zenon DEF FlagTypes, RetryOrGiveUp, RetryWhile, HandlerGoes, EspWifiConnect
    <3>2. OtherTypes'
      <4>1. CASE s_retry_count < MaxRetry
        <5>1. s_retry_count' \in 0..MaxRetry
          BY <2>18, <4>1 DEF OtherTypes, RetryOrGiveUp, RetryWhile
        <5> QED
          BY <2>18, <4>1, <5>1
          DEF OtherTypes, RetryOrGiveUp, RetryWhile, HandlerGoes, EspWifiConnect
      <4>2. CASE ~(s_retry_count < MaxRetry)
        BY <2>18, <4>2
        DEF OtherTypes, RetryOrGiveUp, RetryWhile, HandlerGoes
      <4> QED
        BY <4>1, <4>2
    <3> QED
      BY <3>1, <3>2
  <2>19. CASE HandleGotIp
    <3>1. FlagTypes'
      BY <2>19, Zenon DEF FlagTypes, HandleGotIp, HandlerGoes, Dispatch
    <3>2. OtherTypes'
      BY <2>19 DEF OtherTypes, HandleGotIp, HandlerGoes, Dispatch
    <3> QED
      BY <3>1, <3>2
  <2>20. CASE RequestTimeSync
    <3>1. FlagTypes'
      BY <2>20, Zenon DEF FlagTypes, RequestTimeSync, HandlerGoes
    <3>2. OtherTypes'
      BY <2>20 DEF OtherTypes, RequestTimeSync, HandlerGoes
    <3> QED
      BY <3>1, <3>2
  <2>21. CASE CreateSntpTask
    <3>1. FlagTypes'
      BY <2>21, Zenon DEF FlagTypes, CreateSntpTask, HandlerGoes
    <3>2. OtherTypes'
      BY <2>21 DEF OtherTypes, CreateSntpTask, HandlerGoes
    <3> QED
      BY <3>1, <3>2
  <2>22. CASE CreateFailedRelease
    <3>1. FlagTypes'
      BY <2>22, Zenon DEF FlagTypes, CreateFailedRelease, HandlerGoes
    <3>2. OtherTypes'
      BY <2>22 DEF OtherTypes, CreateFailedRelease, HandlerGoes
    <3> QED
      BY <3>1, <3>2
  <2>23. CASE CreateFailedStatus
    <3>1. FlagTypes'
      BY <2>23, Zenon DEF FlagTypes, CreateFailedStatus, HandlerGoes
    <3>2. OtherTypes'
      BY <2>23 DEF OtherTypes, CreateFailedStatus, HandlerGoes
    <3> QED
      BY <3>1, <3>2
  <2>24. CASE CreateFailedBit
    <3>1. FlagTypes'
      BY <2>24, Zenon DEF FlagTypes, CreateFailedBit, HandlerGoes
    <3>2. OtherTypes'
      BY <2>24 DEF OtherTypes, CreateFailedBit, HandlerGoes
    <3> QED
      BY <3>1, <3>2
  <2>25. CASE SignalConnected
    <3>1. FlagTypes'
      BY <2>25, Zenon DEF FlagTypes, SignalConnected, HandlerGoes
    <3>2. OtherTypes'
      BY <2>25 DEF OtherTypes, SignalConnected, HandlerGoes
    <3> QED
      BY <3>1, <3>2
  <2>26. ASSUME NEW t \in SntpTasks, SntpClearStatus(t) PROVE FlagTypes' /\ OtherTypes'
    <3>1. FlagTypes'
      BY <2>26, Zenon DEF FlagTypes, SntpClearStatus, SntpGoes
    <3>2. OtherTypes'
      BY <2>26 DEF OtherTypes, SntpClearStatus, SntpGoes
    <3> QED
      BY <3>1, <3>2
  <2>27. ASSUME NEW t \in SntpTasks, SntpInit(t) PROVE FlagTypes' /\ OtherTypes'
    <3>1. FlagTypes'
      BY <2>27, Zenon DEF FlagTypes, SntpInit, SntpGoes
    <3>2. OtherTypes'
      BY <2>27 DEF OtherTypes, SntpInit, SntpGoes
    <3> QED
      BY <3>1, <3>2
  <2>28. ASSUME NEW t \in SntpTasks, SntpCheck(t) PROVE FlagTypes' /\ OtherTypes'
    <3>1. FlagTypes'
      BY <2>28, Zenon DEF FlagTypes, SntpCheck, SntpGoes
    <3>2. OtherTypes'
      BY <2>28 DEF OtherTypes, SntpCheck, SntpGoes
    <3> QED
      BY <3>1, <3>2
  <2>29. ASSUME NEW t \in SntpTasks, SntpPollAgain(t) PROVE FlagTypes' /\ OtherTypes'
    <3>1. FlagTypes'
      BY <2>29, Zenon DEF FlagTypes, SntpPollAgain, SntpGoes
    <3>2. OtherTypes'
      BY <2>29 DEF OtherTypes, SntpPollAgain, SntpGoes
    <3> QED
      BY <3>1, <3>2
  <2>30. ASSUME NEW t \in SntpTasks, SntpExpire(t) PROVE FlagTypes' /\ OtherTypes'
    <3>1. FlagTypes'
      BY <2>30, Zenon DEF FlagTypes, SntpExpire, SntpGoes
    <3>2. OtherTypes'
      BY <2>30 DEF OtherTypes, SntpExpire, SntpGoes
    <3> QED
      BY <3>1, <3>2
  <2>31. ASSUME NEW t \in SntpTasks, SntpVerdict(t, "sane", TRUE, "sync_bit") PROVE FlagTypes' /\ OtherTypes'
    <3>1. FlagTypes'
      BY <2>31, Zenon DEF FlagTypes, SntpVerdict, SntpGoes
    <3>2. OtherTypes'
      BY <2>31 DEF OtherTypes, SntpVerdict, SntpGoes
    <3> QED
      BY <3>1, <3>2
  <2>32. ASSUME NEW t \in SntpTasks, SntpVerdict(t, "expired", FALSE, "fail_bit") PROVE FlagTypes' /\ OtherTypes'
    <3>1. FlagTypes'
      BY <2>32, Zenon DEF FlagTypes, SntpVerdict, SntpGoes
    <3>2. OtherTypes'
      BY <2>32 DEF OtherTypes, SntpVerdict, SntpGoes
    <3> QED
      BY <3>1, <3>2
  <2>33. ASSUME NEW t \in SntpTasks, SntpSignal(t, "sync_bit", "TIME_SYNC") PROVE FlagTypes' /\ OtherTypes'
    <3>1. FlagTypes'
      BY <2>33, Zenon DEF FlagTypes, SntpSignal, SntpGoes
    <3>2. OtherTypes'
      BY <2>33 DEF OtherTypes, SntpSignal, SntpGoes
    <3> QED
      BY <3>1, <3>2
  <2>34. ASSUME NEW t \in SntpTasks, SntpSignal(t, "fail_bit", "TIME_FAIL") PROVE FlagTypes' /\ OtherTypes'
    <3>1. FlagTypes'
      BY <2>34, Zenon DEF FlagTypes, SntpSignal, SntpGoes
    <3>2. OtherTypes'
      BY <2>34 DEF OtherTypes, SntpSignal, SntpGoes
    <3> QED
      BY <3>1, <3>2
  <2>35. ASSUME NEW t \in SntpTasks, SntpDelete(t) PROVE FlagTypes' /\ OtherTypes'
    <3>1. FlagTypes'
      BY <2>35, Zenon DEF FlagTypes, SntpDelete, SntpGoes
    <3>2. OtherTypes'
      BY <2>35 DEF OtherTypes, SntpDelete, SntpGoes
    <3> QED
      BY <3>1, <3>2
  <2>36. CASE UNCHANGED vars
    <3>1. FlagTypes'
      BY <2>36, Zenon DEF FlagTypes, vars
    <3>2. OtherTypes'
      BY <2>36 DEF OtherTypes, vars
    <3> QED
      BY <3>1, <3>2
  <2> QED
    BY <2>1, <2>2, <2>3, <2>4, <2>5, <2>6, <2>7, <2>8, <2>9, <2>10, <2>11, <2>12, <2>13, <2>14,
       <2>15, <2>16, <2>17, <2>18, <2>19, <2>20, <2>21, <2>22, <2>23, <2>24, <2>25, <2>26, <2>27, <2>28,
       <2>29, <2>30, <2>31, <2>32, <2>33, <2>34, <2>35, <2>36
    DEF Next, Environment, Main, Handler, Sntp, SntpStep
<1> QED
  BY <1>1, <1>2, PTL DEF Spec

(* s_sntp_sync_running is owned by exactly one thread while it is set and  *)
(* by none while it is clear: there is never a second SNTP task, and the   *)
(* flag is never lost.  The invariant is inductive given the types.        *)
THEOREM SyncOwnership == Spec => []SyncFlagOwned
<1>1. Init => SyncFlagOwned
  BY DEF Init, SyncFlagOwned, HandlerOwnsSync, Running
<1>2. TypeOK /\ SyncFlagOwned /\ [Next]_vars => SyncFlagOwned'
  <2> SUFFICES ASSUME TypeOK, SyncFlagOwned, [Next]_vars PROVE SyncFlagOwned'
    OBVIOUS
  <2> USE DEF TypeOK, SyncFlagOwned, HandlerOwnsSync, Running, status, shared, clock
  <2>1. CASE GetIp
    BY <2>1 DEF GetIp
  <2>2. CASE LoseLink
    BY <2>2 DEF LoseLink, EspWifiDown, Active
  <2>3. CASE ProvisionerConnect
    BY <2>3 DEF ProvisionerConnect, EspWifiConnect
  <2>4. CASE ClockSet
    BY <2>4 DEF ClockSet
  <2>5. CASE InitStack
    BY <2>5 DEF InitStack, MainGoes
  <2>6. CASE StartStation
    BY <2>6 DEF StartStation, MainGoes, EspWifiStart
  <2>7. CASE WaitConnected
    BY <2>7 DEF WaitConnected, MainGoes
  <2>8. CASE ConnectFailed
    BY <2>8 DEF ConnectFailed, MainGoes
  <2>9. CASE WaitTime
    BY <2>9 DEF WaitTime, MainGoes
  <2>10. CASE TimeFailed
    BY <2>10 DEF TimeFailed, MainGoes
  <2>11. CASE FallbackDisconnect
    BY <2>11 DEF FallbackDisconnect, MainGoes, EspWifiDown, Active
  <2>12. CASE FallbackStop
    BY <2>12 DEF FallbackStop, MainGoes, EspWifiDown, Active
  <2>13. CASE ProvisioningClearWifi
    BY <2>13 DEF ProvisioningClearWifi, MainGoes
  <2>14. CASE ProvisioningClearTime
    BY <2>14 DEF ProvisioningClearTime, MainGoes
  <2>15. CASE StartProvisioning
    BY <2>15 DEF StartProvisioning, MainGoes, EspWifiStart
  <2>16. CASE HandleStaStart
    BY <2>16 DEF HandleStaStart, Dispatch, EspWifiConnect
  <2>17. CASE HandleDisconnected
    BY <2>17 DEF HandleDisconnected, HandlerGoes, Dispatch
  <2>18. CASE RetryOrGiveUp
    BY <2>18 DEF RetryOrGiveUp, RetryWhile, HandlerGoes, EspWifiConnect
  <2>19. CASE HandleGotIp
    BY <2>19 DEF HandleGotIp, HandlerGoes, Dispatch
  <2>20. CASE RequestTimeSync
    BY <2>20 DEF RequestTimeSync, HandlerGoes
  <2>21. CASE CreateSntpTask
    BY <2>21 DEF CreateSntpTask, HandlerGoes
  <2>22. CASE CreateFailedRelease
    BY <2>22 DEF CreateFailedRelease, HandlerGoes
  <2>23. CASE CreateFailedStatus
    BY <2>23 DEF CreateFailedStatus, HandlerGoes
  <2>24. CASE CreateFailedBit
    BY <2>24 DEF CreateFailedBit, HandlerGoes
  <2>25. CASE SignalConnected
    BY <2>25 DEF SignalConnected, HandlerGoes
  <2>26. ASSUME NEW t \in SntpTasks, SntpClearStatus(t) PROVE SyncFlagOwned'
    BY <2>26 DEF SntpClearStatus, SntpGoes
  <2>27. ASSUME NEW t \in SntpTasks, SntpInit(t) PROVE SyncFlagOwned'
    BY <2>27 DEF SntpInit, SntpGoes
  <2>28. ASSUME NEW t \in SntpTasks, SntpCheck(t) PROVE SyncFlagOwned'
    BY <2>28 DEF SntpCheck, SntpGoes
  <2>29. ASSUME NEW t \in SntpTasks, SntpPollAgain(t) PROVE SyncFlagOwned'
    BY <2>29 DEF SntpPollAgain, SntpGoes
  <2>30. ASSUME NEW t \in SntpTasks, SntpExpire(t) PROVE SyncFlagOwned'
    BY <2>30 DEF SntpExpire, SntpGoes
  <2>31. ASSUME NEW t \in SntpTasks, SntpVerdict(t, "sane", TRUE, "sync_bit") PROVE SyncFlagOwned'
    BY <2>31 DEF SntpVerdict, SntpGoes
  <2>32. ASSUME NEW t \in SntpTasks, SntpVerdict(t, "expired", FALSE, "fail_bit") PROVE SyncFlagOwned'
    BY <2>32 DEF SntpVerdict, SntpGoes
  <2>33. ASSUME NEW t \in SntpTasks, SntpSignal(t, "sync_bit", "TIME_SYNC") PROVE SyncFlagOwned'
    BY <2>33 DEF SntpSignal, SntpGoes
  <2>34. ASSUME NEW t \in SntpTasks, SntpSignal(t, "fail_bit", "TIME_FAIL") PROVE SyncFlagOwned'
    BY <2>34 DEF SntpSignal, SntpGoes
  <2>35. ASSUME NEW t \in SntpTasks, SntpDelete(t) PROVE SyncFlagOwned'
    BY <2>35 DEF SntpDelete, SntpGoes
  <2>36. CASE UNCHANGED vars
    BY <2>36 DEF vars
  <2> QED
    BY <2>1, <2>2, <2>3, <2>4, <2>5, <2>6, <2>7, <2>8, <2>9, <2>10, <2>11, <2>12, <2>13, <2>14,
       <2>15, <2>16, <2>17, <2>18, <2>19, <2>20, <2>21, <2>22, <2>23, <2>24, <2>25, <2>26, <2>27, <2>28,
       <2>29, <2>30, <2>31, <2>32, <2>33, <2>34, <2>35, <2>36
    DEF Next, Environment, Main, Handler, Sntp, SntpStep
<1> QED
  BY <1>1, <1>2, TypeCorrect, PTL DEF Spec

(* TimeSyncedSound is not inductive: between reading the clock and writing *)
(* the flag the task holds its verdict in its program counter.             *)
VerdictSound ==
  /\ TimeSyncedSound
  /\ \A t \in SntpTasks : sntp[t] = "sane" => clockSane

(* time_synced is true only of a clock that was set, through every race of *)
(* an SNTP task with app_main's thread and the event loop.                 *)
THEOREM SyncedClock == Spec => []TimeSyncedSound
<1>1. Init => VerdictSound
  BY DEF Init, VerdictSound, TimeSyncedSound
<1>2. TypeOK /\ VerdictSound /\ [Next]_vars => VerdictSound'
  <2> SUFFICES ASSUME TypeOK, VerdictSound, [Next]_vars PROVE VerdictSound'
    OBVIOUS
  <2> USE DEF TypeOK, VerdictSound, TimeSyncedSound, status, shared, clock
  <2>1. CASE GetIp
    BY <2>1 DEF GetIp
  <2>2. CASE LoseLink
    BY <2>2 DEF LoseLink, EspWifiDown, Active
  <2>3. CASE ProvisionerConnect
    BY <2>3 DEF ProvisionerConnect, EspWifiConnect
  <2>4. CASE ClockSet
    BY <2>4 DEF ClockSet
  <2>5. CASE InitStack
    BY <2>5 DEF InitStack, MainGoes
  <2>6. CASE StartStation
    BY <2>6 DEF StartStation, MainGoes, EspWifiStart
  <2>7. CASE WaitConnected
    BY <2>7 DEF WaitConnected, MainGoes
  <2>8. CASE ConnectFailed
    BY <2>8 DEF ConnectFailed, MainGoes
  <2>9. CASE WaitTime
    BY <2>9 DEF WaitTime, MainGoes
  <2>10. CASE TimeFailed
    BY <2>10 DEF TimeFailed, MainGoes
  <2>11. CASE FallbackDisconnect
    BY <2>11 DEF FallbackDisconnect, MainGoes, EspWifiDown, Active
  <2>12. CASE FallbackStop
    BY <2>12 DEF FallbackStop, MainGoes, EspWifiDown, Active
  <2>13. CASE ProvisioningClearWifi
    BY <2>13 DEF ProvisioningClearWifi, MainGoes
  <2>14. CASE ProvisioningClearTime
    BY <2>14 DEF ProvisioningClearTime, MainGoes
  <2>15. CASE StartProvisioning
    BY <2>15 DEF StartProvisioning, MainGoes, EspWifiStart
  <2>16. CASE HandleStaStart
    BY <2>16 DEF HandleStaStart, Dispatch, EspWifiConnect
  <2>17. CASE HandleDisconnected
    BY <2>17 DEF HandleDisconnected, HandlerGoes, Dispatch
  <2>18. CASE RetryOrGiveUp
    BY <2>18 DEF RetryOrGiveUp, RetryWhile, HandlerGoes, EspWifiConnect
  <2>19. CASE HandleGotIp
    BY <2>19 DEF HandleGotIp, HandlerGoes, Dispatch
  <2>20. CASE RequestTimeSync
    BY <2>20 DEF RequestTimeSync, HandlerGoes
  <2>21. CASE CreateSntpTask
    BY <2>21 DEF CreateSntpTask, HandlerGoes
  <2>22. CASE CreateFailedRelease
    BY <2>22 DEF CreateFailedRelease, HandlerGoes
  <2>23. CASE CreateFailedStatus
    BY <2>23 DEF CreateFailedStatus, HandlerGoes
  <2>24. CASE CreateFailedBit
    BY <2>24 DEF CreateFailedBit, HandlerGoes
  <2>25. CASE SignalConnected
    BY <2>25 DEF SignalConnected, HandlerGoes
  <2>26. ASSUME NEW t \in SntpTasks, SntpClearStatus(t) PROVE VerdictSound'
    BY <2>26 DEF SntpClearStatus, SntpGoes
  <2>27. ASSUME NEW t \in SntpTasks, SntpInit(t) PROVE VerdictSound'
    BY <2>27 DEF SntpInit, SntpGoes
  <2>28. ASSUME NEW t \in SntpTasks, SntpCheck(t) PROVE VerdictSound'
    BY <2>28 DEF SntpCheck, SntpGoes
  <2>29. ASSUME NEW t \in SntpTasks, SntpPollAgain(t) PROVE VerdictSound'
    BY <2>29 DEF SntpPollAgain, SntpGoes
  <2>30. ASSUME NEW t \in SntpTasks, SntpExpire(t) PROVE VerdictSound'
    BY <2>30 DEF SntpExpire, SntpGoes
  <2>31. ASSUME NEW t \in SntpTasks, SntpVerdict(t, "sane", TRUE, "sync_bit") PROVE VerdictSound'
    BY <2>31 DEF SntpVerdict, SntpGoes
  <2>32. ASSUME NEW t \in SntpTasks, SntpVerdict(t, "expired", FALSE, "fail_bit") PROVE VerdictSound'
    BY <2>32 DEF SntpVerdict, SntpGoes
  <2>33. ASSUME NEW t \in SntpTasks, SntpSignal(t, "sync_bit", "TIME_SYNC") PROVE VerdictSound'
    BY <2>33 DEF SntpSignal, SntpGoes
  <2>34. ASSUME NEW t \in SntpTasks, SntpSignal(t, "fail_bit", "TIME_FAIL") PROVE VerdictSound'
    BY <2>34 DEF SntpSignal, SntpGoes
  <2>35. ASSUME NEW t \in SntpTasks, SntpDelete(t) PROVE VerdictSound'
    BY <2>35 DEF SntpDelete, SntpGoes
  <2>36. CASE UNCHANGED vars
    BY <2>36 DEF vars
  <2> QED
    BY <2>1, <2>2, <2>3, <2>4, <2>5, <2>6, <2>7, <2>8, <2>9, <2>10, <2>11, <2>12, <2>13, <2>14,
       <2>15, <2>16, <2>17, <2>18, <2>19, <2>20, <2>21, <2>22, <2>23, <2>24, <2>25, <2>26, <2>27, <2>28,
       <2>29, <2>30, <2>31, <2>32, <2>33, <2>34, <2>35, <2>36
    DEF Next, Environment, Main, Handler, Sntp, SntpStep
<1>3. VerdictSound => TimeSyncedSound
  BY DEF VerdictSound
<1> QED
  BY <1>1, <1>2, <1>3, TypeCorrect, PTL DEF Spec

(***************************************************************************)
(* How far the event loop is behind the driver, read off its queue: the    *)
(* last event tells whether the link is up, and with no event pending      *)
(* wifi_connected does, but for app_main's thread, which clears it before  *)
(* it disconnects.  No STA_START can follow a STA_GOT_IP, since the driver *)
(* is started only when it is stopped; and before it is started nothing    *)
(* is up.                                                                  *)
(***************************************************************************)
QueueTellsLink ==
  queue # <<>> => (queue[Len(queue)] = "STA_GOT_IP" <=> radio = "up")

FlagTellsLink ==
  queue = <<>> =>
    /\ radio # "up" => wifi_connected = FALSE
    /\ radio = "up" /\ main # "disconnect" => wifi_connected = TRUE

StartsUnconnected ==
  \A i \in 1..Len(queue) : queue[i] = "STA_START" =>
    /\ i = 1 => wifi_connected = FALSE
    /\ i # 1 => queue[i - 1] # "STA_GOT_IP"

DriverStopped ==
  main \in {"init_stack", "start_station", "prov_wifi_flag", "prov_time_flag", "prov_start"}
    => radio = "stopped"

LinkInv == QueueTellsLink /\ FlagTellsLink /\ StartsUnconnected /\ DriverStopped

(* Appending an event, and taking the first one off.                       *)
LEMMA AppendEvent ==
  ASSUME NEW q \in Seq(Events), NEW e \in Events
  PROVE  /\ Append(q, e) # <<>>
         /\ Len(Append(q, e)) = Len(q) + 1
         /\ Append(q, e)[Len(q) + 1] = e
         /\ \A i \in 1..Len(q) : Append(q, e)[i] = q[i]
OBVIOUS

LEMMA TakeEvent ==
  ASSUME NEW q \in Seq(Events), q # <<>>
  PROVE  /\ Len(q) \in Nat \ {0}
         /\ Len(Tail(q)) = Len(q) - 1
         /\ Tail(q) = <<>> <=> Len(q) = 1
         /\ \A i \in 1..Len(q) - 1 : Tail(q)[i] = q[i + 1]
<1>1. Len(q) \in Nat \ {0}
  OBVIOUS
<1>2. Len(Tail(q)) = Len(q) - 1
  OBVIOUS
<1>3. \A i \in 1..Len(q) - 1 : Tail(q)[i] = q[i + 1]
  BY <1>1
<1>4. Tail(q) \in Seq(Events)
  OBVIOUS
<1>5. \A s \in Seq(Events) : s = <<>> <=> Len(s) = 0
  OBVIOUS
<1> QED
  BY <1>1, <1>2, <1>3, <1>4, <1>5

(* Posting an event keeps the invariant, if it fits where the link goes.   *)
LEMMA PostedEvent ==
  ASSUME NEW e \in Events, TypeOK, LinkInv,
         queue' = Append(queue, e),
         wifi_connected = FALSE => wifi_connected' = FALSE,
         e = "STA_GOT_IP" <=> radio' = "up",
         e = "STA_START" => radio # "up"
  PROVE  QueueTellsLink' /\ FlagTellsLink' /\ StartsUnconnected'
<1> USE DEF LinkInv
<1>0. /\ queue \in Seq(Events) /\ Len(queue) \in Nat
      /\ queue = <<>> <=> Len(queue) = 0
  BY DEF TypeOK
<1>1. /\ queue' # <<>> /\ Len(queue') = Len(queue) + 1
      /\ queue'[Len(queue) + 1] = e
      /\ \A i \in 1..Len(queue) : queue'[i] = queue[i]
  BY <1>0, AppendEvent
<1>2. QueueTellsLink' /\ FlagTellsLink'
  BY <1>1 DEF QueueTellsLink, FlagTellsLink
<1>3. StartsUnconnected'
  <2> SUFFICES ASSUME NEW i \in 1..Len(queue) + 1, queue'[i] = "STA_START"
               PROVE  /\ i = 1 => wifi_connected' = FALSE
                      /\ i # 1 => queue'[i - 1] # "STA_GOT_IP"
    BY <1>1 DEF StartsUnconnected
  <2>1. CASE i \in 1..Len(queue)
    BY <1>0, <1>1, <2>1 DEF StartsUnconnected
  <2>2. CASE i = Len(queue) + 1 /\ i = 1
    BY <1>0, <1>1, <2>2 DEF FlagTellsLink
  <2>3. CASE i = Len(queue) + 1 /\ i # 1
    BY <1>0, <1>1, <2>3 DEF QueueTellsLink
  <2>4. i \in 1..Len(queue) \/ i = Len(queue) + 1
    BY <1>0
  <2> QED
    BY <2>1, <2>2, <2>3, <2>4
<1> QED
  BY <1>2, <1>3

(* The event loop takes an event and writes the flag as the event says.    *)
LEMMA TakenEvent ==
  ASSUME NEW e \in Events, TypeOK, LinkInv, Dispatch(e),
         radio' = "up" <=> radio = "up",
         e = "STA_GOT_IP" => wifi_connected' = TRUE,
         e = "STA_DISCONNECTED" => wifi_connected' = FALSE,
         e = "STA_START" => wifi_connected' = wifi_connected
  PROVE  QueueTellsLink' /\ FlagTellsLink' /\ StartsUnconnected'
<1> USE DEF LinkInv
<1>0. queue \in Seq(Events) /\ queue # <<>> /\ queue[1] = e /\ queue' = Tail(queue)
  BY DEF TypeOK, Dispatch
<1>1. /\ Len(queue) \in Nat \ {0}
      /\ Len(queue') = Len(queue) - 1
      /\ queue' = <<>> <=> Len(queue) = 1
      /\ \A i \in 1..Len(queue) - 1 : queue'[i] = queue[i + 1]
  BY <1>0, TakeEvent
<1>2. QueueTellsLink'
  BY <1>0, <1>1 DEF QueueTellsLink
<1>3. e # "STA_GOT_IP" => wifi_connected' = FALSE
  BY <1>0, <1>1 DEF StartsUnconnected, Events
<1>4. FlagTellsLink'
  BY <1>0, <1>1, <1>3 DEF QueueTellsLink, FlagTellsLink
<1>5. StartsUnconnected'
  <2> SUFFICES ASSUME NEW i \in 1..Len(queue) - 1, queue[i + 1] = "STA_START"
               PROVE  /\ i = 1 => wifi_connected' = FALSE
                      /\ i # 1 => queue'[i - 1] # "STA_GOT_IP"
    BY <1>1 DEF StartsUnconnected
  <2>1. i + 1 \in 1..Len(queue) /\ i + 1 # 1 /\ queue[i] # "STA_GOT_IP"
    BY <1>1 DEF StartsUnconnected
  <2>2. i # 1 => i - 1 \in 1..Len(queue) - 1 /\ queue'[i - 1] = queue[i]
    BY <1>1
  <2> QED
    BY <1>0, <1>3, <2>1, <2>2
<1> QED
  BY <1>2, <1>4, <1>5

(* The link is taken down, or is down already.                             *)
LEMMA TakenDown ==
  ASSUME NEW to \in {"idle", "stopped"}, TypeOK, LinkInv, EspWifiDown(to),
         wifi_connected' = wifi_connected
  PROVE  QueueTellsLink' /\ FlagTellsLink' /\ StartsUnconnected'
<1>1. CASE Active
  BY <1>1, PostedEvent DEF EspWifiDown, Active, Events
<1>2. CASE ~Active
  <2>1. queue' = queue /\ radio # "up" /\ radio' # "up"
    BY <1>2 DEF EspWifiDown, Active
  <2> QED
    BY <2>1 DEF LinkInv, QueueTellsLink, FlagTellsLink, StartsUnconnected
<1> QED
  BY <1>1, <1>2

(* Other steps leave the queue and the link alone, and at most clear the   *)
(* flag: of a link that is down or about to be taken down.                 *)
LEMMA LinkUntouched ==
  ASSUME LinkInv, queue' = queue,
         radio' = "up" <=> radio = "up",
         main = "disconnect" => main' = "disconnect",
         \/ wifi_connected' = wifi_connected
         \/ wifi_connected' = FALSE /\ (radio # "up" \/ main' = "disconnect")
  PROVE  QueueTellsLink' /\ FlagTellsLink' /\ StartsUnconnected'
BY DEF LinkInv, QueueTellsLink, FlagTellsLink, StartsUnconnected

LEMMA StoppedStep ==
  ASSUME DriverStopped, [Next]_vars
  PROVE  DriverStopped'
<1> USE DEF status, shared, clock
<1> USE DEF DriverStopped
<1>1. CASE Environment
  BY <1>1 DEF Environment, GetIp, LoseLink, EspWifiDown, Active, ProvisionerConnect,
              EspWifiConnect, ClockSet
<1>2. CASE Main
  BY <1>2 DEF Main, MainGoes, InitStack, StartStation, EspWifiStart, WaitConnected,
              ConnectFailed, WaitTime, TimeFailed, FallbackDisconnect, FallbackStop,
              EspWifiDown, Active, ProvisioningClearWifi, ProvisioningClearTime,
              StartProvisioning
<1>3. CASE Handler
  BY <1>3 DEF Handler, HandleStaStart, HandleDisconnected, RetryOrGiveUp, RetryWhile,
              HandleGotIp, RequestTimeSync, CreateSntpTask, CreateFailedRelease,
              CreateFailedStatus, CreateFailedBit, SignalConnected, EspWifiConnect
<1>4. ASSUME NEW t \in SntpTasks, SntpStep(t) PROVE DriverStopped'
  BY <1>4 DEF SntpStep, SntpClearStatus, SntpInit, SntpCheck, SntpPollAgain, SntpExpire,
              SntpVerdict, SntpSignal, SntpDelete
<1>5. CASE UNCHANGED vars
  BY <1>5 DEF vars
<1> QED
  BY <1>1, <1>2, <1>3, <1>4, <1>5 DEF Next, Sntp

LEMMA FollowsStep ==
  ASSUME TypeOK, LinkInv, [Next]_vars
  PROVE  QueueTellsLink' /\ FlagTellsLink' /\ StartsUnconnected'
<1> USE DEF status, shared, clock
<1>1. CASE GetIp
  BY <1>1, PostedEvent DEF GetIp, Events
<1>2. CASE LoseLink
  BY <1>2, TakenDown DEF LoseLink
<1>3. CASE ProvisionerConnect \/ ClockSet
  BY <1>3, LinkUntouched DEF ProvisionerConnect, EspWifiConnect, ClockSet
<1>4. CASE StartStation
  <2>1. main = "start_station" /\ radio = "stopped"
    BY <1>4 DEF StartStation, MainGoes, LinkInv, DriverStopped
  <2>2. CASE EspWifiStart
    BY <1>4, <2>1, <2>2, PostedEvent DEF StartStation, EspWifiStart, Events
  <2>3. CASE UNCHANGED <<radio, queue>>
    BY <1>4, <2>1, <2>3, LinkUntouched DEF StartStation
  <2> QED
    BY <1>4, <2>2, <2>3 DEF StartStation
<1>5. CASE ConnectFailed
  BY <1>5, LinkUntouched DEF ConnectFailed, MainGoes
<1>6. CASE FallbackDisconnect
  BY <1>6, TakenDown DEF FallbackDisconnect
<1>7. CASE FallbackStop
  BY <1>7, TakenDown DEF FallbackStop
<1>8. CASE ProvisioningClearWifi
  <2>1. main = "prov_wifi_flag" /\ radio = "stopped"
    BY <1>8 DEF ProvisioningClearWifi, MainGoes, LinkInv, DriverStopped
  <2> QED
    BY <1>8, <2>1, LinkUntouched DEF ProvisioningClearWifi
<1>9. CASE StartProvisioning
  <2>1. main = "prov_start" /\ radio = "stopped"
    BY <1>9 DEF StartProvisioning, MainGoes, LinkInv, DriverStopped
  <2>2. CASE EspWifiStart
    BY <1>9, <2>1, <2>2, PostedEvent DEF StartProvisioning, EspWifiStart, Events
  <2>3. CASE UNCHANGED <<radio, queue>>
    BY <1>9, <2>1, <2>3, LinkUntouched DEF StartProvisioning
  <2> QED
    BY <1>9, <2>2, <2>3 DEF StartProvisioning
<1>10. CASE InitStack \/ WaitConnected \/ WaitTime \/ TimeFailed \/ ProvisioningClearTime
  BY <1>10, LinkUntouched
  DEF InitStack, WaitConnected, WaitTime, TimeFailed, ProvisioningClearTime, MainGoes
<1>11. CASE HandleStaStart
  BY <1>11, TakenEvent DEF HandleStaStart, EspWifiConnect, Events
<1>12. CASE HandleDisconnected
  BY <1>12, TakenEvent DEF HandleDisconnected, Events
<1>13. CASE HandleGotIp
  BY <1>13, TakenEvent DEF HandleGotIp, Events
<1>14. CASE RetryOrGiveUp
  BY <1>14, LinkUntouched DEF RetryOrGiveUp, RetryWhile, EspWifiConnect
<1>15. CASE \/ RequestTimeSync \/ CreateSntpTask \/ CreateFailedRelease
            \/ CreateFailedStatus \/ CreateFailedBit \/ SignalConnected
  BY <1>15, LinkUntouched
  DEF RequestTimeSync, CreateSntpTask, CreateFailedRelease, CreateFailedStatus,
      CreateFailedBit, SignalConnected
<1>16. ASSUME NEW t \in SntpTasks, SntpStep(t)
       PROVE QueueTellsLink' /\ FlagTellsLink' /\ StartsUnconnected'
  BY <1>16, LinkUntouched
  DEF SntpStep, SntpClearStatus, SntpInit, SntpCheck, SntpPollAgain, SntpExpire,
      SntpVerdict, SntpSignal, SntpDelete
<1>17. CASE UNCHANGED vars
  BY <1>17, LinkUntouched DEF vars
<1> QED
  BY <1>1, <1>2, <1>3, <1>4, <1>5, <1>6, <1>7, <1>8, <1>9, <1>10, <1>11, <1>12, <1>13,
     <1>14, <1>15, <1>16, <1>17
  DEF Next, Environment, Main, Handler, Sntp

LEMMA LinkAlways == Spec => []LinkInv
<1>1. Init => LinkInv
  BY DEF Init, LinkInv, QueueTellsLink, FlagTellsLink, StartsUnconnected, DriverStopped
<1>2. TypeOK /\ LinkInv /\ [Next]_vars => LinkInv'
  BY StoppedStep, FollowsStep DEF LinkInv
<1> QED
  BY <1>1, <1>2, TypeCorrect, PTL DEF Spec

(* Once the event loop has caught up, wifi_connected is what the driver    *)
(* says, however the fallback, the timeouts and late events interleave.    *)
THEOREM StatusFollowsLink == Spec => []StatusTracksLink
<1>1. TypeOK /\ LinkInv => StatusTracksLink
  BY Zenon DEF TypeOK, LinkInv, FlagTellsLink, StatusTracksLink, Quiescent
<1> QED
  BY <1>1, TypeCorrect, LinkAlways, PTL

(* A station left idle has an event on its way to the handler, is being    *)
(* handled, or has used all its attempts and said so.                      *)
AttemptPending ==
  main \in {"wait_connected", "wait_time", "time_failed", "serving"} /\ radio = "idle"
    => \/ queue # <<>>
       \/ handler = "disconnected"
       \/ s_retry_count = MaxRetry /\ "FAIL" \in s_wifi_events

LEMMA AttemptStep ==
  ASSUME TypeOK, LinkInv, AttemptPending, [Next]_vars
  PROVE  AttemptPending'
<1> USE DEF status, shared, clock, AttemptPending
<1>1. CASE GetIp
  BY <1>1 DEF GetIp
<1>2. CASE LoseLink
  BY <1>2, AppendEvent DEF LoseLink, EspWifiDown, Active, TypeOK, Events
<1>3. CASE ProvisionerConnect \/ ClockSet
  BY <1>3 DEF ProvisionerConnect, ClockSet
<1>4. CASE StartStation
  <2>1. CASE EspWifiStart
    BY <2>1, AppendEvent DEF EspWifiStart, TypeOK, Events
  <2>2. CASE MainGoes("start_station", "disconnect")
    BY <2>2 DEF MainGoes
  <2> QED
    BY <1>4, <2>1, <2>2 DEF StartStation
<1>5. CASE \/ InitStack \/ WaitConnected \/ ConnectFailed \/ WaitTime \/ TimeFailed
           \/ FallbackDisconnect \/ FallbackStop \/ ProvisioningClearWifi
           \/ ProvisioningClearTime \/ StartProvisioning
  BY <1>5
  DEF InitStack, WaitConnected, ConnectFailed, WaitTime, TimeFailed, FallbackDisconnect,
      FallbackStop, ProvisioningClearWifi, ProvisioningClearTime, StartProvisioning, MainGoes
<1>6. CASE HandleStaStart
  BY <1>6 DEF HandleStaStart, EspWifiConnect
<1>7. CASE HandleDisconnected
  BY <1>7 DEF HandleDisconnected, HandlerGoes
<1>8. CASE RetryOrGiveUp
  BY <1>8, MaxRetryAssumption DEF RetryOrGiveUp, RetryWhile, EspWifiConnect, TypeOK
<1>9. CASE HandleGotIp
  \* The link went down after this event, so another one is waiting.
  <2>1. /\ queue # <<>> /\ queue[1] = "STA_GOT_IP" /\ queue' = Tail(queue)
        /\ UNCHANGED <<main, radio>>
    BY <1>9 DEF HandleGotIp, Dispatch, TypeOK
  <2>2. radio = "idle" => Len(queue) # 1
    BY <2>1 DEF LinkInv, QueueTellsLink
  <2>3. queue' = <<>> <=> Len(queue) = 1
    BY <2>1, TakeEvent DEF TypeOK
  <2> QED
    BY <2>1, <2>2, <2>3
<1>10. CASE \/ RequestTimeSync \/ CreateSntpTask \/ CreateFailedRelease
            \/ CreateFailedStatus \/ CreateFailedBit \/ SignalConnected
  BY <1>10
  DEF RequestTimeSync, CreateSntpTask, CreateFailedRelease, CreateFailedStatus,
      CreateFailedBit, SignalConnected, HandlerGoes
<1>11. ASSUME NEW t \in SntpTasks, SntpStep(t) PROVE AttemptPending'
  BY <1>11
  DEF SntpStep, SntpClearStatus, SntpInit, SntpCheck, SntpPollAgain, SntpExpire,
      SntpVerdict, SntpSignal, SntpDelete
<1>12. CASE UNCHANGED vars
  BY <1>12 DEF vars
<1> QED
  BY <1>1, <1>2, <1>3, <1>4, <1>5, <1>6, <1>7, <1>8, <1>9, <1>10, <1>11, <1>12
  DEF Next, Environment, Main, Handler, Sntp

(* Nobody stops trying early: a station that is idle with nothing pending  *)
(* has used all of MAX_RETRY and set WIFI_FAIL_BIT, whichever of the waits *)
(* timed out and however many connections came and went.                   *)
THEOREM NeverAbandonedEarly == Spec => []NotAbandonedEarly
<1>1. Init => AttemptPending
  BY DEF Init, AttemptPending
<1>2. AttemptPending => NotAbandonedEarly
  BY DEF AttemptPending, NotAbandonedEarly, Quiescent
<1> QED
  BY <1>1, <1>2, AttemptStep, TypeCorrect, LinkAlways, PTL DEF Spec

=============================================================================
