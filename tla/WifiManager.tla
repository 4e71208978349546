---------------------------- MODULE WifiManager ----------------------------
(***************************************************************************)
(* One boot of main/wifi_manager.c: app_main's thread runs                 *)
(* wifi_manager_start, the default event loop runs wifi_event_handler, and *)
(* wifi_manager_request_time_sync spawns SNTP tasks.  The three share the  *)
(* status flags of main/app_status.c, the event group s_wifi_events, the   *)
(* retry counter and s_sntp_sync_running.                                  *)
(*                                                                         *)
(* A step is what one mutex, critical section, event-group call or driver  *)
(* call makes atomic; between two of them any other thread may run (the    *)
(* ESP32 has two cores, so priorities do not exclude it).  The Wi-Fi       *)
(* driver, the event loop's queue, the provisioning manager and the system *)
(* clock are external: they do whatever the code has to cope with.         *)
(***************************************************************************)
EXTENDS Naturals, Sequences

CONSTANTS
  MaxRetry,   \* MAX_RETRY, wifi_manager.c:27
  SntpTasks   \* control blocks xTaskCreate can hand to a wifi_sntp task

ASSUME MaxRetryAssumption == MaxRetry \in Nat

VARIABLES
  wifi_connected,       \* app_status_t.wifi_connected
  time_synced,          \* app_status_t.time_synced
  s_wifi_events,        \* bits set in the event group
  s_retry_count,
  s_sntp_sync_running,
  main,                 \* where app_main's thread is in wifi_manager_start
  handler,              \* where the event loop is in wifi_event_handler
  sntp,                 \* where each SNTP task is in wifi_manager_sntp_task
  radio,                \* the station interface of the Wi-Fi driver
  queue,                \* events posted and not yet dispatched
  clockSane,            \* time() > SANE_EPOCH_TIME
  sntpRunning           \* esp_sntp_enabled()

status == <<wifi_connected, time_synced>>
shared == <<s_wifi_events, s_retry_count, s_sntp_sync_running>>
clock  == <<clockSane, sntpRunning>>
vars   == <<status, shared, main, handler, sntp, radio, queue, clock>>

Bits   == {"CONNECTED", "FAIL", "TIME_SYNC", "TIME_FAIL"}
Events == {"STA_START", "STA_DISCONNECTED", "STA_GOT_IP"}
Radio  == {"stopped", "idle", "connecting", "up"}

MainPc == {"init_stack", "start_station", "wait_connected", "wait_time",
           "connect_failed", "time_failed", "disconnect", "stop",
           "prov_wifi_flag", "prov_time_flag", "prov_start",
           "provisioning", "serving", "aborted"}
HandlerPc == {"idle", "disconnected", "got_ip", "create_task", "create_failed",
              "create_failed_flag", "create_failed_bit", "connected_bit"}
SntpPc == {"none", "started", "init", "check", "sleep", "sane", "sync_bit",
           "expired", "fail_bit", "clear"}

(***************************************************************************)
(* The counters and flags are static, hence zero, when app_main starts.    *)
(* The clock survives esp_restart, so it may already be sane.              *)
(***************************************************************************)
Init ==
  /\ wifi_connected = FALSE
  /\ time_synced = FALSE
  /\ s_wifi_events = {}
  /\ s_retry_count = 0
  /\ s_sntp_sync_running = FALSE
  /\ main = "init_stack"
  /\ handler = "idle"
  /\ sntp = [t \in SntpTasks |-> "none"]
  /\ radio = "stopped"
  /\ queue = <<>>
  /\ clockSane \in BOOLEAN
  /\ sntpRunning = FALSE

----------------------------------------------------------------------------
(* The driver.  Disconnecting or stopping an active station posts          *)
(* WIFI_EVENT_STA_DISCONNECTED; esp_wifi_connect on a stopped driver, or   *)
(* while already connecting, is an ignored error.                          *)

Active == radio \in {"connecting", "up"}

EspWifiConnect == radio' = IF radio = "idle" THEN "connecting" ELSE radio

EspWifiDown(to) ==
  /\ radio' = IF to = "idle" /\ radio = "stopped" THEN radio ELSE to
  /\ queue' = IF Active THEN Append(queue, "STA_DISCONNECTED") ELSE queue

EspWifiStart ==
  /\ radio' = "idle"
  /\ queue' = Append(queue, "STA_START")

GetIp ==
  /\ radio = "connecting"
  /\ radio' = "up"
  /\ queue' = Append(queue, "STA_GOT_IP")
  /\ UNCHANGED <<status, shared, main, handler, sntp, clock>>

LoseLink ==     \* a failed attempt or a lost association
  /\ Active
  /\ EspWifiDown("idle")
  /\ UNCHANGED <<status, shared, main, handler, sntp, clock>>

(* The provisioning manager tries the credentials a client submitted.  It  *)
(* learns the outcome from the same event loop, so it has no attempt of    *)
(* its own in flight while events are pending.                             *)
ProvisionerConnect ==
  /\ main = "provisioning"
  /\ radio = "idle"
  /\ queue = <<>>
  /\ handler = "idle"
  /\ EspWifiConnect
  /\ UNCHANGED <<status, shared, main, handler, sntp, queue, clock>>

ClockSet ==
  /\ sntpRunning
  /\ radio = "up"
  /\ clockSane' = TRUE
  /\ UNCHANGED <<status, shared, main, handler, sntp, radio, queue, sntpRunning>>

Environment == GetIp \/ LoseLink \/ ProvisionerConnect \/ ClockSet

----------------------------------------------------------------------------
(* app_main's thread: wifi_manager_start.                                  *)

MainGoes(from, to) == main = from /\ main' = to

(* wifi_manager_init_stack: any failing step is returned to app_main, whose *)
(* ESP_ERROR_CHECK aborts.  Otherwise app_config_has_wifi decides.          *)
InitStack ==
  /\ \E to \in {"start_station", "prov_wifi_flag", "aborted"} : MainGoes("init_stack", to)
  /\ UNCHANGED <<status, shared, handler, sntp, radio, queue, clock>>

(* wifi_manager_start_station up to esp_wifi_start; no other thread is     *)
(* active before the driver starts.  A driver error ends in the fallback.  *)
StartStation ==
  /\ s_retry_count' = 0
  /\ wifi_connected' = FALSE
  /\ time_synced' = FALSE
  /\ s_wifi_events' = {}
  /\ \/ MainGoes("start_station", "wait_connected") /\ EspWifiStart
     \/ MainGoes("start_station", "disconnect") /\ UNCHANGED <<radio, queue>>
  /\ UNCHANGED <<s_sntp_sync_running, handler, sntp, clock>>

(* xEventGroupWaitBits returns on CONNECTED, on FAIL or after WIFI_WAIT_MS; *)
(* only CONNECTED in the bits it returns counts as success.                 *)
WaitConnectedForever ==
  /\ IF "CONNECTED" \in s_wifi_events
       THEN MainGoes("wait_connected", "wait_time")
       ELSE "FAIL" \in s_wifi_events /\ MainGoes("wait_connected", "connect_failed")
  /\ UNCHANGED <<status, shared, handler, sntp, radio, queue, clock>>

WaitConnected ==
  /\ IF "CONNECTED" \in s_wifi_events
       THEN MainGoes("wait_connected", "wait_time")
       ELSE MainGoes("wait_connected", "connect_failed")
  /\ UNCHANGED <<status, shared, handler, sntp, radio, queue, clock>>

ConnectFailed ==
  /\ MainGoes("connect_failed", "disconnect")
  /\ wifi_connected' = FALSE
  /\ UNCHANGED <<time_synced, shared, handler, sntp, radio, queue, clock>>

(* The second wait: TIME_SYNC, TIME_FAIL or SNTP_WAIT_MS + 1000.           *)
WaitTime ==
  /\ IF "TIME_SYNC" \in s_wifi_events
       THEN MainGoes("wait_time", "serving")
       ELSE MainGoes("wait_time", "time_failed")
  /\ UNCHANGED <<status, shared, handler, sntp, radio, queue, clock>>

TimeFailed ==
  /\ MainGoes("time_failed", "serving")
  /\ time_synced' = FALSE
  /\ UNCHANGED <<wifi_connected, shared, handler, sntp, radio, queue, clock>>

FallbackDisconnect ==
  /\ MainGoes("disconnect", "stop")
  /\ EspWifiDown("idle")
  /\ UNCHANGED <<status, shared, handler, sntp, clock>>

FallbackStop ==
  /\ MainGoes("stop", "prov_wifi_flag")
  /\ EspWifiDown("stopped")
  /\ UNCHANGED <<status, shared, handler, sntp, clock>>

(* wifi_manager_start_provisioning.  Creating the AP interface, the manager *)
(* or its endpoint can fail before any flag is touched.                    *)
ProvisioningClearWifi ==
  /\ \/ MainGoes("prov_wifi_flag", "prov_time_flag") /\ wifi_connected' = FALSE
     \/ MainGoes("prov_wifi_flag", "aborted") /\ UNCHANGED wifi_connected
  /\ UNCHANGED <<time_synced, shared, handler, sntp, radio, queue, clock>>

ProvisioningClearTime ==
  /\ MainGoes("prov_time_flag", "prov_start")
  /\ time_synced' = FALSE
  /\ UNCHANGED <<wifi_connected, shared, handler, sntp, radio, queue, clock>>

StartProvisioning ==
  /\ \/ MainGoes("prov_start", "provisioning") /\ EspWifiStart
     \/ MainGoes("prov_start", "aborted") /\ UNCHANGED <<radio, queue>>
  /\ UNCHANGED <<status, shared, handler, sntp, clock>>

Main ==
  \/ InitStack \/ StartStation \/ WaitConnected \/ ConnectFailed \/ WaitTime
  \/ TimeFailed \/ FallbackDisconnect \/ FallbackStop
  \/ ProvisioningClearWifi \/ ProvisioningClearTime \/ StartProvisioning

----------------------------------------------------------------------------
(* The default event loop: wifi_event_handler, one event at a time.        *)

HandlerGoes(from, to) == handler = from /\ handler' = to

Dispatch(event) ==
  /\ queue # <<>>
  /\ Head(queue) = event
  /\ queue' = Tail(queue)

HandleStaStart ==
  /\ handler = "idle"
  /\ Dispatch("STA_START")
  /\ EspWifiConnect
  /\ UNCHANGED <<status, shared, main, handler, sntp, clock>>

HandleDisconnectedKeepFlag ==
  /\ HandlerGoes("idle", "disconnected")
  /\ Dispatch("STA_DISCONNECTED")
  /\ UNCHANGED <<status, shared, main, sntp, radio, clock>>

HandleDisconnected ==
  /\ HandlerGoes("idle", "disconnected")
  /\ Dispatch("STA_DISCONNECTED")
  /\ wifi_connected' = FALSE
  /\ UNCHANGED <<time_synced, shared, main, sntp, radio, clock>>

RetryWhile(budget) ==
  /\ HandlerGoes("disconnected", "idle")
  /\ IF budget
       THEN /\ s_retry_count' = s_retry_count + 1
            /\ EspWifiConnect
            /\ UNCHANGED s_wifi_events
       ELSE /\ s_wifi_events' = s_wifi_events \cup {"FAIL"}
            /\ UNCHANGED <<s_retry_count, radio>>
  /\ UNCHANGED <<status, s_sntp_sync_running, main, sntp, queue, clock>>

RetryOnceTooOften == RetryWhile(s_retry_count <= MaxRetry)
RetryOnceTooFew   == RetryWhile(s_retry_count + 1 < MaxRetry)
RetryOrGiveUp     == RetryWhile(s_retry_count < MaxRetry)

HandleGotIp ==
  /\ HandlerGoes("idle", "got_ip")
  /\ Dispatch("STA_GOT_IP")
  /\ s_retry_count' = 0
  /\ wifi_connected' = TRUE
  /\ UNCHANGED <<time_synced, s_wifi_events, s_sntp_sync_running, main, sntp, radio, clock>>

(* wifi_manager_request_time_sync: claim the flag under s_init_lock, then  *)
(* create the task; a request that finds the flag set is dropped.          *)
RequestTimeSyncUnguarded ==
  /\ HandlerGoes("got_ip", "create_task")
  /\ s_sntp_sync_running' = TRUE
  /\ UNCHANGED <<status, s_wifi_events, s_retry_count, main, sntp, radio, queue, clock>>

RequestTimeSync ==
  /\ IF s_sntp_sync_running
       THEN HandlerGoes("got_ip", "connected_bit")
       ELSE HandlerGoes("got_ip", "create_task")
  /\ s_sntp_sync_running' = TRUE
  /\ UNCHANGED <<status, s_wifi_events, s_retry_count, main, sntp, radio, queue, clock>>

CreateSntpTask ==
  /\ \/ \E t \in SntpTasks :
          /\ sntp[t] = "none"
          /\ sntp' = [sntp EXCEPT ![t] = "started"]
          /\ HandlerGoes("create_task", "connected_bit")
     \/ HandlerGoes("create_task", "create_failed") /\ UNCHANGED sntp
  /\ UNCHANGED <<status, shared, main, radio, queue, clock>>

CreateFailedRelease ==
  /\ HandlerGoes("create_failed", "create_failed_flag")
  /\ s_sntp_sync_running' = FALSE
  /\ UNCHANGED <<status, s_wifi_events, s_retry_count, main, sntp, radio, queue, clock>>

CreateFailedStatus ==
  /\ HandlerGoes("create_failed_flag", "create_failed_bit")
  /\ time_synced' = FALSE
  /\ UNCHANGED <<wifi_connected, shared, main, sntp, radio, queue, clock>>

CreateFailedBit ==
  /\ HandlerGoes("create_failed_bit", "connected_bit")
  /\ s_wifi_events' = s_wifi_events \cup {"TIME_FAIL"}
  /\ UNCHANGED <<status, s_retry_count, s_sntp_sync_running, main, sntp, radio, queue, clock>>

SignalConnected ==
  /\ HandlerGoes("connected_bit", "idle")
  /\ s_wifi_events' = s_wifi_events \cup {"CONNECTED"}
  /\ UNCHANGED <<status, s_retry_count, s_sntp_sync_running, main, sntp, radio, queue, clock>>

Handler ==
  \/ HandleStaStart \/ HandleDisconnected \/ RetryOrGiveUp \/ HandleGotIp
  \/ RequestTimeSync \/ CreateSntpTask \/ CreateFailedRelease
  \/ CreateFailedStatus \/ CreateFailedBit \/ SignalConnected

----------------------------------------------------------------------------
(* wifi_manager_sntp_task.  The loop checks the clock, sleeps a second and *)
(* leaves once the deadline has passed, which is seen only after a sleep.  *)

SntpGoes(t, from, to) == sntp[t] = from /\ sntp' = [sntp EXCEPT ![t] = to]

SntpClearStatus(t) ==
  /\ SntpGoes(t, "started", "init")
  /\ time_synced' = FALSE
  /\ UNCHANGED <<wifi_connected, shared, main, handler, radio, queue, clock>>

SntpInit(t) ==
  /\ SntpGoes(t, "init", "check")
  /\ sntpRunning' = TRUE
  /\ UNCHANGED <<status, shared, main, handler, radio, queue, clockSane>>

SntpCheckBlind(t) ==
  /\ \E to \in {"sane", "sleep"} : SntpGoes(t, "check", to)
  /\ UNCHANGED <<status, shared, main, handler, radio, queue, clock>>

SntpCheck(t) ==
  /\ SntpGoes(t, "check", IF clockSane THEN "sane" ELSE "sleep")
  /\ UNCHANGED <<status, shared, main, handler, radio, queue, clock>>

SntpPollAgain(t) ==
  /\ SntpGoes(t, "sleep", "check")
  /\ UNCHANGED <<status, shared, main, handler, radio, queue, clock>>

SntpExpire(t) ==
  /\ SntpGoes(t, "sleep", "expired")
  /\ UNCHANGED <<status, shared, main, handler, radio, queue, clock>>

SntpVerdict(t, from, synced, to) ==
  /\ SntpGoes(t, from, to)
  /\ time_synced' = synced
  /\ UNCHANGED <<wifi_connected, shared, main, handler, radio, queue, clock>>

SntpSignal(t, from, bit) ==
  /\ SntpGoes(t, from, "clear")
  /\ s_wifi_events' = s_wifi_events \cup {bit}
  /\ UNCHANGED <<status, s_retry_count, s_sntp_sync_running, main, handler, radio, queue, clock>>

SntpDeleteOnly(t) ==
  /\ SntpGoes(t, "clear", "none")
  /\ UNCHANGED <<status, shared, main, handler, radio, queue, clock>>

SntpDelete(t) ==
  /\ SntpGoes(t, "clear", "none")
  /\ s_sntp_sync_running' = FALSE
  /\ UNCHANGED <<status, s_wifi_events, s_retry_count, main, handler, radio, queue, clock>>

SntpStep(t) ==
  \/ SntpClearStatus(t) \/ SntpInit(t) \/ SntpCheck(t)
  \/ SntpPollAgain(t) \/ SntpExpire(t)
  \/ SntpVerdict(t, "sane", TRUE, "sync_bit")
  \/ SntpVerdict(t, "expired", FALSE, "fail_bit")
  \/ SntpSignal(t, "sync_bit", "TIME_SYNC")
  \/ SntpSignal(t, "fail_bit", "TIME_FAIL")
  \/ SntpDelete(t)

Sntp == \E t \in SntpTasks : SntpStep(t)

----------------------------------------------------------------------------
Next == Environment \/ Main \/ Handler \/ Sntp

(***************************************************************************)
(* FreeRTOS runs every ready task: main's waits time out, the event loop   *)
(* and the SNTP tasks make progress.  Polling is bounded by a deadline of  *)
(* SNTP_WAIT_MS, so a task cannot go round its loop for ever: SntpExpire   *)
(* is strongly fair.  The driver and the clock owe nothing.                *)
(***************************************************************************)
Fairness ==
  /\ WF_vars(Main)
  /\ WF_vars(Handler)
  /\ \A t \in SntpTasks : WF_vars(SntpStep(t)) /\ SF_vars(SntpExpire(t))

Spec == Init /\ [][Next]_vars /\ Fairness

----------------------------------------------------------------------------
(* Properties.                                                             *)

(* Every variable keeps its type; the retry counter never passes           *)
(* MAX_RETRY, so the "attempt n/5" of the log is true.                     *)
TypeOK ==
  /\ wifi_connected \in BOOLEAN
  /\ time_synced \in BOOLEAN
  /\ s_wifi_events \in SUBSET Bits
  /\ s_retry_count \in 0..MaxRetry
  /\ s_sntp_sync_running \in BOOLEAN
  /\ main \in MainPc
  /\ handler \in HandlerPc
  /\ sntp \in [SntpTasks -> SntpPc]
  /\ radio \in Radio
  /\ queue \in Seq(Events)
  /\ clockSane \in BOOLEAN
  /\ sntpRunning \in BOOLEAN

HandlerOwnsSync == handler \in {"create_task", "create_failed"}
Running(t)      == sntp[t] # "none"

(* s_sntp_sync_running is a lock: while it is set exactly one thread owns  *)
(* it, the event loop between claiming it and handing it on or one SNTP    *)
(* task, and while it is clear nobody does.  Two SNTP tasks would restart  *)
(* each other's SNTP client and overwrite each other's verdict; a flag     *)
(* nobody owns would block every later synchronisation.                    *)
SyncFlagOwned ==
  /\ s_sntp_sync_running <=> HandlerOwnsSync \/ \E t \in SntpTasks : Running(t)
  /\ HandlerOwnsSync => \A t \in SntpTasks : ~Running(t)
  /\ \A t, u \in SntpTasks : Running(t) /\ Running(u) => t = u

(* time_synced is never true of a clock that was not set: auth_oidc.c      *)
(* compares exp, nbf and iat with that clock.                              *)
TimeSyncedSound == time_synced => clockSane

Quiescent == queue = <<>> /\ handler = "idle"

(* Once the event loop has caught up, wifi_connected says what the driver  *)
(* says, whichever of app_main's thread and the event loop wrote it last:  *)
(* the fallback after a timeout races a late GOT_IP for the flag.          *)
StatusTracksLink ==
  Quiescent /\ main \in {"wait_connected", "wait_time", "serving", "provisioning"}
    => wifi_connected = (radio = "up")

(* Nobody stops trying early: a station left idle with no event pending    *)
(* has used all MAX_RETRY attempts and said so in the event group.         *)
NotAbandonedEarly ==
  Quiescent /\ main \in {"wait_connected", "wait_time", "serving"} /\ radio = "idle"
    => s_retry_count = MaxRetry /\ "FAIL" \in s_wifi_events

(* Whatever the network does, wifi_manager_start ends: the device serves,  *)
(* provisions, or aborts (and so reboots).                                 *)
BootSettles == <>(main \in {"serving", "provisioning", "aborted"})

(* A synchronisation attempt ends and gives the flag back, so that the     *)
(* next GOT_IP can start another.                                          *)
SyncEnds == s_sntp_sync_running ~> ~s_sntp_sync_running

(* README.md:408-411 lists an unfinished SNTP synchronisation among the    *)
(* reasons for 503: so a serving device that is connected, whose SNTP      *)
(* client has set the clock (if only after a first attempt timed out) and  *)
(* that has no attempt under way has time_synced set.                      *)
SetClockIsSynced ==
  /\ Quiescent /\ main = "serving" /\ radio = "up"
  /\ sntpRunning /\ "TIME_FAIL" \in s_wifi_events
  /\ clockSane /\ ~s_sntp_sync_running
  => time_synced

(* README.md:396: with saved credentials the device first tries the        *)
(* station, and returns to provisioning when the connection fails.         *)
GivingUpProvisions ==
  Quiescent /\ radio = "idle" /\ "FAIL" \in s_wifi_events => main # "serving"
=============================================================================
