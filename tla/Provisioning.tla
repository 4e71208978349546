---------------------------- MODULE Provisioning ----------------------------
(***************************************************************************)
(* The life of a device across reboots: what main/app_config.c keeps in    *)
(* NVS, how main.c and wifi_manager_start use it at boot, and how the two  *)
(* tasks of provisioning write it: the provisioning manager's HTTP server  *)
(* in wifi_manager_custom_data_handler and the event loop in               *)
(* wifi_event_handler.  A crash or power loss may come between any two     *)
(* steps.                                                                  *)
(*                                                                         *)
(* A string is abstracted to what the code asks of it: an SSID or password *)
(* is the network it belongs to, an issuer is one of a few shapes.  The    *)
(* provisioning manager and the NVS library are external: nvs_set_str is   *)
(* visible at once and survives a reboot for certain only once committed.  *)
(***************************************************************************)
EXTENDS Naturals, Sequences

CONSTANTS
  Networks,      \* Wi-Fi networks around the device
  Open,          \* those without a password
  FullLength,    \* those whose SSID has 32 bytes or whose password has 64
  Unset,         \* no such key in NVS, no such member in a JSON object
  MaxCrashes     \* bound on the crashes of a behaviour

ASSUME NetworkAssumption ==
  /\ Open \subseteq Networks /\ FullLength \subseteq Networks
  /\ MaxCrashes \in Nat

(* A network has a name.                                                   *)
ASSUME NameAssumption == "" \notin Networks /\ "truncated" \notin Networks

VARIABLES
  worn,         \* whether NVS operations may fail on this device
  nvs,          \* what nvs_get_str returns
  flash,        \* what a reboot is certain to find
  main,         \* where app_main is
  config,       \* its app_config_t, NoConfig once it has returned
  httpd,        \* where the HTTP task is in the custom-data handler
  auth,         \* the merged configuration it is saving, if any
  handler,      \* where the event loop is in wifi_event_handler
  pending,      \* s_pending_wifi_config, Unset while not valid
  completed,    \* s_provisioning_completed
  queue,        \* NETWORK_PROV events posted and not yet dispatched
  prov,         \* the state of the provisioning manager
  candidate,    \* the credentials it is trying, if any
  acked,        \* history: settings last answered "ok", until the next save
  erased,       \* history: app_config_init has erased these since
  provisioned,  \* history: credentials that made provisioning succeed
  crashes       \* crashes so far

device  == <<main, config>>
web     == <<httpd, auth>>
loop    == <<handler, pending, completed>>
manager == <<queue, prov, candidate>>
history == <<acked, erased, provisioned, crashes>>
vars    == <<worn, nvs, flash, device, web, loop, manager, history>>

WifiKeys == {"wifi_ssid", "wifi_pass"}
AuthKeys == {"auth_issuer", "auth_aud", "auth_role"}
NvsKeys  == WifiKeys \cup AuthKeys

(* The password of an open network is empty.                               *)
Password(n) == IF n \in Open THEN "" ELSE n
Creds       == [ssid : Networks, pass : {Password(n) : n \in Networks}]

(* "slashed" ends in a slash, "bare" is the scheme alone, "long" does not  *)
(* fit its buffer.                                                         *)
Issuers   == {"issuer", "slashed", "bare", "http", "long"}
Payloads  == [issuer : Issuers \cup {Unset}, aud : {Unset, "", "aud", "long"}, role : {Unset, "role"}]
Blank     == [k \in NvsKeys |-> Unset]

(* app_config_load: a missing key leaves the default.                      *)
Load(store) ==
  LET read(k, default) == IF store[k] = Unset THEN default ELSE store[k]
  IN [ssid   |-> read("wifi_ssid", ""),
      pass   |-> read("wifi_pass", ""),
      issuer |-> read("auth_issuer", "default_issuer"),
      aud    |-> read("auth_aud", ""),
      role   |-> read("auth_role", "default_role")]

ASSUME UnsetAssumption ==
  Unset \notin Creds \cup Networks \cup Issuers
                \cup {"", "aud", "role", "default_issuer", "default_role"}

NoConfig == Load(Blank)

HasEverything(c) == c.ssid # "" /\ c.pass # "" /\ c.aud # ""

HasWifi(c)     == c.ssid # "" /\ c.pass # ""
HasAudience(c) == c.aud # ""

HasHttps(issuer)         == issuer # "http"
HasTrailingSlash(issuer) == issuer \in {"slashed", "bare"}
Fits(value)              == value # "long"

(* wifi_manager_valid_issuer, before saving; auth_validate_issuer, at boot. *)
ValidIssuerAnySlash(issuer) == Fits(issuer) /\ HasHttps(issuer) /\ issuer # "bare"
ValidIssuer(issuer) ==
  /\ Fits(issuer) /\ HasHttps(issuer)
  /\ issuer # "bare" /\ ~HasTrailingSlash(issuer)
BootableIssuer(issuer) == HasHttps(issuer) /\ ~HasTrailingSlash(issuer)

(* strlcpy into sta.ssid[32] and sta.password[64] needs room for a NUL; it *)
(* does not matter here which of the two loses its last byte.              *)
Truncated      == "truncated"
DriverField(v) == IF v \in FullLength THEN Truncated ELSE v
DriverCreds(c) == [ssid |-> DriverField(c.ssid), pass |-> DriverField(c.pass)]
Opens(c)       == c.ssid \in Networks /\ c.pass = Password(c.ssid)

Init ==
  /\ worn \in BOOLEAN
  /\ nvs = Blank /\ flash = Blank
  /\ main = "boot" /\ config = NoConfig
  /\ httpd = "idle" /\ auth = NoConfig
  /\ handler = "idle" /\ pending = Unset /\ completed = FALSE
  /\ queue = <<>> /\ prov = "off" /\ candidate = Unset
  /\ acked = Unset /\ erased = FALSE /\ provisioned = Unset /\ crashes = 0

----------------------------------------------------------------------------
(* Power cycles.  Static memory is zero again, and of the uncommitted      *)
(* writes any part may have reached the flash.                             *)
PowerCycle ==
  /\ \E lost \in SUBSET {k \in NvsKeys : nvs[k] # flash[k]} :
       /\ nvs' = [k \in NvsKeys |-> IF k \in lost THEN flash[k] ELSE nvs[k]]
       /\ flash' = nvs'
  /\ main' = "boot" /\ config' = NoConfig
  /\ httpd' = "idle" /\ auth' = NoConfig
  /\ handler' = "idle" /\ pending' = Unset /\ completed' = FALSE
  /\ queue' = <<>> /\ prov' = "off" /\ candidate' = Unset
  /\ UNCHANGED worn

(* A crash may take half of what HandleCredSuccess is saving: what made     *)
(* provisioning succeed is promised to a lawful restart only.              *)
Crash ==
  /\ crashes < MaxCrashes
  /\ PowerCycle
  /\ crashes' = crashes + 1
  /\ provisioned' = Unset
  /\ UNCHANGED <<acked, erased>>

(* A failed ESP_ERROR_CHECK aborts, and the chip starts again.             *)
AbortReboots ==
  /\ main = "aborted"
  /\ PowerCycle
  /\ UNCHANGED history

----------------------------------------------------------------------------
(* app_main.                                                               *)

MainGoes(from, to) ==
  /\ main = from
  /\ main' = to
  /\ UNCHANGED <<worn, web, loop>>

(* app_config_init, app_config_load and wifi_manager_init_stack succeed;   *)
(* without credentials the next thing is provisioning.                     *)
Boot ==
  /\ config' = Load(nvs)
  /\ MainGoes("boot", IF HasWifi(config') THEN "station" ELSE "offering")
  /\ UNCHANGED <<nvs, flash, manager, history>>

(* NVS has no usable page or another version's format: app_config_init     *)
(* erases the whole partition, acknowledged settings included.             *)
BootErasing ==
  /\ worn /\ main = "boot"
  /\ nvs' = Blank /\ flash' = Blank
  /\ erased' = (acked # Unset)
  /\ UNCHANGED <<worn, device, web, loop, manager, acked, provisioned, crashes>>

BootFails ==
  /\ worn
  /\ MainGoes("boot", "aborted")
  /\ UNCHANGED <<nvs, flash, config, manager, history>>

(* wifi_manager_start_station: the driver joins only WPA2 or better, and   *)
(* only with the right credentials; a failure falls back to provisioning.  *)
StationConnects ==
  /\ Opens(DriverCreds(config)) /\ config.ssid \notin Open
  /\ MainGoes("station", "auth_start")
  /\ UNCHANGED <<nvs, flash, config, manager, history>>

StationFailsAborting ==
  /\ MainGoes("station", "aborted")
  /\ UNCHANGED <<nvs, flash, config, manager, history>>

StationFails ==
  /\ MainGoes("station", "offering")
  /\ UNCHANGED <<nvs, flash, config, manager, history>>

(* wifi_manager_start_provisioning, after which app_main returns.          *)
StartProvisioning ==
  /\ MainGoes("offering", "provisioning")
  /\ prov' = "waiting"
  /\ config' = NoConfig
  /\ UNCHANGED <<nvs, flash, queue, candidate, history>>

(* auth_oidc_start: nothing to check without an audience; an issuer it     *)
(* does not accept is an error, on which app_main aborts.                  *)
RefusesIssuer(c) == HasAudience(c) /\ ~BootableIssuer(c.issuer)

StartAuth ==
  /\ MainGoes("auth_start", IF RefusesIssuer(config) THEN "aborted" ELSE "sensor_start")
  /\ UNCHANGED <<nvs, flash, config, manager, history>>

(* sensor_task_start, then api_server_start.                               *)
StartServices ==
  /\ MainGoes("sensor_start", "api_start") \/ MainGoes("api_start", "serving")
  /\ UNCHANGED <<nvs, flash, config, manager, history>>

(* A driver, a service, a mutex or a task cannot be created: in            *)
(* wifi_manager_init_stack, in wifi_manager_start_provisioning and in each *)
(* *_start function, with ESP_ERROR_CHECK around it.                       *)
StartFails ==
  /\ \E at \in {"boot", "offering", "auth_start", "sensor_start", "api_start"} :
       MainGoes(at, "aborted")
  /\ main = "auth_start" => HasAudience(config) /\ ~RefusesIssuer(config)
  /\ UNCHANGED <<nvs, flash, config, manager, history>>

Main ==
  \/ Boot \/ BootErasing \/ BootFails \/ StationConnects \/ StationFails
  \/ StartProvisioning \/ StartAuth \/ StartServices \/ StartFails

----------------------------------------------------------------------------
(* The custom-data endpoint, served while the manager's service runs.      *)

Write(key, value) == nvs' = [nvs EXCEPT ![key] = value]

HttpdGoes(from, to) ==
  /\ main = "provisioning"
  /\ httpd = from
  /\ httpd' = to
  /\ UNCHANGED <<worn, device, loop, manager, crashes, provisioned>>

(* wifi_manager_save_custom_auth: the stored configuration with the        *)
(* members the request has, refused if one is unusable or no audience is   *)
(* left.  A refusal, or a failed load, answers "error" and changes nothing. *)
MergeAbsent(p) ==
  [Load(nvs) EXCEPT !.issuer = p.issuer, !.aud = p.aud, !.role = p.role]

Merge(p) ==
  LET stored == Load(nvs)
      member(value, default) == IF value = Unset THEN default ELSE value
  IN [stored EXCEPT !.issuer = member(p.issuer, @),
                    !.aud    = member(p.aud, @),
                    !.role   = member(p.role, @)]

Acceptable(p) ==
  /\ p.issuer # Unset => ValidIssuer(p.issuer)
  /\ p.aud # Unset => Fits(p.aud)
  /\ HasAudience(Merge(p))

ReceiveAuth ==
  /\ prov \notin {"off", "ended"}
  /\ \E p \in Payloads : Acceptable(p) /\ auth' = Merge(p)
  /\ HttpdGoes("idle", "auth_issuer")
  /\ acked' = Unset /\ erased' = FALSE
  /\ UNCHANGED <<nvs, flash>>

(* app_config_save_auth: three nvs_set_str and a commit; an error stops it *)
(* where it is and is answered "error".                                    *)
SaveAuthField(key, value, next) ==
  /\ HttpdGoes(key, next)
  /\ Write(key, value)
  /\ UNCHANGED <<auth, flash, acked, erased>>

SaveAuth ==
  \/ SaveAuthField("auth_issuer", auth.issuer, "auth_aud")
  \/ SaveAuthField("auth_aud", auth.aud, "auth_role")
  \/ SaveAuthField("auth_role", auth.role, "commit")

SaveAuthFails ==
  /\ worn
  /\ \E at \in AuthKeys \cup {"commit"} : HttpdGoes(at, "idle")
  /\ auth' = NoConfig
  /\ UNCHANGED <<nvs, flash, acked, erased>>

Settings(store) == [k \in AuthKeys |-> store[k]]

AnswerWithoutCommit ==
  /\ HttpdGoes("commit", "idle")
  /\ acked' = Settings(nvs)
  /\ auth' = NoConfig
  /\ UNCHANGED <<nvs, flash, erased>>

CommitAuth ==
  /\ HttpdGoes("commit", "idle")
  /\ flash' = [k \in NvsKeys |-> IF k \in AuthKeys THEN nvs[k] ELSE flash[k]]
  /\ acked' = Settings(nvs)
  /\ auth' = NoConfig
  /\ UNCHANGED <<nvs, erased>>

Httpd == ReceiveAuth \/ SaveAuth \/ SaveAuthFails \/ CommitAuth

----------------------------------------------------------------------------
(* The provisioning manager.  It posts CRED_RECV before it tries the       *)
(* credentials and learns the outcome in the same event loop, so that      *)
(* event has been handled by then; it posts END once its HTTP server has   *)
(* stopped, which waits for a handler that is running.                     *)

ManagerOnly == UNCHANGED <<worn, nvs, flash, device, web, loop, acked, erased, crashes>>

ConfigureWifi ==
  /\ prov = "waiting"
  /\ prov' = "connecting"
  /\ \E c \in Creds : candidate' = c /\ queue' = Append(queue, [type |-> "CRED_RECV", creds |-> c])
  /\ provisioned' = Unset
  /\ ManagerOnly

TryFails ==
  /\ prov = "connecting"
  /\ queue = <<>> /\ handler = "idle"
  /\ prov' = "waiting"
  /\ candidate' = Unset
  /\ UNCHANGED <<queue, provisioned>>
  /\ ManagerOnly

TrySucceeds ==
  /\ prov = "connecting" /\ Opens(candidate)
  /\ queue = <<>> /\ handler = "idle"
  /\ prov' = "connected"
  /\ queue' = <<[type |-> "CRED_SUCCESS"]>>
  /\ provisioned' = candidate
  /\ candidate' = Unset
  /\ ManagerOnly

EndService ==
  /\ prov = "connected" /\ httpd = "idle"
  /\ prov' = "ended"
  /\ queue' = Append(queue, [type |-> "END"])
  /\ UNCHANGED <<candidate, provisioned>>
  /\ ManagerOnly

----------------------------------------------------------------------------
(* wifi_event_handler, NETWORK_PROV events.                                *)

HandlerGoes(from, to) ==
  /\ main = "provisioning"
  /\ handler = from
  /\ handler' = to
  /\ UNCHANGED <<worn, device, web, prov, candidate, history>>

Dispatch(type) ==
  /\ queue # <<>> /\ Head(queue).type = type
  /\ queue' = Tail(queue)

HandleCredRecv ==
  /\ HandlerGoes("idle", "idle")
  /\ Dispatch("CRED_RECV")
  /\ pending' = Head(queue).creds
  /\ UNCHANGED <<nvs, flash, completed>>

HandleCredSuccess ==
  /\ HandlerGoes("idle", IF pending = Unset THEN "idle" ELSE "wifi_ssid")
  /\ Dispatch("CRED_SUCCESS")
  /\ completed' = TRUE
  /\ UNCHANGED <<nvs, flash, pending>>

(* app_config_save_wifi: two nvs_set_str and a commit; an error is logged. *)
SaveSsid ==
  /\ HandlerGoes("wifi_ssid", "wifi_pass")
  /\ Write("wifi_ssid", pending.ssid)
  /\ UNCHANGED <<flash, pending, completed, queue>>

SavePassword ==
  /\ HandlerGoes("wifi_pass", "commit")
  /\ Write("wifi_pass", pending.pass)
  /\ UNCHANGED <<flash, pending, completed, queue>>

LeaveUncommitted ==
  /\ HandlerGoes("commit", "idle")
  /\ UNCHANGED <<nvs, flash, pending, completed, queue>>

CommitWifi ==
  /\ HandlerGoes("commit", "idle")
  /\ flash' = [k \in NvsKeys |-> IF k \in WifiKeys THEN nvs[k] ELSE flash[k]]
  /\ UNCHANGED <<nvs, pending, completed, queue>>

SaveWifiFails ==
  /\ worn
  /\ \E at \in WifiKeys \cup {"commit"} : HandlerGoes(at, "idle")
  /\ UNCHANGED <<nvs, flash, pending, completed, queue>>

(* deinit, then esp_restart if provisioning was completed.                 *)
HandleEnd ==
  /\ main = "provisioning" /\ handler = "idle"
  /\ queue # <<>> /\ Head(queue).type = "END"
  /\ IF completed
       THEN PowerCycle
       ELSE /\ Dispatch("END")
            /\ UNCHANGED <<worn, nvs, flash, device, web, loop, prov, candidate>>
  /\ UNCHANGED history

Handler ==
  \/ HandleCredRecv \/ HandleCredSuccess \/ SaveSsid \/ SavePassword
  \/ CommitWifi \/ SaveWifiFails \/ HandleEnd

----------------------------------------------------------------------------
Next ==
  \/ Crash \/ AbortReboots \/ Main \/ Httpd \/ Handler
  \/ ConfigureWifi \/ TryFails \/ TrySucceeds \/ EndService

(* The tasks of a powered device run; an attempt to connect ends, and a    *)
(* successful service is stopped by the manager's timer.  Clients,         *)
(* networks, the power supply and the heap owe nothing.                    *)
Fairness ==
  /\ WF_vars(AbortReboots) /\ WF_vars(Main)
  /\ WF_vars(SaveAuth \/ SaveAuthFails \/ CommitAuth)
  /\ WF_vars(Handler)
  /\ WF_vars(TryFails \/ TrySucceeds) /\ WF_vars(EndService)

Spec == Init /\ [][Next]_vars /\ Fairness

----------------------------------------------------------------------------
(* Properties.                                                             *)

Values  == Networks \cup Issuers \cup {Unset, "", "aud", "role", "default_issuer", "default_role"}
Strings == Values \ {Unset}
Configs == [ssid : Strings, pass : Strings, issuer : Strings, aud : Strings, role : Strings]

(* Every variable keeps its type; the event loop never falls more than     *)
(* CRED_SUCCESS and END behind.                                            *)
TypeOK ==
  /\ worn \in BOOLEAN
  /\ nvs \in [NvsKeys -> Values] /\ flash \in [NvsKeys -> Values]
  /\ main \in {"boot", "station", "offering", "provisioning",
              "auth_start", "sensor_start", "api_start", "serving", "aborted"}
  /\ config \in Configs /\ auth \in Configs
  /\ httpd \in AuthKeys \cup {"idle", "commit"}
  /\ handler \in WifiKeys \cup {"idle", "commit"}
  /\ pending \in Creds \cup {Unset} /\ candidate \in Creds \cup {Unset}
  /\ completed \in BOOLEAN
  /\ Len(queue) <= 2
  /\ prov \in {"off", "waiting", "connecting", "connected", "ended"}
  /\ erased \in BOOLEAN /\ provisioned \in Creds \cup {Unset}
  /\ crashes \in 0..MaxCrashes

(* Settings answered with "ok" are in the flash, whatever crashes, Wi-Fi   *)
(* writes and restarts come after, until a client saves others.  The one   *)
(* exception is the code's own: app_config_init may erase the partition of *)
(* a worn device (app_config.c:40), and then all of them are gone at once. *)
AckedAuthDurable ==
  acked # Unset =>
    \/ ~erased /\ Settings(flash) = acked
    \/ erased /\ worn /\ Settings(flash) = Settings(Blank)

(* However custom-data requests, partial saves and crashes mix the stored  *)
(* fields, the issuer a boot finds is one auth_oidc_start accepts: a       *)
(* stored issuer it refused would abort app_main at every boot.            *)
StoredIssuerBootable ==
  \A store \in {nvs, flash} : BootableIssuer(Load(store).issuer)

(* Without NVS errors, a restart at the end of provisioning finds exactly  *)
(* the credentials that made provisioning succeed, never an older SSID or  *)
(* an uncommitted half.  It says nothing of a crash before that restart.   *)
RestartFindsCredentials ==
  main = "boot" /\ provisioned # Unset /\ ~worn
    => Load(nvs).ssid = provisioned.ssid /\ Load(nvs).pass = provisioned.pass

(* README.md:130: when provisioning succeeds the firmware saves the Wi-Fi  *)
(* information, restarts, and connects to the saved Wi-Fi by itself.  So   *)
(* the boot after it goes for the station with the very credentials,       *)
(* unless it aborts before it comes to that.                               *)
BootUsesCredentials ==
  [][ main = "boot" /\ main' \notin {"boot", "aborted"} /\ provisioned # Unset /\ ~worn
        => main' = "station" /\ DriverCreds(config') = provisioned ]_vars

(* The same promise of the restart alone, without excepting NVS errors.    *)
RestartsWithCredentials ==
  main = "boot" /\ provisioned # Unset
    => Load(nvs).ssid = provisioned.ssid /\ Load(nvs).pass = provisioned.pass

(* Whatever is stored, and be it the SSID of one network with the password *)
(* of another after a crash between the two writes: if from some time on   *)
(* NVS can be read and what a boot creates can be created, a device comes  *)
(* up.  It serves or offers provisioning; no stored value, and no network  *)
(* that cannot be joined, keeps it in a boot loop.                         *)
BootSettles ==
  <>[][~BootFails /\ ~StartFails]_vars
    => (main = "boot" ~> main \in {"serving", "provisioning"})
=============================================================================
