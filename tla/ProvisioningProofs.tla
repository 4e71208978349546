------------------------- MODULE ProvisioningProofs -------------------------
(***************************************************************************)
(* For any networks and any number of crashes: what provisioning stores is *)
(* what it said it stored, and what a boot can live with.                  *)
(***************************************************************************)
EXTENDS Provisioning, TLAPS

Received(c) == [type |-> "CRED_RECV", creds |-> c]
Succeeded   == [type |-> "CRED_SUCCESS"]
Ended       == [type |-> "END"]

(* The manager runs only while app_main is in provisioning, and its        *)
(* progress tells which events the loop has yet to handle.                 *)
ManagerShape ==
  /\ prov # "off" => main = "provisioning"
  /\ prov = "connecting" => candidate \in Creds
  /\ \/ queue = <<>>
     \/ prov = "connecting" /\ queue = <<Received(candidate)>>
     \/ prov = "connected" /\ queue = <<Succeeded>>
     \/ prov = "ended" /\ queue \in {<<Succeeded, Ended>>, <<Ended>>}

(* The event loop saves credentials it has, after CRED_SUCCESS.            *)
LoopShape ==
  handler # "idle" =>
    /\ prov \in {"connected", "ended"}
    /\ queue \in {<<>>, <<Ended>>}
    /\ pending \in Creds

(* Settings are acknowledged when they are committed, and nobody writes    *)
(* until the next save begins; app_config_init leaves nothing or all.      *)
Kept == IF erased THEN Settings(Blank) ELSE acked

AckedStored ==
  /\ acked # Unset => httpd = "idle" /\ Settings(nvs) = Kept /\ Settings(flash) = Kept
  /\ acked = Unset => ~erased

(* An issuer is checked on its way to NVS.                                 *)
Usable == {"issuer", "default_issuer"}

IssuersChecked ==
  /\ nvs["auth_issuer"] \in Usable \cup {Unset}
  /\ flash["auth_issuer"] \in Usable \cup {Unset}
  /\ httpd # "idle" => auth.issuer \in Usable

(* The credentials the manager tries are those the loop will save.         *)
CandidatePending ==
  prov = "connecting" /\ queue = <<>> => pending = candidate

HasSsid(store)  == store["wifi_ssid"] = provisioned.ssid
HasCreds(store) == HasSsid(store) /\ store["wifi_pass"] = provisioned.pass

(* How far the credentials that succeeded are on their way to the flash.   *)
Saving ==
  \/ handler = "idle" /\ queue \in {<<Succeeded>>, <<Succeeded, Ended>>}
  \/ handler = "wifi_ssid"
  \/ handler = "wifi_pass" /\ HasSsid(nvs)
  \/ handler = "commit" /\ HasCreds(nvs)

ProvisionedStored ==
  provisioned # Unset /\ ~worn =>
    /\ provisioned \in Creds
    /\ prov # "connecting"
    /\ prov \in {"connected", "ended"} => pending = provisioned
    /\ \/ prov \in {"connected", "ended"} /\ Saving
       \/ handler = "idle" /\ queue \in {<<>>, <<Ended>>} /\ HasCreds(nvs) /\ HasCreds(flash)

(* The flags are typed apart from the rest of the state.                   *)
FlagTypes ==
  /\ worn \in BOOLEAN /\ completed \in BOOLEAN /\ erased \in BOOLEAN
  /\ erased => worn

DataTypes ==
  /\ nvs \in [NvsKeys -> Values] /\ flash \in [NvsKeys -> Values]
  /\ main \in {"boot", "station", "offering", "provisioning",
              "auth_start", "sensor_start", "api_start", "serving", "aborted"}
  /\ config \in Configs /\ auth \in Configs
  /\ httpd \in AuthKeys \cup {"idle", "commit"}
  /\ handler \in WifiKeys \cup {"idle", "commit"}
  /\ pending \in Creds \cup {Unset} /\ candidate \in Creds \cup {Unset}
  /\ prov \in {"off", "waiting", "connecting", "connected", "ended"}
  /\ provisioned \in Creds \cup {Unset}
  /\ crashes \in 0..MaxCrashes

ProvInv ==
  /\ FlagTypes /\ DataTypes /\ ManagerShape /\ LoopShape
  /\ AckedStored /\ IssuersChecked /\ CandidatePending /\ ProvisionedStored

USE DEF Succeeded, Ended, Received

----------------------------------------------------------------------------
LEMMA LoadTyped ==
  ASSUME NEW store \in [NvsKeys -> Values]
  PROVE  /\ Load(store) \in Configs
         /\ Load(store).issuer =
              IF store["auth_issuer"] = Unset THEN "default_issuer" ELSE store["auth_issuer"]
         /\ store["wifi_ssid"] # Unset => Load(store).ssid = store["wifi_ssid"]
         /\ store["wifi_pass"] # Unset => Load(store).pass = store["wifi_pass"]
BY UnsetAssumption DEF Load, Configs, Strings, Values, NvsKeys, WifiKeys, AuthKeys

LEMMA BlankTyped == Blank \in [NvsKeys -> Values] /\ NoConfig \in Configs
<1>1. Blank \in [NvsKeys -> Values]
  BY DEF Blank, Values
<1> QED
  BY <1>1, LoadTyped DEF NoConfig

(* A member a request gives replaces the stored one.                       *)
LEMMA MergeTyped ==
  ASSUME nvs \in [NvsKeys -> Values], NEW p \in Payloads
  PROVE  /\ Merge(p) \in Configs
         /\ Merge(p).issuer = IF p.issuer = Unset THEN Load(nvs).issuer ELSE p.issuer
<1> DEFINE stored == Load(nvs)
<1>1. stored \in Configs
  BY LoadTyped
<1>2. /\ p.issuer # Unset => p.issuer \in Strings
      /\ p.aud # Unset => p.aud \in Strings
      /\ p.role # Unset => p.role \in Strings
  BY DEF Payloads, Issuers, Strings, Values
<1>3. Merge(p) = [stored EXCEPT !.issuer = IF p.issuer = Unset THEN stored.issuer ELSE p.issuer,
                               !.aud = IF p.aud = Unset THEN stored.aud ELSE p.aud,
                               !.role = IF p.role = Unset THEN stored.role ELSE p.role]
  BY DEF Merge
<1> HIDE DEF stored
<1>4. Merge(p) \in Configs
  BY <1>1, <1>2, <1>3 DEF Configs
<1>5. Merge(p).issuer = IF p.issuer = Unset THEN stored.issuer ELSE p.issuer
  BY <1>1, <1>3 DEF Configs
<1> QED
  BY <1>4, <1>5 DEF stored

LEMMA CredsTyped ==
  ASSUME NEW c \in Creds
  PROVE  c.ssid \in Strings /\ c.pass \in Strings /\ c # Unset
BY UnsetAssumption DEF Creds, Password, Strings, Values

(* Every key survives a power cycle with a value it had in one place.      *)
LEMMA PowerCycleEffect ==
  ASSUME nvs \in [NvsKeys -> Values], flash \in [NvsKeys -> Values], PowerCycle
  PROVE  /\ nvs' \in [NvsKeys -> Values] /\ flash' = nvs'
         /\ \A k \in NvsKeys : nvs'[k] = nvs[k] \/ nvs'[k] = flash[k]
BY DEF PowerCycle

(* What each event tells the loop about the manager, and leaves in the     *)
(* queue.                                                                  *)
LEMMA DispatchEffect ==
  ASSUME ManagerShape, NEW type, Dispatch(type)
  PROVE  /\ type = "CRED_RECV" =>
              prov = "connecting" /\ Head(queue).creds = candidate /\ queue' = <<>>
         /\ type = "CRED_SUCCESS" =>
              \/ prov = "connected" /\ queue = <<Succeeded>> /\ queue' = <<>>
              \/ prov = "ended" /\ queue = <<Succeeded, Ended>> /\ queue' = <<Ended>>
         /\ type = "END" =>
              prov = "ended" /\ queue = <<Ended>> /\ queue' = <<>>
<1>1. Dispatch(type) => queue # <<>> /\ Head(queue).type = type /\ queue' = Tail(queue)
  BY DEF Dispatch
<1>2. CASE prov = "connecting" /\ queue = <<Received(candidate)>>
  <2>1. Head(queue).type = "CRED_RECV" /\ Head(queue).creds = candidate /\ Tail(queue) = <<>>
    BY <1>2
  <2> QED
    BY <1>1, <1>2, <2>1
<1>3. CASE prov = "connected" /\ queue = <<Succeeded>>
  <2>1. Head(queue).type = "CRED_SUCCESS" /\ Tail(queue) = <<>>
    BY <1>3
  <2> QED
    BY <1>1, <1>3, <2>1
<1>4. CASE prov = "ended" /\ queue = <<Succeeded, Ended>>
  <2>1. Head(queue).type = "CRED_SUCCESS" /\ Tail(queue) = <<Ended>>
    BY <1>4
  <2> QED
    BY <1>1, <1>4, <2>1
<1>5. CASE prov = "ended" /\ queue = <<Ended>>
  <2>1. Head(queue).type = "END" /\ Tail(queue) = <<>>
    BY <1>5
  <2> QED
    BY <1>1, <1>5, <2>1
<1> QED
  BY <1>1, <1>2, <1>3, <1>4, <1>5 DEF ManagerShape

LEMMA AppendSecond ==
  ASSUME NEW a, NEW b
  PROVE  Append(<<a>>, b) = <<a, b>>
<1>1. <<a>> \in Seq({a, b}) /\ <<a, b>> \in Seq({a, b})
  OBVIOUS
<1>2. Append(<<a>>, b) = [i \in 1..2 |-> IF i = 2 THEN b ELSE a]
  BY <1>1
<1>3. <<a, b>> = [i \in 1..2 |-> IF i = 2 THEN b ELSE a]
  BY <1>1
<1> QED
  BY <1>2, <1>3

(* END is posted behind CRED_SUCCESS, if that is still queued.             *)
LEMMA EndEffect ==
  ASSUME ManagerShape, EndService
  PROVE  \/ queue = <<>> /\ queue' = <<Ended>>
         \/ queue = <<Succeeded>> /\ queue' = <<Succeeded, Ended>>
<1>1. queue = <<>> \/ queue = <<Succeeded>>
  BY DEF ManagerShape, EndService
<1>2. queue' = Append(queue, Ended)
  BY DEF EndService
<1>3. CASE queue = <<>>
  BY <1>2, <1>3
<1>4. CASE queue = <<Succeeded>>
  BY <1>2, <1>4, AppendSecond
<1> QED
  BY <1>1, <1>3, <1>4

----------------------------------------------------------------------------
LEMMA InitProvInv == Init => ProvInv
<1> SUFFICES ASSUME Init PROVE ProvInv
  OBVIOUS
<1>1. FlagTypes /\ DataTypes
  <2>1. FlagTypes
    BY DEF Init, FlagTypes
  <2>2. DataTypes
    BY BlankTyped, NetworkAssumption DEF Init, DataTypes
  <2> QED
    BY <2>1, <2>2
<1>2. ManagerShape /\ LoopShape /\ CandidatePending
  BY DEF Init, ManagerShape, LoopShape, CandidatePending
<1>3. AckedStored /\ IssuersChecked /\ ProvisionedStored
  BY DEF Init, AckedStored, IssuersChecked, ProvisionedStored, Blank, NvsKeys, AuthKeys
<1> QED
  BY <1>1, <1>2, <1>3 DEF ProvInv

LEMMA FlagStep ==
  ASSUME ProvInv, Next
  PROVE  FlagTypes'
<1>1. worn' = worn
  BY DEF Next, Crash, AbortReboots, PowerCycle, Main, Boot, BootErasing, BootFails, StationConnects,
    StationFails, StartProvisioning, StartAuth, StartServices, StartFails, MainGoes, Httpd, ReceiveAuth, SaveAuth, SaveAuthField,
    SaveAuthFails, CommitAuth, HttpdGoes, Handler, HandleCredRecv, HandleCredSuccess, SaveSsid,
    SavePassword, CommitWifi, SaveWifiFails, HandlerGoes, HandleEnd, ConfigureWifi, TryFails,
    TrySucceeds, EndService, ManagerOnly
<1>2. completed' = completed \/ completed' = FALSE \/ completed' = TRUE
  BY DEF Next, Crash, AbortReboots, PowerCycle, Main, Boot, BootErasing, BootFails, StationConnects,
    StationFails, StartProvisioning, StartAuth, StartServices, StartFails, MainGoes, Httpd, ReceiveAuth, SaveAuth, SaveAuthField,
    SaveAuthFails, CommitAuth, HttpdGoes, Handler, HandleCredRecv, HandleCredSuccess, SaveSsid,
    SavePassword, CommitWifi, SaveWifiFails, HandlerGoes, HandleEnd, ConfigureWifi, TryFails,
    TrySucceeds, EndService, ManagerOnly, loop
<1>3. (erased' = erased) \/ (erased' = FALSE) \/ BootErasing
  BY DEF Next, Crash, AbortReboots, Main, Boot, BootFails, StationConnects, StationFails,
    StartProvisioning, StartAuth, StartServices, StartFails, Httpd, ReceiveAuth, SaveAuth,
    SaveAuthField, SaveAuthFails, CommitAuth, Handler, HandleCredRecv, HandleCredSuccess, SaveSsid,
    SavePassword, CommitWifi, SaveWifiFails, HandlerGoes, HandleEnd, ConfigureWifi, TryFails,
    TrySucceeds, EndService, ManagerOnly, history
<1>4. BootErasing => worn /\ erased' \in BOOLEAN
  BY DEF BootErasing
<1>5. worn' \in BOOLEAN /\ completed' \in BOOLEAN
  BY <1>1, <1>2, Zenon DEF ProvInv, FlagTypes
<1>6. erased' \in BOOLEAN
  BY <1>3, <1>4, Zenon DEF ProvInv, FlagTypes
<1>7. erased' => worn
  <2>1. erased => worn
    BY DEF ProvInv, FlagTypes
  <2>2. CASE erased' = erased
    BY <2>1, <2>2
  <2>3. CASE erased' = FALSE
    BY <2>3
  <2>4. CASE BootErasing
    BY <1>4, <2>4
  <2> QED
    BY <1>3, <2>2, <2>3, <2>4
<1> QED
  BY <1>1, <1>5, <1>6, <1>7, Zenon DEF FlagTypes

LEMMA TypeStep ==
  ASSUME ProvInv, Next
  PROVE  DataTypes'
<1> USE DEF ProvInv, DataTypes
<1>1. ASSUME PowerCycle, UNCHANGED <<provisioned, worn>>, crashes' \in 0..MaxCrashes PROVE DataTypes'
  BY <1>1, PowerCycleEffect, BlankTyped DEF PowerCycle
<1>3. CASE Crash
  BY <1>3, PowerCycleEffect, BlankTyped, NetworkAssumption DEF PowerCycle, Crash
<1>4. CASE AbortReboots
  BY <1>1, <1>4 DEF AbortReboots, PowerCycle, history
<1>5. CASE Boot \/ StartProvisioning
  BY <1>5, LoadTyped, BlankTyped DEF Boot, StartProvisioning, MainGoes, web, loop, manager, history
<1>6. CASE BootErasing
  BY <1>6, BlankTyped DEF BootErasing, device, web, loop, manager
<1>7. CASE BootFails \/ StationConnects \/ StationFails \/ StartAuth \/ StartServices \/ StartFails
  BY <1>7 DEF BootFails, StationConnects, StationFails, StartAuth, StartServices, StartFails,
              MainGoes, web, loop, manager, history
<1>8. CASE ReceiveAuth
  BY <1>8, MergeTyped DEF ReceiveAuth, HttpdGoes, AuthKeys, device, loop, manager
<1>9. CASE SaveAuth
  BY <1>9 DEF SaveAuth, SaveAuthField, Write, HttpdGoes, NvsKeys, AuthKeys, Configs, Strings, device, loop, manager
<1>10. CASE SaveAuthFails \/ CommitAuth
  BY <1>10, BlankTyped DEF SaveAuthFails, CommitAuth, HttpdGoes, AuthKeys, device, loop, manager
<1>11. CASE HandleCredRecv
  BY <1>11, DispatchEffect DEF HandleCredRecv, HandlerGoes, ManagerShape, device, web, history
<1>12. CASE HandleCredSuccess
  BY <1>12, DispatchEffect DEF HandleCredSuccess, HandlerGoes, WifiKeys, device, web, history
<1>13. CASE SaveSsid \/ SavePassword
  BY <1>13, CredsTyped DEF SaveSsid, SavePassword, HandlerGoes, Write, LoopShape, NvsKeys, WifiKeys, Strings, device, web, history
<1>14. CASE CommitWifi \/ SaveWifiFails
  BY <1>14 DEF CommitWifi, SaveWifiFails, HandlerGoes, WifiKeys, device, web, history
<1>15. CASE HandleEnd
  <2>1. CASE completed
    BY <1>1, <1>15, <2>1 DEF HandleEnd, PowerCycle, history
  <2>2. CASE ~completed
    BY <1>15, <2>2, DispatchEffect DEF HandleEnd, device, web, loop, history
  <2> QED
    BY <2>1, <2>2
<1>16. CASE ConfigureWifi
  BY <1>16 DEF ConfigureWifi, ManagerOnly, ManagerShape, device, web, loop
<1>17. CASE TryFails \/ TrySucceeds \/ EndService
  BY <1>17 DEF TryFails, TrySucceeds, EndService, ManagerOnly, ManagerShape, device, web, loop
<1> QED
  BY <1>3, <1>4, <1>5, <1>6, <1>7, <1>8, <1>9, <1>10, <1>11, <1>12, <1>13, <1>14, <1>15, <1>16, <1>17
     DEF Next, Main, Httpd, Handler

LEMMA ManagerStep ==
  ASSUME ProvInv, Next
  PROVE  ManagerShape' /\ LoopShape'
<1> USE DEF ProvInv, ManagerShape, LoopShape
<1>1. ASSUME PowerCycle PROVE ManagerShape' /\ LoopShape'
  BY <1>1 DEF PowerCycle
<1>3. CASE Crash \/ AbortReboots
  BY <1>1, <1>3 DEF Crash, AbortReboots
<1>4. CASE Boot \/ BootErasing \/ StartProvisioning
  BY <1>4 DEF Boot, BootErasing, StartProvisioning, MainGoes, device, web, loop, manager
<1>5. CASE BootFails \/ StationConnects \/ StationFails \/ StartAuth \/ StartServices \/ StartFails
  BY <1>5 DEF BootFails, StationConnects, StationFails, StartAuth, StartServices, StartFails,
              MainGoes, web, loop, manager
<1>6. CASE Httpd
  BY <1>6 DEF Httpd, ReceiveAuth, SaveAuth, SaveAuthField, SaveAuthFails, CommitAuth, HttpdGoes, device, loop, manager
<1>7. CASE HandleCredRecv
  BY <1>7, DispatchEffect DEF HandleCredRecv, HandlerGoes, device, web, history
<1>8. CASE HandleCredSuccess
  BY <1>8, DispatchEffect DEF HandleCredSuccess, HandlerGoes, DataTypes, device, web, history
<1>9. CASE SaveSsid \/ SavePassword \/ CommitWifi \/ SaveWifiFails
  BY <1>9 DEF SaveSsid, SavePassword, CommitWifi, SaveWifiFails, HandlerGoes, WifiKeys, device, web, history
<1>10. CASE HandleEnd
  <2>1. CASE completed
    BY <1>1, <1>10, <2>1 DEF HandleEnd
  <2>2. CASE ~completed
    BY <1>10, <2>2, DispatchEffect DEF HandleEnd, device, web, loop, history
  <2> QED
    BY <2>1, <2>2
<1>11. CASE ConfigureWifi
  BY <1>11 DEF ConfigureWifi, ManagerOnly, device, web, loop
<1>12. CASE TryFails
  BY <1>12 DEF TryFails, ManagerOnly, device, web, loop
<1>13. CASE TrySucceeds
  BY <1>13 DEF TrySucceeds, ManagerOnly, device, web, loop
<1>14. CASE EndService
  BY <1>14, EndEffect DEF EndService, ManagerOnly, device, web, loop
<1> QED
  BY <1>3, <1>4, <1>5, <1>6, <1>7, <1>8, <1>9, <1>10, <1>11, <1>12, <1>13, <1>14 DEF Next, Main, Handler

LEMMA AckedStep ==
  ASSUME ProvInv, Next
  PROVE  AckedStored' /\ IssuersChecked'
<1> USE DEF ProvInv, DataTypes, AckedStored, IssuersChecked, Settings, Usable
<1> USE DEF NvsKeys, AuthKeys, WifiKeys
<1>1. ASSUME PowerCycle, UNCHANGED <<acked, erased>> PROVE AckedStored' /\ IssuersChecked'
  <2>1. nvs' = flash' /\ \A k \in NvsKeys : nvs'[k] = nvs[k] \/ nvs'[k] = flash[k]
    BY <1>1, PowerCycleEffect
  <2>2. acked # Unset => Settings(nvs') = Kept
    BY <2>1
  <2> QED
    BY <1>1, <2>1, <2>2 DEF PowerCycle, Kept
<1>2. CASE Crash \/ AbortReboots
  BY <1>1, <1>2 DEF Crash, AbortReboots, history
<1>3. CASE Boot \/ StartProvisioning
  BY <1>3 DEF Boot, StartProvisioning, MainGoes, Kept, web, history
<1>4. CASE BootErasing
  BY <1>4 DEF BootErasing, Kept, web, Blank
<1>5. CASE BootFails \/ StationConnects \/ StationFails \/ StartAuth \/ StartServices \/ StartFails
  BY <1>5 DEF BootFails, StationConnects, StationFails, StartAuth, StartServices, StartFails,
              MainGoes, Kept, web, history
<1>6. CASE ReceiveAuth
  <2>1. PICK p \in Payloads : Acceptable(p) /\ auth' = Merge(p)
    BY <1>6 DEF ReceiveAuth
  <2>2. auth'.issuer \in Usable
    BY <2>1, MergeTyped, LoadTyped, UnsetAssumption
       DEF Acceptable, ValidIssuer, Fits, HasHttps, HasTrailingSlash, Payloads, Issuers
  <2> QED
    BY <1>6, <2>2 DEF ReceiveAuth
<1>7. CASE SaveAuth
  BY <1>7 DEF SaveAuth, SaveAuthField, HttpdGoes, Write, Kept
<1>8. CASE SaveAuthFails
  BY <1>8 DEF SaveAuthFails, HttpdGoes, Kept
<1>9. CASE CommitAuth
  BY <1>9 DEF CommitAuth, HttpdGoes, Kept
<1>10. CASE HandleCredRecv \/ HandleCredSuccess \/ SaveWifiFails
  BY <1>10 DEF HandleCredRecv, HandleCredSuccess, SaveWifiFails, HandlerGoes, Kept, web, history
<1>11. CASE SaveSsid \/ SavePassword
  BY <1>11 DEF SaveSsid, SavePassword, HandlerGoes, Write, Kept, web, history
<1>12. CASE CommitWifi
  BY <1>12 DEF CommitWifi, HandlerGoes, Kept, web, history
<1>13. CASE HandleEnd
  BY <1>1, <1>13 DEF HandleEnd, Kept, web, history
<1>14. CASE ConfigureWifi \/ TryFails \/ TrySucceeds \/ EndService
  BY <1>14 DEF ConfigureWifi, TryFails, TrySucceeds, EndService, ManagerOnly, Kept, web
<1> QED
  BY <1>2, <1>3, <1>4, <1>5, <1>6, <1>7, <1>8, <1>9, <1>10, <1>11, <1>12, <1>13, <1>14
     DEF Next, Main, Httpd, Handler

LEMMA SavingStep ==
  ASSUME ProvInv, Next
  PROVE  CandidatePending' /\ ProvisionedStored'
<1> USE DEF ProvInv, DataTypes, ManagerShape, LoopShape, CandidatePending, ProvisionedStored,
            Saving, HasSsid, HasCreds
<1> USE DEF NvsKeys, AuthKeys, WifiKeys
<1> DEFINE Goal == CandidatePending' /\ ProvisionedStored'
<1>1. ASSUME PowerCycle, provisioned' \in {Unset, provisioned},
             provisioned # Unset /\ ~worn => HasCreds(nvs) /\ HasCreds(flash)
      PROVE  Goal
  <2>1. nvs' = flash' /\ \A k \in NvsKeys : nvs'[k] = nvs[k] \/ nvs'[k] = flash[k]
    BY <1>1, PowerCycleEffect
  <2> QED
    BY <1>1, <2>1 DEF PowerCycle
<1>2. CASE Crash
  <2>1. provisioned' = Unset /\ prov' = "off"
    BY <1>2 DEF Crash, PowerCycle
  <2> QED
    BY <2>1
<1>3. CASE AbortReboots
  BY <1>1, <1>3 DEF AbortReboots, history
<1>4. CASE Boot \/ StartProvisioning
  BY <1>4 DEF Boot, StartProvisioning, MainGoes, loop, web, history, manager
<1>5. CASE BootErasing
  BY <1>5 DEF BootErasing, device, loop, manager
<1>6. CASE BootFails \/ StationConnects \/ StationFails \/ StartAuth \/ StartServices \/ StartFails
  BY <1>6 DEF BootFails, StationConnects, StationFails, StartAuth, StartServices, StartFails,
              MainGoes, loop, web, history, manager
<1>7. CASE ReceiveAuth \/ SaveAuthFails
  BY <1>7 DEF ReceiveAuth, SaveAuthFails, HttpdGoes, device, loop, manager
<1>8. CASE SaveAuth
  BY <1>8 DEF SaveAuth, SaveAuthField, HttpdGoes, Write, device, loop, manager
<1>9. CASE CommitAuth
  BY <1>9 DEF CommitAuth, HttpdGoes, device, loop, manager
<1>10. CASE HandleCredRecv
  BY <1>10, DispatchEffect DEF HandleCredRecv, HandlerGoes, device, web, history
<1>11. CASE HandleCredSuccess
  BY <1>11, DispatchEffect, CredsTyped DEF HandleCredSuccess, HandlerGoes, device, web, history
<1>12. CASE SaveSsid
  BY <1>12 DEF SaveSsid, HandlerGoes, Write, device, web, history
<1>13. CASE SavePassword
  BY <1>13 DEF SavePassword, HandlerGoes, Write, device, web, history
<1>14. CASE CommitWifi
  BY <1>14 DEF CommitWifi, HandlerGoes, device, web, history
<1>15. CASE SaveWifiFails
  BY <1>15 DEF SaveWifiFails, HandlerGoes, device, web, history
<1>16. CASE HandleEnd
  <2>1. queue = <<Ended>> /\ prov = "ended" /\ handler = "idle"
    BY <1>16 DEF HandleEnd
  <2>2. CASE completed
    BY <1>1, <1>16, <2>1, <2>2 DEF HandleEnd, history
  <2>3. CASE ~completed
    BY <1>16, <2>1, <2>3, DispatchEffect DEF HandleEnd, loop, history
  <2> QED
    BY <2>2, <2>3
<1>17. CASE ConfigureWifi
  <2>1. prov' = "connecting" /\ provisioned' = Unset /\ queue' # <<>>
    BY <1>17 DEF ConfigureWifi
  <2> QED
    BY <2>1
<1>18. CASE TryFails
  BY <1>18 DEF TryFails, ManagerOnly, device, loop
<1>19. CASE TrySucceeds
  BY <1>19, CredsTyped DEF TrySucceeds, ManagerOnly, device, loop
<1>20. CASE EndService
  BY <1>20, EndEffect DEF EndService, ManagerOnly, device, loop
<1> QED
  BY <1>2, <1>3, <1>4, <1>5, <1>6, <1>7, <1>8, <1>9, <1>10, <1>11, <1>12, <1>13, <1>14, <1>15,
     <1>16, <1>17, <1>18, <1>19, <1>20 DEF Next, Main, Httpd, Handler

----------------------------------------------------------------------------
LEMMA ProvInvInductive == Spec => []ProvInv
<1>1. ProvInv /\ [Next]_vars => ProvInv'
  <2> SUFFICES ASSUME ProvInv, [Next]_vars PROVE ProvInv'
    OBVIOUS
  <2>1. CASE Next
    BY <2>1, FlagStep, TypeStep, ManagerStep, AckedStep, SavingStep DEF ProvInv
  <2>2. CASE UNCHANGED vars
    <3>1. FlagTypes' /\ DataTypes' /\ ManagerShape' /\ LoopShape'
      BY <2>2 DEF ProvInv, FlagTypes, DataTypes, ManagerShape, LoopShape,
                  vars, device, web, loop, manager, history
    <3>2. AckedStored' /\ IssuersChecked' /\ CandidatePending'
      BY <2>2 DEF ProvInv, AckedStored, IssuersChecked, CandidatePending, Settings, Kept,
                  vars, device, web, loop, manager, history
    <3>3. ProvisionedStored'
      BY <2>2 DEF ProvInv, ProvisionedStored, Saving, HasSsid, HasCreds,
                  vars, device, web, loop, manager, history
    <3> QED
      BY <3>1, <3>2, <3>3 DEF ProvInv
  <2> QED
    BY <2>1, <2>2
<1> QED
  BY <1>1, InitProvInv, PTL DEF Spec

(* Every variable keeps its type, and the event loop is never more than    *)
(* two events behind the manager, for any networks and crashes.            *)
THEOREM ProvisioningTypeCorrect == Spec => []TypeOK
<1>1. ProvInv => TypeOK
  <2> SUFFICES ASSUME ProvInv PROVE TypeOK
    OBVIOUS
  <2>1. Len(queue) <= 2
    <3>1. \/ queue = <<>>
          \/ \E event : queue = <<event>>
          \/ queue = <<Succeeded, Ended>>
      BY DEF ProvInv, ManagerShape
    <3>2. CASE queue = <<>>
      BY <3>2
    <3>3. CASE \E event : queue = <<event>>
      BY <3>3
    <3>4. CASE queue = <<Succeeded, Ended>>
      BY <3>4
    <3> QED
      BY <3>1, <3>2, <3>3, <3>4
  <2> QED
    BY <2>1, Zenon DEF ProvInv, FlagTypes, DataTypes, TypeOK
<1> QED
  BY <1>1, ProvInvInductive, PTL

(* What the custom-data handler answered "ok" to is in the flash from then *)
(* on, through any crashes, failed operations, restarts and Wi-Fi writes,  *)
(* until a client saves other settings, or app_config_init erases the      *)
(* partition of a worn device: that takes all of them, and nothing else    *)
(* takes any.                                                              *)
THEOREM AckedSurvives == Spec => []AckedAuthDurable
<1>1. ProvInv => AckedAuthDurable
  BY DEF ProvInv, FlagTypes, AckedStored, Kept, AckedAuthDurable
<1> QED
  BY <1>1, ProvInvInductive, PTL

(* Whatever crashes, failed saves and requests leave in NVS, auth_oidc_start *)
(* accepts the issuer.                                                     *)
THEOREM StoredIssuersBoot == Spec => []StoredIssuerBootable
<1>1. ProvInv => StoredIssuerBootable
  <2> SUFFICES ASSUME ProvInv, NEW store \in {nvs, flash}
               PROVE  BootableIssuer(Load(store).issuer)
    BY DEF StoredIssuerBootable
  <2>1. store \in [NvsKeys -> Values] /\ store["auth_issuer"] \in Usable \cup {Unset}
    BY DEF ProvInv, DataTypes, IssuersChecked
  <2> QED
    BY <2>1, LoadTyped DEF Usable, BootableIssuer, HasHttps, HasTrailingSlash
<1> QED
  BY <1>1, ProvInvInductive, PTL

(* On a device whose NVS works, the boot that follows a success finds the  *)
(* very credentials that made it one: the save is complete before the      *)
(* restart, and no other write can mix with it.                            *)
THEOREM RestartHasCredentials == Spec => []RestartFindsCredentials
<1>1. ProvInv => RestartFindsCredentials
  <2> SUFFICES ASSUME ProvInv, main = "boot", provisioned # Unset, ~worn
               PROVE  Load(nvs).ssid = provisioned.ssid /\ Load(nvs).pass = provisioned.pass
    BY DEF RestartFindsCredentials
  <2>1. HasCreds(nvs) /\ provisioned \in Creds
    BY DEF ProvInv, ManagerShape, ProvisionedStored
  <2>2. provisioned.ssid # Unset /\ provisioned.pass # Unset
    BY <2>1, CredsTyped DEF Strings
  <2> QED
    BY <2>1, <2>2, LoadTyped DEF ProvInv, DataTypes, HasCreds, HasSsid
<1> QED
  BY <1>1, ProvInvInductive, PTL

(* What the driver is given as it was saved: both fields, one of them not  *)
(* empty, and neither cut.                                                 *)
Restorable(creds) ==
  creds.pass # "" /\ creds.ssid \notin FullLength /\ creds.pass \notin FullLength

LEMMA BootChoice ==
  ASSUME ProvInv, Next, main = "boot", main' \notin {"boot", "aborted"}, provisioned # Unset, ~worn
  PROVE  main' = "station" /\ DriverCreds(config') = provisioned <=> Restorable(provisioned)
<1>1. Boot
  <2>1. ~Crash /\ ~AbortReboots /\ ~BootErasing /\ ~BootFails
    BY DEF Crash, AbortReboots, PowerCycle, BootErasing, BootFails, MainGoes, device
  <2>2. ~StationConnects /\ ~StationFails /\ ~StartProvisioning /\ ~StartAuth /\ ~StartServices /\ ~StartFails
    BY DEF StationConnects, StationFails, StartProvisioning, StartAuth, StartServices, StartFails, MainGoes
  <2>3. ~Httpd /\ ~Handler
    BY DEF Httpd, ReceiveAuth, SaveAuth, SaveAuthField, SaveAuthFails, CommitAuth, HttpdGoes,
           Handler, HandleCredRecv, HandleCredSuccess, SaveSsid, SavePassword, CommitWifi,
           SaveWifiFails, HandlerGoes, HandleEnd
  <2>4. ~ConfigureWifi /\ ~TryFails /\ ~TrySucceeds /\ ~EndService
    BY DEF ConfigureWifi, TryFails, TrySucceeds, EndService, ManagerOnly, device
  <2> QED
    BY <2>1, <2>2, <2>3, <2>4 DEF Next, Main
<1> DEFINE c == Load(nvs)
<1>2. provisioned \in Creds /\ c.ssid = provisioned.ssid /\ c.pass = provisioned.pass
  <2>1. HasCreds(nvs) /\ provisioned \in Creds
    BY DEF ProvInv, ManagerShape, ProvisionedStored
  <2>2. provisioned.ssid # Unset /\ provisioned.pass # Unset
    BY <2>1, CredsTyped DEF Strings
  <2> QED
    BY <2>1, <2>2, LoadTyped DEF ProvInv, DataTypes, HasCreds, HasSsid
<1> HIDE DEF c
<1>3. HasWifi(c) <=> provisioned.pass # ""
  BY <1>2, NameAssumption DEF Creds, HasWifi
<1>4. DriverCreds(c) = provisioned <=>
        provisioned.ssid \notin FullLength /\ provisioned.pass \notin FullLength
  <2>1. DriverCreds(c) = [ssid |-> DriverField(provisioned.ssid), pass |-> DriverField(provisioned.pass)]
    BY <1>2 DEF DriverCreds
  <2>2. provisioned.ssid # Truncated /\ provisioned.pass # Truncated
    BY <1>2, NameAssumption DEF Creds, Password, Truncated
  <2>3. provisioned = [ssid |-> provisioned.ssid, pass |-> provisioned.pass]
    BY <1>2 DEF Creds
  <2> QED
    BY <2>1, <2>2, <2>3 DEF DriverField
<1>5. HasWifi(c) => main' = "station" /\ config' = c
  BY <1>1 DEF Boot, MainGoes, c
<1>6. ~HasWifi(c) => main' = "offering"
  BY <1>1 DEF Boot, MainGoes, c
<1>7. main' = "station" /\ DriverCreds(config') = provisioned
        <=> HasWifi(c) /\ DriverCreds(c) = provisioned
  BY <1>5, <1>6
<1> QED
  BY <1>3, <1>4, <1>7 DEF Restorable

(* Exactly the networks whose credentials survive wifi_manager_start are   *)
(* joined after provisioning: not those with an empty password, nor those  *)
(* whose SSID or password fills the field of the driver.                   *)
THEOREM ExactlyRestorableReconnect ==
  Spec => [][ main = "boot" /\ main' \notin {"boot", "aborted"} /\ provisioned # Unset /\ ~worn
                => (main' = "station" /\ DriverCreds(config') = provisioned
                      <=> Restorable(provisioned)) ]_vars
<1>1. ProvInv /\ [Next]_vars
        => [ main = "boot" /\ main' \notin {"boot", "aborted"} /\ provisioned # Unset /\ ~worn
               => (main' = "station" /\ DriverCreds(config') = provisioned
                     <=> Restorable(provisioned)) ]_vars
  BY BootChoice
<1> QED
  BY <1>1, ProvInvInductive, PTL DEF Spec

(* Where every network has a password and names that fit, the boot after a *)
(* success always goes for the station with those credentials.             *)
THEOREM BootReconnects ==
  ASSUME Open = {}, FullLength = {}
  PROVE  Spec => BootUsesCredentials
<1>1. ASSUME ProvInv, provisioned # Unset, ~worn, main = "boot" PROVE Restorable(provisioned)
  <2>1. provisioned \in Creds
    BY <1>1 DEF ProvInv, ManagerShape, ProvisionedStored
  <2> QED
    BY <2>1, NameAssumption DEF Creds, Password, Restorable
<1>2. ProvInv /\ [Next]_vars
        => [ main = "boot" /\ main' \notin {"boot", "aborted"} /\ provisioned # Unset /\ ~worn
               => main' = "station" /\ DriverCreds(config') = provisioned ]_vars
  BY <1>1, BootChoice
<1> QED
  BY <1>2, ProvInvInductive, PTL DEF Spec, BootUsesCredentials
=============================================================================
