# Formal models of the ESP32 thermo-hygrometer firmware

TLA+ modules for the firmware in `src/main`, TLC configurations that check them on small instances, and TLAPS proofs of their main safety properties for every value of the constants.

## The system

The firmware reads an SHT31 over I2C and serves the latest measurement over HTTP to clients with a valid OIDC token. After `app_main` returns, these threads remain:

| Thread | Code | Writes |
|---|---|---|
| `app_main` (ends after start-up) | `main.c`, `wifi_manager_start`, the `*_start` functions | status flags, retry counter, task handles |
| default event loop | `wifi_event_handler` | status flags, retry counter, event group, NVS (Wi-Fi keys), restart |
| SNTP task, one at a time, short-lived | `wifi_manager_sntp_task` | `time_synced`, event group, `s_sntp_sync_running` |
| `auth_oidc` task | `auth_oidc_task` | `s_jwks_json`, `auth_ready` |
| sensor task | `sensor_task_run` | `s_latest` |
| API server's task | `healthz_handler`, `latest_handler` | heap only |
| provisioning server's task (provisioning boots only) | `wifi_manager_custom_data_handler` | NVS (auth keys) |

They interact through mutex-protected records (`s_status`, `s_latest`, `s_jwks_json`), an event group, flags under spinlocks, the event loop's queue, NVS, and the system clock. FreeRTOS is preemptive and the chip has two cores, so any two threads interleave.

### Components, what they keep and what makes them correct

* **Wi-Fi station and time synchronisation** (`wifi_manager.c`). Keeps the event group, retry counter, SNTP lock and two status flags. `wifi_manager_start` waits for a connection, then for the clock, and falls back to provisioning. Correct if the flags follow the link and the clock, the retry budget is used exactly, at most one SNTP task runs and the lock is always given back, and every wait ends.
* **Provisioning and stored configuration** (`app_config.c`, the rest of `wifi_manager.c`). Keeps five NVS keys, the pending credentials and a completion flag. Correct if nothing that was acknowledged is lost but by an erasure at boot, the restart uses the credentials that worked, and nothing that can be stored stops a later boot.
* **OIDC refresh and verification** (`auth_oidc.c`). Keeps the JWKS on the heap under `s_auth_mutex`. Correct if no request reads a freed JWKS, nothing leaks, the gate `auth_ready` is honest, a token is accepted only if it is sound and is not refused for a race with a refresh, and nobody waits for the mutex for ever.
* **HTTP API** (`api_server.c`). Two handlers and a start-once function. Correct if the server comes up once and with both handlers or not at all, and a client gets the last poll's outcome and never an older reading.
* **Status flags** (`app_status.c`). Three Booleans under a mutex that the first caller creates. Correct if callers cannot tell it from a record with atomic operations.
* **Boot sequence** (`main.c`). Any error aborts, which reboots. Correct if a device comes up whatever is stored, as soon as what it needs can be had.
* **Sensor polling** (`sensor_task.c`). The latest reading or error, behind a mutex made like that of the status flags, and the same start-once function. Correct if there is one task, and no value an error has left behind is served.
* **SHT31 driver** (`sensor_sht31.c`). A lazily initialised bus and device, a CRC, two conversions. Correct if a failed initialisation can be repeated and no disturbed frame is taken.
* **JSON responses** (`json_util.c`). Formatting only.

### Hard behaviours

Races of several writers for one flag; a flag used as a lock that passes from thread to thread; a mutex that several tasks create at once; a timeout with a late answer; a retry budget that is shared by several purposes; pointers published across tasks; a server that is published after its last handler is registered; error paths after partial allocation or initialisation; two gates read at different moments; a crash between two NVS writes; validation in one place and an abort in another; full-length and empty values; boundaries of times, buffers and encodings. `PROJECT.json` lists each at its line, with the properties that cover it.

## Modules

| Module | Models | Composed with |
|---|---|---|
| `WifiManager` | one boot of the station and SNTP code | environment: driver, event queue, clock |
| `JwksCell` | abstract: a document that is replaced and copied at one moment each, and a gate over it | |
| `AuthOidc` | the refresh task and one HTTP task | implements `JwksCell`; environment: issuer, clients, `time_synced` |
| `AuthRequests` | `AuthOidc` with a history variable for what held during a request | extends `AuthOidc` |
| `Provisioning` | the device across reboots: `app_main`, the two provisioning tasks, NVS | environment: provisioning manager, crashes |
| `AtomicRecord` | abstract: a record whose calls are atomic | |
| `GuardedRecord` | a record behind a mutex its first caller creates (`app_status.c`, `s_latest`) | implements `AtomicRecord` |
| `Once` | abstract: services that are started at most once | |
| `StartOnce` | the start-once loop of three `*_start` functions, and what they start | implements `Once` |
| `Measurements` | the poller with its driver, `s_latest`, the handlers | extends `StartOnce`; environment: wires, clients |
| `HttpBody` | the response buffer of `auth_https_get_json` | environment: the HTTP client |
| `Claims`, `Sht31Data`, `TokenEncoding` | the claims decision, the CRC, base64url and the size of a DER key, as functions with a reference each | |
| `Inputs` | the four parts above with inputs of their own, one part per behaviour: any words, strings and claims, and bits of a frame that flip on the wires | extends the four; environment: wires |
| `*Proofs` | proofs about the module they are named for; `AuthRequestsProofs` builds on `AuthOidcProofs`, `MeasurementsProofs` on `StartOnceProofs` | |
| `MC*` | the instances TLC checks | |

The modules meet where one relies on another's result. `GuardedRecord` shows that a call of a status or record function is atomic, and `WifiManager`, `AuthOidc` and `Measurements` make it one step. `Sht31Data` shows that the CRC refuses every value with up to three wrong bits, and `Measurements`, in which a disturbance is one of these by assumption, refuses every garbled frame. `HttpBody` and `Claims` decide what `AuthOidc` takes as an outcome: a document that arrived, the claims of a token.

`PROJECT.json` maps each definition to the lines it models. Some definitions are not part of `Next`: they are variants of an operation with a plausible bug (a dropped guard, a missing reset), and stand directly before the operation. `PROJECT.json` pairs each with the property that notices it.

### WifiManager

Program counters `main`, `handler` and `sntp[t]` say where each thread is; the other variables carry the names of the code. A step is what one critical section, mutex, event-group call or driver call makes atomic. Each `app_status_set_*` call is one step, since it takes and gives its mutex and nothing else. `EspWifiConnect`, `EspWifiDown` and `EspWifiStart` are the driver: disconnecting or stopping an active station posts `STA_DISCONNECTED`, and connecting a stopped one does nothing. Provisioning attempts appear as `ProvisionerConnect`, because their events reach the same handler and share its budget. Waits may time out at any moment, which covers every timing.

### AuthOidc and AuthRequests

A JWKS document is the set of keys that `find_jwk_by_kid` can find in it, plus whether `auth_validate_jwks` accepts it: a document can be valid without a usable key. A token names a key, is genuine or not, and has the outcome of its claims. `live` counts the heap blocks that outlive one step: the two response buffers, the published JWKS, the header and the JWKS copy of a request. `free` and the assignment after it are separate steps, so `s_jwks_json` is `Dangling` in between. `tight` is fixed at the start and says whether any allocation may fail. `time_synced` changes at any time, as `wifi_manager.c` changes it. `JwksCell` sees one replacement there, at the `free`: nobody else can look before the assignment. `StartAuth` and `StartServer` are single steps, and `BeginRefresh` and `ValidateClaims` wait for the mutex to copy the configuration, which nobody changes after start.

### Provisioning

`nvs` is what `nvs_get_str` returns now, `flash` what a reboot is certain to find. A reboot keeps any subset of the uncommitted writes. An SSID or password is the network it belongs to; an issuer is one of five shapes: usable, ending in a slash, the bare scheme, not https, too long. `worn` devices may fail any NVS operation, and may have the partition erased by `app_config_init` when they boot. `acked`, `erased` and `provisioned` are history: the settings last answered "ok", whether `app_config_init` has erased those since, and the credentials that made provisioning succeed.
`main` is at one call of `app_main` after the other: "boot" (`app_config_init`, `app_config_load`, `wifi_manager_init_stack`), "station" and "offering" (the two branches of `wifi_manager_start`), "auth_start", "sensor_start", "api_start". Each may fail (`BootFails`, `StartFails`, on any device and at any boot) and then aborts, except the station's: any failure there falls back to provisioning. An abort reboots.

Three limits of its properties. `AckedAuthDurable` has an exception, which is the code's own: on `ESP_ERR_NVS_NO_FREE_PAGES` or `ESP_ERR_NVS_NEW_VERSION_FOUND` `app_config_init` erases the partition (`app_config.c:40`), acknowledged settings and credentials included; the property says that this takes all settings at once and that nothing else takes any. `BootSettles` assumes that from some time on no operation at boot fails for want of a resource or of readable NVS: while one does, the device reboots again and again, as the code intends. A crash ends what `RestartFindsCredentials` promises (`Crash` clears `provisioned`): a power loss between the two Wi-Fi writes may leave half a pair, which no boot can tell from a whole one, and it is `BootSettles` that says the device gets over it.

The provisioning manager reports the outcome of an attempt from the event loop after `CRED_RECV` was dispatched, and posts `END` once its server has stopped, hence after a running custom-data handler.

### GuardedRecord and AtomicRecord

A step is a critical section under the spinlock, a call of the semaphore library, or one field copied, since a structure assignment is not atomic. Semaphores are slots of a heap: `live` says which exist, and a slot that was freed may be handed out again, so a use after deletion would be seen. `Get` is the call that copies the whole record; any other call is the set of fields it writes. The refinement takes an update as performed once the mutex is taken and a read once its last field is copied. In `AtomicRecord` a call that began before the record was usable may be refused even after another call has made it usable: a task that found no mutex and then no memory returns `ESP_ERR_NO_MEM` without looking again (`app_status.c:17-24`).

### StartOnce, Once and Measurements

`sensor_task_start`, `api_server_start` and `auth_oidc_start` share one loop: look under a spinlock, claim or join or wait a tick, create, publish or give up. `StartOnce` has any number of callers and services, a service being a task or a server whose handlers are registered one by one; a failed registration stops the server. `Once` says that a call of a service ends with the service up or, if it is not, in an error. It speaks of calls that reach the loop: without an audience `auth_oidc_start` returns `ESP_OK` before it and starts nothing (`auth_oidc.c:982`), which `Provisioning` and `AuthOidc` model.

`Measurements` adds what the two services do. `poll[i]` says where the task in block `i` is; a poll is one step per driver call, each of which may fail. `port_used` is the I2C controller: creating a bus while one exists fails for ever, so forgetting the handle would be fatal. A frame is the time it was taken and which of its two values are disturbed, by up to three wrong bits each: that the CRC finds these is shown in `Sht31Data`, and that there are never more is an assumption, under which `AnswersLastPoll` promises undisturbed values. `last_poll` and `served` are history. A request is served by a server as soon as it has registered the handler, and holds up its stop.

### HttpBody, Claims, Sht31Data, TokenEncoding, Inputs

The body of `HttpBody` is a numbered sequence, so that a byte tells its place; the buffer starts as junk. `Claims` is the decision in the order of the code, with times in half seconds since claims are doubles; its reference says for which clocks within the skew a time counts as reached. A byte in `Sht31Data` is its set of bits and its reference is polynomial division; the loops of `sht31_crc8` are written out, since they turn eight times for each of two bytes. `TokenEncoding` decodes as `base64url_decode_alloc` does and has RFC 4648 as a reference; a character is its code.

## Runs

| Run | Instance | Shows |
|---|---|---|
| `wifi` | 2 retries, 2 SNTP control blocks | types, lock ownership, honest clock flag, `wifi_connected` follows the link, no early giving up; the boot ends and each synchronisation ends |
| `wifi_clock`, `wifi_giveup` | the same | findings 1, 2 |
| `auth` | 2 keys | types and mutual exclusion, heap ownership, honest gate, `JwksCell` is implemented (so nothing freed is copied), sound acceptance, no spurious refusal |
| `auth_live` | 1 key | every request is answered, the refresher returns to its sleep, and if refreshes succeed the API opens and stays open |
| `provisioning` | 2 protected networks, 1 crash, NVS good or worn | acknowledged settings are durable but for the erasure at boot, every stored issuer boots, the restart has the credentials that worked and uses them, boot settles once its operations stop failing |
| `guarded_record` | 3 tasks, 2 semaphores | no mutex leaks or is deleted in use, `AtomicRecord` is implemented, every call returns |
| `measurements` | 2 callers, a task and a server with 2 handlers, 3 control blocks, 1 failure of a creation or registration, any failures of the driver | each service comes up once and whole, `Once` is implemented, clients get the last poll's outcome and never an older reading, the sensor recovers once faults end |
| `inputs` | bodies of 0 to 6 bytes in buffers of 2 to 5, 32 words with up to 3 bit errors, up to 3 encoded bytes, claims at every boundary | bodies are whole or refused, errors are found, encodings are undone, claims decided as intended |
| `prov_open`, `prov_full`, `prov_worn` | 1 network, no crash | findings 3, 4, 5 |

### Why the bounds are enough

* Two retries let the budget be untouched, partly used, used up and refilled; nothing else depends on `MAX_RETRY`. Two control blocks are one more than the code ever uses, so a second task would show. The proofs hold for every value. The event queue needs no bound: a new event follows only a connection attempt.
* A request names one key. With two, that key can be withdrawn, replaced or kept while the other stays, which is all a request can tell. Liveness does not depend on which key a document has.
* With two networks a stored pair can mix two. One crash can fall between any two steps, and its recovery can combine with every later step; a second brings no new kind of stored state, since recovery starts from `flash` alone. Restarts at the end of provisioning and aborts are not bounded.
* Two tasks are enough to race for the first mutex, and with a third one uses it while the loser of the race deletes its own. Two semaphores let a creation fail as well as a second one exist. `s_latest` has five fields in the code; two show a torn copy.
* Two callers race for a service or start different ones. Three control blocks leave room for a second sensor task beside a server, which must not appear. `MaxFailures` of 1 lets a start fail at every point and another succeed after it; driver failures are not bounded. The clock stops at `MaxTime` = 1, which tells an older reading from a newer one. `StartService` begins no call for a service that is up, as it would return at once.
* The CRC is an affine function of the value, so that an error is found in every word if it is in one (`CheckedBySyndrome` proves it); single bits, runs from the lowest bit and the empty word are there to check the code's loop itself. Three bytes cover every length modulo 4 of an encoding. `TokenAlwaysDecoded` and `FrameAlwaysChecked` hold for every string and word. Capacities around the length of the body let each piece fit, just fit and overflow. `Skew` = 1 with times in half seconds places claims before, at, between and after the readings of the clock that matter.
* `Open` and `FullLength` are empty in the passing run because findings 3 and 4 are about exactly those networks.

`CHECK_DEADLOCK FALSE` everywhere: an idle device that waits for an event, or a request, has stopped lawfully, and so has an aborted one in a module of a single boot.

### Fairness

* `WifiManager`: weak fairness of each thread: its waits have timeouts, and FreeRTOS runs every ready task. `SntpExpire` is strongly fair, since the loop polls at most 30 times before its deadline. The driver and the clock owe nothing: no property relies on a connection.
* `AuthOidc`: strong fairness of both tasks, because a FreeRTOS mutex goes to a task that waits for it, and the lock is otherwise free again and again. HTTP transfers have a timeout of 10 s. New requests owe nothing.
* `Provisioning`: weak fairness of `app_main`, of the event loop, of a handler that has begun and of the manager's end of an attempt and of its service. Clients, networks, crashes and the heap owe nothing; `BootSettles` assumes that the failures of `app_main`'s calls end (`<>[][~BootFails /\ ~StartFails]_vars`), and `MaxCrashes` that crashes do. Neither is fairness of the code: without them a device may reboot for ever.
* `GuardedRecord`: strong fairness of every task inside a call, for the same reason as in `AuthOidc`; nobody has to call.
* `StartOnce`, `Measurements`: weak fairness of a caller inside a call, of each sensor task and of a handler that has to send. A waiting caller looks at every tick, a driver call has a timeout. Callers, clients and wires owe nothing; `SensorRecovers` assumes that disturbances end. That memory is short only for a while (`MaxFailures`) keeps a waiting caller from finding, at each of its looks, another call that has claimed the start and will fail.

## Proofs

All are checked by TLAPS, for every value of the constants and with no assumption but those named in the modules: `MaxRetryAssumption`, `PointerAssumption` (null and dangling pointers are not documents), `UnsetAssumption` and `NameAssumption` (an unset, empty or cut-off value is none of the values), `RecordAssumption` and `StartAssumption` (types, and distinct nulls), `MeasureAssumption` (two services, of which the task registers no handler), `BodyAssumption` (buffers of at least two bytes), `ClaimsAssumption` (a missing claim is not a number), `InputsAssumption` (words of 16 bits, strings of bytes, claims as a parser finds them: a name that has both the prefix and the suffix shares at most one character between the two).

* `WifiManagerProofs`. `TypeCorrect` needs no strengthening. `SyncOwnership` is inductive with it: the claim requires the flag to be clear, hence nobody runs; the creation moves ownership to one task; each release ends the only owner. `SyncedClock` needs `VerdictSound`: between reading the clock and writing the flag, a task holds its verdict in its program counter. `StatusFollowsLink` needs `LinkInv`, which says how far the event loop is behind the driver: the last event in the queue is `GOT_IP` exactly if the link is up, so that the flag is right once the queue is empty; a `STA_START` never follows a `GOT_IP`, so taking one off leaves the flag right; and app_main's thread clears the flag only of a link that is down or that it disconnects next. `NeverAbandonedEarly` adds `AttemptPending`: an idle station has an event in the queue or in the handler, or has used its attempts.
* `AuthOidcProofs`. One inductive invariant `AuthInv` conjoins the properties with `RefreshShape` (which buffers exist at which step, that the document to be published is valid, that the dangling pointer exists only inside the critical section, how `err` and the gate agree) and `RequestShape` (what a request holds, and that the critical sections exclude each other). One lemma per conjunct has one step per action. From it follow `AuthTypeCorrect`, `HeapSafe`, `NoUseAfterFree`, `GateHasJwks` and `GateIsHonest`, and the refinement `JwksIsAtomic`: `CellChanges` says what the three steps of the refresher and the copy of a request do to the cell, every other step closes the gate, drops a copy or changes nothing.
* `AuthRequestsProofs`. `SoundAcceptance`: `ChecksPassed` records which checks a request has passed at each step; `ObserveEffect` shows that the history never forgets within a request; `QuietStep` covers the other actors and `ServedStep` each step of the request. `GoodTokensPass`, the converse: `StillGood` says of a token that is good so far that each check it has met has let it pass, in particular that its copy of the JWKS has its key.
* `GuardedRecordProofs`. `RecordInv` adds to `MutexesOwned` that only the published mutex is ever held, that a semaphore is in hand just between its creation and its publication or deletion, and how far an access is. With it, `RecordIsAtomic` maps the initial states and each step: creating and deleting semaphores and all but the last field of a read are stutters, taking the mutex performs an update.
* `StartOnceProofs`. `StartInv`: the flag is a lock (`ClaimExclusive`), its holder holds a running instance of what it starts, no instance lacks an owner. From it `StartedOnce`, `PublishedWhole` and, by `InitRefines` and `NextRefines`, the refinement `StartsOnce`.
* `MeasurementsProofs`. A step of `Measurements` is a step of `StartOnce` or leaves it alone, hence `StartInv` holds, and there is one sensor task at most. `MeasureInv` adds that a sensor task has a mutex for its record, how the record agrees with the last poll, and that what is in hand, stored and served is in the order of time; the second and third need the single task. From it `MeasureTypeCorrect`, `LastPollAnswered`, `LastPollShown` and `ReadingsInOrder`; and `StartedOnceInUse` and `StartsOnceInUse`, which carry the theorems of `StartOnceProofs` over to services in use.
* `ProvisioningProofs`. `ProvInv`: what the provisioning manager's progress says about the events still queued (`ManagerShape`), which the event loop relies on (`LoopShape`); that nobody writes settings after acknowledging them, and that an erasure leaves none (`AckedStored`); that issuers are checked before they are written (`IssuersChecked`); that the manager tries the credentials the loop will save (`CandidatePending`); and how far those that succeeded are on their way to the flash (`ProvisionedStored`). From it `ProvisioningTypeCorrect`, `AckedSurvives` (with the erasure by `app_config_init` as its exception), `StoredIssuersBoot` and `RestartHasCredentials`, for any networks and number of crashes. `BootChoice` adds what the code makes of the credentials in the flash, and `ExactlyRestorableReconnect` says for which networks a boot that does not abort uses them: those with a password, of which neither name nor password fills the driver's field. `BootReconnects` is `BootUsesCredentials` under the two conditions that findings 3 and 4 violate.
* `InputsProofs`. `BodyAlwaysWhole` for any sizes and pieces; `ClaimsAlwaysDecided` for any skew, times, audiences and role claims; `DerFits` for any key, which no run states. Two results about the pure functions hold for every input:
  * `FrameAlwaysChecked`. `StepReduces` shows that a turn of the loop in `sht31_crc8` is a step of long division, so that `CrcIsRemainder`: the code computes the CRC of the data sheet. `StepLinear`, `ByteLinear` and `SyndromeLinear` show that wrong bits change the check in the same way whatever the value, so that only the 24 remainders of single bits matter (`Column`). Each has an odd number of bits and no two are equal, hence no one, two or three of them cancel.
  * `TokenAlwaysDecoded`. `EncodedLengths` follows the lengths through padding by the remainder modulo 3, `PaddedDigit` and `PaddedGroup` show that each group of four characters has the 24 bits of its three bytes (characters left out were zero), `ByteBack` takes the bytes out again. `CutNotDecoded` is an argument about lengths, `ForeignRefused` one about the alphabet. A byte depends on its group only, so that no induction is needed.

  `InputsInv` joins these to the runs' specification: `BodyWholeAmongInputs`, `FramesAlwaysChecked`, `TokensAlwaysDecoded` and `AllAlwaysDecided`.

Only model-checked: the liveness properties (`BootSettles`, `SyncEnds`, `RequestAnswered`, `RefreshRecurs`, `RecoversAndStaysReady`, `CallsReturn`, `SensorRecovers`) and the fairness they need, which are out of TLAPS's reach. Every invariant, action property and refinement of a passing run is proved. `ImplementsAtomicRecord`, `ImplementsOnce` and `ImplementsJwksCell` have no fairness and are proved whole.

## Findings

1. `wifi_clock`: after a 30 s SNTP timeout the clock may be set later, and `time_synced` stays false until the next address (`wifi_manager.c:394`).
2. `wifi_giveup`: retries used up after the first wait leave a serving device without network for ever; README line 396 says it returns to provisioning (`wifi_manager.c:260`).
3. `prov_open`: provisioning with an open network succeeds, and the next boot provisions again (`app_config.c:152`).
4. `prov_full`: a 32-byte SSID or a 64-byte password is truncated at every boot (`wifi_manager.c:408`).
5. `prov_worn`: a failed save is followed by the restart all the same (`wifi_manager.c:208`).

## Not modelled

* `json_util.c`, logging and formatting: output without state. Example client, tests and build files: no behaviour of the device. The tests served as a source of expectations.
* JSON and JWT parsing (cJSON), ASN.1 and RSA (mbedTLS): library code, present as an outcome. A parser that accepts or refuses a document differently in `auth_validate_jwks` and in `find_jwk_by_kid` is covered, as a document may be valid without a usable key.
* TLS, redirects and HTTP statuses: one success or failure of a transfer; the body and its buffer are in `HttpBody`.
* The conversions of a raw value to a float: one expression each, over the full range of 16 bits without overflow.
* `healthz_handler` also copies the three status flags, one atomic call of `GuardedRecord`; nothing relates that moment to the reading's.
* `wifi_manager_init_stack` and the creation of the event group are one step that succeeds or fails, since they run before any other thread exists.

## What remains

The liveness properties stay with TLC. Two components have properties but no abstract specification yet: the settings in NVS, which could be shown to implement a store with atomic, durable requests (what `AckedAuthDurable` and `StoredIssuerBootable` say of it), and the clock synchronisation of `WifiManager` (a lock with a verdict). A larger instance of `provisioning` with a second crash would only add time. If the firmware comes to restart services, or to refresh the configuration at run time, `StartOnce` and `AuthOidc` are where that would enter: both now rely on it never happening.
