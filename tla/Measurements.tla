---------------------------- MODULE Measurements ----------------------------
(***************************************************************************)
(* From the sensor to the HTTP client: the sensor task and the API server  *)
(* that StartOnce starts, the poll with its I2C driver                     *)
(* (main/sensor_task.c, main/sensor_sht31.c), and the two handlers of      *)
(* main/api_server.c that read s_latest.  Storing and getting the record   *)
(* are single steps, which GuardedRecord shows them to be.  Whether a      *)
(* client may ask is the matter of AuthOidc: here it may.  On the wires a  *)
(* value and its CRC suffer at most three wrong bits.                      *)
(*                                                                         *)
(* Time passes where the poller sleeps, and is the number of polls begun.  *)
(***************************************************************************)
EXTENDS StartOnce

CONSTANTS
  Sensor, Server,   \* two services
  MaxTime           \* bound: the clock stops here

ASSUME MeasureAssumption ==
  /\ {Sensor, Server} \subseteq Services /\ Sensor # Server
  /\ Registrations[Sensor] = 0
  /\ MaxTime \in Nat

VARIABLES
  latest_usable,  \* s_latest_mutex has been created
  s_latest,       \* valid, last_error, when it was measured, and which
                  \* values of it are not what the sensor measured
  s_i2c_bus,      \* whether it is set
  s_sht31_dev,    \* whether it is set
  port_used,      \* the I2C controller belongs to a bus object
  now,            \* esp_timer_get_time
  poll,           \* where each sensor task is
  result,         \* the error of its poll
  frame,          \* the measurement it has read
  last_poll,      \* history: how the last poll ended
  request,        \* whether the server's task is busy
  answer,         \* what it will answer
  served          \* history: the time of the last reading served

sensorVars  == <<s_i2c_bus, s_sht31_dev, port_used, poll, result, frame>>
recordVars  == <<latest_usable, s_latest, last_poll>>
httpVars    == <<request, answer, served>>
measureVars == <<startVars, sensorVars, recordVars, httpVars, now>>

Errors == {"OK", "IO", "CRC", "NO_MEM", "INVALID_STATE"}
Halves == {"temperature", "humidity"}
Time   == 0..MaxTime
Frames == [at : Time, garbled : SUBSET Halves]

NoFrame  == [at |-> 0, garbled |-> {}]
NoAnswer == [kind |-> "none"]

MeasureInit ==
  /\ Init
  /\ latest_usable = FALSE
  /\ s_latest = [valid |-> FALSE, last_error |-> "OK", frame |-> NoFrame]
  /\ s_i2c_bus = FALSE /\ s_sht31_dev = FALSE /\ port_used = FALSE
  /\ now = 0
  /\ poll = [i \in Instances |-> "boot"]
  /\ result = [i \in Instances |-> "OK"]
  /\ frame = [i \in Instances |-> NoFrame]
  /\ last_poll = [error |-> "INVALID_STATE", frame |-> NoFrame]
  /\ request = "none" /\ answer = NoAnswer /\ served = 0

----------------------------------------------------------------------------
(* Starting.  sensor_task_start sees to the mutex of s_latest first, and   *)
(* returns at once without memory for it; httpd_stop waits for a handler   *)
(* that runs.  Bound: no call begins once the service is up, as it would   *)
(* return at once and change nothing.                                      *)
StartService(c, s) ==
  /\ s_handle[s] = Null
  /\ Call(c, s)
  /\ latest_usable' = (latest_usable \/ s = Sensor)
  /\ UNCHANGED <<sensorVars, s_latest, last_poll, httpVars, now>>

StartStep(c) ==
  /\ pc[c] = "stop" => request = "none"
  /\ Step(c)
  /\ UNCHANGED <<sensorVars, recordVars, httpVars, now>>

----------------------------------------------------------------------------
(* The sensor task.  It calls sht31_init once before its loop ("boot") and *)
(* again in every sht31_read ("init").                                     *)
PollGoes(i, from, to) ==
  /\ runs[i] = Sensor
  /\ poll[i] = from
  /\ poll' = [poll EXCEPT ![i] = to]

AfterInit(i) ==
  PollGoes(i, "boot", "init") \/ PollGoes(i, "init", "transmit")

Initialising(i) == runs[i] = Sensor /\ poll[i] \in {"boot", "init"}

HasDevice(i) ==
  /\ s_sht31_dev
  /\ AfterInit(i)
  /\ UNCHANGED <<s_i2c_bus, s_sht31_dev, port_used, result, frame>>

ForgetBus(i) ==
  /\ Initialising(i) /\ ~s_sht31_dev /\ ~port_used
  /\ port_used' = TRUE
  /\ UNCHANGED <<s_i2c_bus, s_sht31_dev, poll, result, frame>>

CreateBus(i) ==
  /\ Initialising(i) /\ ~s_sht31_dev /\ ~s_i2c_bus /\ ~port_used
  /\ s_i2c_bus' = TRUE /\ port_used' = TRUE
  /\ UNCHANGED <<s_sht31_dev, poll, result, frame>>

AddDevice(i) ==
  /\ ~s_sht31_dev /\ s_i2c_bus
  /\ s_sht31_dev' = TRUE
  /\ AfterInit(i)
  /\ UNCHANGED <<s_i2c_bus, port_used, result, frame>>

Transmit(i) ==
  /\ PollGoes(i, "transmit", "receive")
  /\ UNCHANGED <<s_i2c_bus, s_sht31_dev, port_used, result, frame>>

(* Both CRCs must be right.  The CRC is certain to find up to three wrong  *)
(* bits (Sht31Data); by assumption there are no more.  Of worse garbling   *)
(* it misses some, which nothing after it could tell from a measurement.   *)
Accepts(garbled) == garbled = {}

Receive(i) ==
  /\ PollGoes(i, "receive", "store")
  /\ \E garbled \in SUBSET Halves :
       /\ result' = [result EXCEPT ![i] = IF Accepts(garbled) THEN "OK" ELSE "CRC"]
       /\ frame' = [frame EXCEPT ![i] = IF Accepts(garbled)
                                        THEN [at |-> now, garbled |-> garbled] ELSE NoFrame]
  /\ UNCHANGED <<s_i2c_bus, s_sht31_dev, port_used>>

(* Any call of the driver may fail; while another bus object owns the I2C  *)
(* controller, to create one always does.                                  *)
PortTaken == ~s_i2c_bus /\ port_used

I2cFails(i) ==
  /\ \/ Initialising(i) /\ ~s_sht31_dev
     \/ runs[i] = Sensor /\ poll[i] \in {"transmit", "receive"}
  /\ poll' = [poll EXCEPT ![i] = IF @ = "boot" THEN "boot_store" ELSE "store"]
  /\ result' = [result EXCEPT ![i] = "IO"]
  /\ frame' = [frame EXCEPT ![i] = NoFrame]
  /\ UNCHANGED <<s_i2c_bus, s_sht31_dev, port_used>>

AfterStore(i) ==
  /\ PollGoes(i, "boot_store", "init") \/ PollGoes(i, "store", "delay")
  /\ last_poll' = [error |-> result[i], frame |-> frame[i]]
  /\ frame' = [frame EXCEPT ![i] = NoFrame]
  /\ result' = [result EXCEPT ![i] = "OK"]
  /\ UNCHANGED <<s_i2c_bus, s_sht31_dev, port_used, latest_usable>>

StoreReading(i) ==
  /\ result[i] = "OK"
  /\ s_latest' = [valid |-> TRUE, last_error |-> "OK", frame |-> frame[i]]
  /\ AfterStore(i)

StoreErrorOnly(i) ==
  /\ result[i] # "OK"
  /\ s_latest' = [s_latest EXCEPT !.last_error = result[i]]
  /\ AfterStore(i)

StoreError(i) ==
  /\ result[i] # "OK"
  /\ s_latest' = [s_latest EXCEPT !.valid = FALSE, !.last_error = result[i]]
  /\ AfterStore(i)

Sleep(i) ==
  /\ PollGoes(i, "delay", "init")
  /\ now' = IF now < MaxTime THEN now + 1 ELSE now
  /\ UNCHANGED <<s_i2c_bus, s_sht31_dev, port_used, result, frame>>

PollStep(i) ==
  /\ \/ /\ \/ HasDevice(i) \/ CreateBus(i) \/ AddDevice(i) \/ Transmit(i)
           \/ Receive(i) \/ I2cFails(i)
        /\ UNCHANGED <<recordVars, now>>
     \/ (StoreReading(i) \/ StoreError(i)) /\ UNCHANGED now
     \/ Sleep(i) /\ UNCHANGED recordVars
  /\ UNCHANGED <<startVars, httpVars>>

----------------------------------------------------------------------------
(* The handlers.  A server that is still registering them serves those it  *)
(* has: healthz is the first.  One that is to stop takes no new request.   *)
Serves(handler) ==
  \E i \in Instances :
    /\ runs[i] = Server
    /\ handlers[i] >= (IF handler = "healthz" THEN 1 ELSE 2)
    /\ ~\E c \in Callers : instance[c] = i /\ pc[c] = "stop"

(* sensor_latest_get gives an error and a copy; the copy stays zeroed when *)
(* there is no memory for the mutex.                                       *)
Got == [error |-> IF s_latest.valid THEN "OK" ELSE "INVALID_STATE", latest |-> s_latest]

NotGot == [error |-> "NO_MEM",
           latest |-> [valid |-> FALSE, last_error |-> "OK", frame |-> NoFrame]]

GetLatest(got) ==
  /\ request = "none" /\ request' = "sending"
  /\ \/ got = NotGot /\ ~latest_usable /\ UNCHANGED latest_usable
     \/ got = Got /\ latest_usable' = TRUE
  /\ UNCHANGED <<served, s_latest, last_poll>>

ReturnedError(got) == got.error

ShownError(got) ==
  IF got.error # "OK" /\ got.latest.last_error = "OK"
  THEN got.error ELSE got.latest.last_error

HealthAnswer(got) == [kind |-> "health", valid |-> got.error = "OK", error |-> ShownError(got)]

LatestAnswer(got) ==
  IF got.error = "OK" THEN [kind |-> "reading", frame |-> got.latest.frame]
                      ELSE [kind |-> "unavailable"]

Healthz ==
  /\ Serves("healthz")
  /\ \E got \in {Got, NotGot} : GetLatest(got) /\ answer' = HealthAnswer(got)

Latest ==
  /\ Serves("latest")
  /\ \E got \in {Got, NotGot} : GetLatest(got) /\ answer' = LatestAnswer(got)

Send ==
  /\ request = "sending" /\ request' = "none"
  /\ served' = IF answer.kind = "reading" THEN answer.frame.at ELSE served
  /\ answer' = NoAnswer
  /\ UNCHANGED recordVars

Respond == Send /\ UNCHANGED <<startVars, sensorVars, now>>

Request == (Healthz \/ Latest) /\ UNCHANGED <<startVars, sensorVars, now>>

MeasureNext ==
  \/ \E c \in Callers : StartStep(c) \/ \E s \in {Sensor, Server} : StartService(c, s)
  \/ \E i \in Instances : PollStep(i)
  \/ Request \/ Respond

(* FreeRTOS runs every task, and every driver call has a timeout.  Nothing *)
(* is owed by callers, clients or the wires.                               *)
MeasureFairness ==
  /\ \A c \in Callers : WF_measureVars(StartStep(c))
  /\ \A i \in Instances : WF_measureVars(PollStep(i))
  /\ WF_measureVars(Respond)

MeasureSpec == MeasureInit /\ [][MeasureNext]_measureVars /\ MeasureFairness

----------------------------------------------------------------------------
(* Properties.                                                             *)

(* Every variable keeps its type; a sensor task always has a mutex for the *)
(* record; the driver knows of its bus exactly when there is one, however  *)
(* often the device could not be added to it.                              *)
MeasureTypeOK ==
  /\ TypeOK
  /\ latest_usable \in BOOLEAN
  /\ s_latest \in [valid : BOOLEAN, last_error : Errors, frame : Frames]
  /\ s_i2c_bus \in BOOLEAN /\ s_sht31_dev \in BOOLEAN /\ port_used \in BOOLEAN
  /\ now \in Time /\ served \in Time
  /\ poll \in [Instances -> {"boot", "boot_store", "init", "transmit", "receive", "store", "delay"}]
  /\ result \in [Instances -> Errors]
  /\ frame \in [Instances -> Frames]
  /\ last_poll \in [error : Errors, frame : Frames]
  /\ request \in {"none", "sending"}
  /\ answer.kind \in {"none", "health", "reading", "unavailable"}
  /\ (\E i \in Instances : runs[i] = Sensor) => latest_usable
  /\ s_i2c_bus = port_used /\ (s_sht31_dev => s_i2c_bus)

(* A client gets the last poll's reading as the sensor measured it, or is  *)
(* told that there is none: never the values an error has left in the      *)
(* record, nor, with up to three wrong bits, half of a disturbed frame.    *)
AnswersLastPoll ==
  [][ Latest =>
        answer' = IF last_poll.error = "OK"
                  THEN [kind |-> "reading", frame |-> [at |-> last_poll.frame.at, garbled |-> {}]]
                  ELSE [kind |-> "unavailable"] ]_measureVars

(* healthz says "valid" and ESP_OK together, and else the error of the     *)
(* last poll; only before the first poll it says why it cannot tell.       *)
HealthTellsLastPoll ==
  [][ Healthz =>
        /\ answer'.valid = (answer'.error = "OK")
        /\ \/ answer'.error = last_poll.error
           \/ answer'.error = "NO_MEM" /\ ~latest_usable ]_measureVars

(* A client that has seen a reading never gets an older one.               *)
NeverBackwards == [][served' >= served]_measureVars

(* If faults come to an end, a started sensor has a valid reading for good *)
(* however its initialisation failed before.                               *)
Disturbed(i) == (I2cFails(i) /\ ~PortTaken) \/ (Receive(i) /\ result'[i] = "CRC")

SensorRecovers ==
  /\ <>[][\A i \in Instances : ~Disturbed(i)]_measureVars
  /\ <>(s_handle[Sensor] # Null)
  => <>[](s_latest.valid)
=============================================================================
