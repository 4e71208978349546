------------------------- MODULE MeasurementsProofs -------------------------
(***************************************************************************)
(* For any callers, instances and failures: what the API answers is what   *)
(* the last poll found.  One sensor task polls, because StartOnce starts   *)
(* one; so its readings are stored in the order it takes them.             *)
(***************************************************************************)
EXTENDS Measurements, StartOnceProofs

(* A sensor task has no handlers, so that it is never stopped.             *)
SensorStays ==
  /\ \A i \in Instances : runs[i] = Sensor => handlers[i] = 0
  /\ \A c \in Callers : pc[c] = "stop" => wanted[c] # Sensor

(* Nobody starts a sensor task before its record has a mutex.              *)
RecordUsable ==
  /\ \A c \in Callers : wanted[c] = Sensor => latest_usable
  /\ \A i \in Instances : runs[i] = Sensor => latest_usable
  /\ s_latest.valid => latest_usable

(* A block that is not a sensor task has not polled; a task that has       *)
(* failed to initialise has an error to store; what it has read is whole.  *)
PollShape ==
  \A i \in Instances :
    /\ runs[i] # Sensor => poll[i] = "boot" /\ result[i] = "OK" /\ frame[i] = NoFrame
    /\ poll[i] = "boot_store" => result[i] # "OK"
    /\ frame[i].garbled = {}

DriverShape == s_i2c_bus = port_used /\ (s_sht31_dev => s_i2c_bus)

(* The record tells how the last poll ended.                               *)
RecordAgrees ==
  /\ last_poll.frame.garbled = {}
  /\ s_latest.valid =>
       last_poll.error = "OK" /\ s_latest.last_error = "OK" /\ s_latest.frame = last_poll.frame
  /\ ~s_latest.valid =>
       /\ last_poll.error # "OK"
       /\ \/ s_latest.last_error = last_poll.error
          \/ s_latest.last_error = "OK" /\ last_poll.error = "INVALID_STATE"

(* Readings are stored and served in the order they were taken.            *)
InOrder ==
  /\ served <= s_latest.frame.at /\ s_latest.frame.at <= now
  /\ answer.kind = "reading" => served <= answer.frame.at /\ answer.frame.at <= s_latest.frame.at
  /\ \A i \in Instances :
       poll[i] = "store" /\ result[i] = "OK" => s_latest.frame.at <= frame[i].at /\ frame[i].at <= now

(* The flags and the answers are typed apart from the rest.                *)
MeasureFlagTypes ==
  latest_usable \in BOOLEAN /\ s_i2c_bus \in BOOLEAN /\ s_sht31_dev \in BOOLEAN /\ port_used \in BOOLEAN

Latests == [valid : BOOLEAN, last_error : Errors, frame : Frames]

MeasureDataTypes ==
  /\ s_latest \in Latests
  /\ now \in Time /\ served \in Time
  /\ poll \in [Instances -> {"boot", "boot_store", "init", "transmit", "receive", "store", "delay"}]
  /\ result \in [Instances -> Errors]
  /\ frame \in [Instances -> Frames]
  /\ last_poll \in [error : Errors, frame : Frames]
  /\ request \in {"none", "sending"}
  /\ answer.kind \in {"none", "health", "reading", "unavailable"}
  /\ answer.kind = "reading" => answer.frame \in Frames

MeasureInv ==
  /\ StartInv /\ SensorStays /\ MeasureFlagTypes /\ MeasureDataTypes
  /\ RecordUsable /\ PollShape /\ DriverShape /\ RecordAgrees /\ InOrder

----------------------------------------------------------------------------
LEMMA StartsAlong == MeasureNext => [Next]_startVars
BY MeasureAssumption DEF MeasureNext, StartStep, StartService, PollStep, Request, Respond, Next

LEMMA InitMeasureInv == MeasureInit => MeasureInv
<1> SUFFICES ASSUME MeasureInit PROVE MeasureInv
  OBVIOUS
<1>1. StartInv
  BY InitStartInv DEF MeasureInit
<1>2. SensorStays /\ RecordUsable
  BY StartAssumption, MeasureAssumption DEF MeasureInit, Init, SensorStays, RecordUsable
<1>3. MeasureFlagTypes
  BY Zenon DEF MeasureInit, MeasureFlagTypes
<1>4. MeasureDataTypes
  <2>1. 0 \in Time
    BY MeasureAssumption DEF Time
  <2>2. NoFrame \in Frames
    BY <2>1 DEF NoFrame, Frames
  <2>3. s_latest \in Latests
    BY <2>2 DEF MeasureInit, Latests, Errors
  <2> QED
    BY <2>1, <2>2, <2>3 DEF MeasureInit, MeasureDataTypes, Errors, NoAnswer
<1>5. PollShape /\ DriverShape
  BY DEF MeasureInit, PollShape, DriverShape, NoFrame
<1>6. RecordAgrees /\ InOrder
  BY DEF MeasureInit, RecordAgrees, InOrder, NoFrame, NoAnswer
<1> QED
  BY <1>1, <1>2, <1>3, <1>4, <1>5, <1>6 DEF MeasureInv

(* A step of a start leaves a sensor task one, and makes one only for who  *)
(* asks for it.                                                            *)
LEMMA SensorKept ==
  ASSUME StartInv, SensorStays, NEW c \in Callers, Step(c)
  PROVE  /\ SensorStays'
         /\ \A i \in Instances : runs[i] = Sensor => runs'[i] = Sensor
         /\ \A i \in Instances : runs'[i] = Sensor => runs[i] = Sensor \/ wanted[c] = Sensor
         /\ \A d \in Callers : wanted'[d] = Sensor => wanted[d] = Sensor
<1> USE StartAssumption, MeasureAssumption
        DEF StartInv, TypeOK, SensorStays, Goes, Claiming, Holding, HoldsInstance
<1>1. CASE Join(c) \/ Claim(c) \/ CreateFails(c) \/ GiveUp(c)
  BY <1>1 DEF Join, Claim, CreateFails, GiveUp
<1>2. CASE Create(c)
  <2> PICK i \in Instances : /\ runs[i] = Null
                             /\ runs' = [runs EXCEPT ![i] = wanted[c]]
                             /\ handlers' = [handlers EXCEPT ![i] = 0]
    BY <1>2 DEF Create
  <2> QED
    BY <1>2 DEF Create
<1>3. CASE Register(c)
  BY <1>3 DEF Register, Registered, callers
<1>4. CASE RegisterFails(c)
  BY <1>4 DEF RegisterFails, Registered
<1>5. CASE Stop(c)
  BY <1>5 DEF Stop
<1>6. CASE Publish(c)
  BY <1>6 DEF Publish
<1>7. CASE Return(c)
  BY <1>7 DEF Return
<1> QED
  BY <1>1, <1>2, <1>3, <1>4, <1>5, <1>6, <1>7 DEF Step

LEMMA StartSide ==
  ASSUME MeasureInv, NEW c \in Callers,
         StartStep(c) \/ \E s \in {Sensor, Server} : StartService(c, s)
  PROVE  MeasureInv'
<1> USE DEF MeasureInv
<1>1. StartInv'
  BY StartsAlong, StartInvStep DEF MeasureNext
<1>2. CASE StartStep(c)
  <2>1. Step(c) /\ UNCHANGED <<sensorVars, recordVars, httpVars, now>>
    BY <1>2 DEF StartStep
  <2>2. SensorStays' /\ RecordUsable' /\ PollShape'
    BY <2>1, SensorKept DEF RecordUsable, PollShape, sensorVars, recordVars
  <2>3. MeasureFlagTypes' /\ DriverShape'
    BY <2>1 DEF MeasureFlagTypes, DriverShape, sensorVars, recordVars
  <2>4. MeasureDataTypes'
    BY <2>1 DEF MeasureDataTypes, sensorVars, recordVars, httpVars
  <2>5. RecordAgrees' /\ InOrder'
    BY <2>1 DEF RecordAgrees, InOrder, sensorVars, recordVars, httpVars
  <2> QED
    BY <1>1, <2>2, <2>3, <2>4, <2>5
<1>3. ASSUME NEW s \in {Sensor, Server}, StartService(c, s) PROVE MeasureInv'
  <2> USE <1>3
  <2>1. /\ Call(c, s) /\ latest_usable' = (latest_usable \/ s = Sensor)
        /\ UNCHANGED <<sensorVars, s_latest, last_poll, httpVars, now>>
    BY DEF StartService
  <2>2. SensorStays'
    BY <2>1 DEF StartInv, TypeOK, SensorStays, Call, Goes
  <2>3. RecordUsable'
    BY <2>1 DEF StartInv, TypeOK, RecordUsable, Call
  <2>4. PollShape' /\ DriverShape'
    BY <2>1 DEF PollShape, DriverShape, sensorVars, Call
  <2>5. latest_usable' \in BOOLEAN
    BY <2>1, Zenon DEF MeasureFlagTypes
  <2>6. MeasureFlagTypes'
    BY <2>1, <2>5 DEF MeasureFlagTypes, sensorVars
  <2>7. MeasureDataTypes'
    BY <2>1 DEF MeasureDataTypes, sensorVars, httpVars
  <2>8. RecordAgrees' /\ InOrder'
    BY <2>1 DEF RecordAgrees, InOrder, sensorVars, httpVars
  <2> QED
    BY <1>1, <2>2, <2>3, <2>4, <2>6, <2>7, <2>8
<1> QED
  BY <1>2, <1>3

----------------------------------------------------------------------------
(* What is left alone by a step within the driver.                         *)
LEMMA DriverSide ==
  ASSUME MeasureInv, NEW i \in Instances, UNCHANGED <<startVars, httpVars, recordVars, now>>,
         HasDevice(i) \/ CreateBus(i) \/ AddDevice(i) \/ Transmit(i) \/ Receive(i) \/ I2cFails(i)
  PROVE  MeasureInv'
<1> USE DEF MeasureInv, startVars, callers, httpVars, recordVars, PollGoes, AfterInit, Initialising
<1>1. StartInv' /\ SensorStays' /\ RecordUsable' /\ RecordAgrees'
  <2>1. StartInv'
    BY StartInvStep
  <2> QED
    BY <2>1 DEF SensorStays, RecordUsable, RecordAgrees
<1>2. MeasureFlagTypes' /\ DriverShape'
  <2>1. DriverShape'
    <3>1. CASE UNCHANGED <<s_i2c_bus, s_sht31_dev, port_used>>
      BY <3>1, Zenon DEF DriverShape
    <3>2. CASE CreateBus(i)
      BY <3>2, Zenon DEF CreateBus, DriverShape
    <3>3. CASE AddDevice(i)
      BY <3>3, Zenon DEF AddDevice, DriverShape
    <3> QED
      BY <3>1, <3>2, <3>3, Zenon DEF HasDevice, Transmit, Receive, I2cFails
  <2>2. s_i2c_bus' \in BOOLEAN /\ s_sht31_dev' \in BOOLEAN /\ port_used' \in BOOLEAN
    BY Zenon DEF HasDevice, CreateBus, AddDevice, Transmit, Receive, I2cFails, MeasureFlagTypes
  <2> QED
    BY <2>1, <2>2 DEF MeasureFlagTypes
<1>3. CASE HasDevice(i) \/ CreateBus(i) \/ AddDevice(i) \/ Transmit(i)
  <2>1. /\ poll' = poll \/ \E to \in {"init", "transmit", "receive"} : poll' = [poll EXCEPT ![i] = to]
        /\ runs[i] = Sensor /\ UNCHANGED <<result, frame>>
    BY <1>3 DEF HasDevice, CreateBus, AddDevice, Transmit
  <2>2. MeasureDataTypes'
    BY <2>1 DEF MeasureDataTypes
  <2>3. PollShape' /\ InOrder'
    BY <2>1 DEF MeasureDataTypes, PollShape, InOrder
  <2> QED
    BY <1>1, <1>2, <2>2, <2>3
<1>4. CASE Receive(i)
  <2>1. /\ poll' = [poll EXCEPT ![i] = "store"] /\ runs[i] = Sensor
        /\ \/ /\ result' = [result EXCEPT ![i] = "OK"]
              /\ frame' = [frame EXCEPT ![i] = [at |-> now, garbled |-> {}]]
           \/ result' = [result EXCEPT ![i] = "CRC"] /\ frame' = [frame EXCEPT ![i] = NoFrame]
    BY <1>4 DEF Receive, Accepts
  <2>2. [at |-> now, garbled |-> {}] \in Frames /\ NoFrame \in Frames
    BY MeasureAssumption DEF MeasureDataTypes, Frames, NoFrame, Time
  <2>3. MeasureDataTypes'
    BY <2>1, <2>2 DEF MeasureDataTypes, Errors
  <2>4. PollShape'
    <3>1. poll'[i] = "store" /\ frame'[i].garbled = {}
      BY <2>1 DEF MeasureDataTypes, NoFrame
    <3>2. \A j \in Instances \ {i} : UNCHANGED <<poll[j], result[j], frame[j]>>
      BY <2>1 DEF MeasureDataTypes
    <3> QED
      BY <2>1, <3>1, <3>2 DEF PollShape
  <2>5. InOrder'
    BY <2>1 DEF MeasureDataTypes, InOrder, Time
  <2> QED
    BY <1>1, <1>2, <2>3, <2>4, <2>5
<1>5. CASE I2cFails(i)
  <2>1. /\ runs[i] = Sensor
        /\ \E to \in {"boot_store", "store"} : poll' = [poll EXCEPT ![i] = to]
        /\ result' = [result EXCEPT ![i] = "IO"] /\ frame' = [frame EXCEPT ![i] = NoFrame]
    BY <1>5 DEF I2cFails, MeasureDataTypes
  <2>2. NoFrame \in Frames
    BY MeasureAssumption DEF Frames, NoFrame, Time
  <2>3. MeasureDataTypes'
    BY <2>1, <2>2 DEF MeasureDataTypes, Errors
  <2>4. PollShape' /\ InOrder'
    BY <2>1 DEF MeasureDataTypes, PollShape, InOrder, NoFrame
  <2> QED
    BY <1>1, <1>2, <2>3, <2>4
<1> QED
  BY <1>3, <1>4, <1>5

(* Only one task stores, so that no other poll comes between a measurement *)
(* and its storing.                                                        *)
LEMMA StoreSide ==
  ASSUME MeasureInv, NEW i \in Instances, UNCHANGED <<startVars, httpVars, now>>,
         StoreReading(i) \/ StoreError(i)
  PROVE  MeasureInv'
<1> USE DEF MeasureInv, startVars, callers, httpVars, PollGoes
<1>1. /\ runs[i] = Sensor
      /\ \/ poll[i] = "boot_store" /\ poll' = [poll EXCEPT ![i] = "init"]
         \/ poll[i] = "store" /\ poll' = [poll EXCEPT ![i] = "delay"]
      /\ last_poll' = [error |-> result[i], frame |-> frame[i]]
      /\ frame' = [frame EXCEPT ![i] = NoFrame]
      /\ result' = [result EXCEPT ![i] = "OK"]
      /\ UNCHANGED <<s_i2c_bus, s_sht31_dev, port_used, latest_usable>>
  BY DEF StoreReading, StoreError, AfterStore
<1>2. \A j \in Instances : runs[j] = Sensor => j = i
  BY <1>1, OneOwned, StartAssumption, MeasureAssumption DEF OneInstance
<1>3. \/ result[i] = "OK" /\ s_latest' = [valid |-> TRUE, last_error |-> "OK", frame |-> frame[i]]
      \/ result[i] # "OK" /\ s_latest' = [valid |-> FALSE, last_error |-> result[i], frame |-> s_latest.frame]
  BY DEF StoreReading, StoreError, MeasureDataTypes, Latests
<1>4. result[i] \in Errors /\ frame[i] \in Frames /\ s_latest.frame \in Frames /\ NoFrame \in Frames
  BY MeasureAssumption DEF MeasureDataTypes, Latests, Frames, NoFrame, Time
<1>5. s_latest' \in Latests
  <2>1. TRUE \in BOOLEAN /\ FALSE \in BOOLEAN /\ "OK" \in Errors
    BY Zenon DEF Errors
  <2>2. [valid |-> TRUE, last_error |-> "OK", frame |-> frame[i]] \in Latests
    BY <1>4, <2>1, Zenon DEF Latests
  <2>3. [valid |-> FALSE, last_error |-> result[i], frame |-> s_latest.frame] \in Latests
    BY <1>4, <2>1, Zenon DEF Latests
  <2> QED
    BY <1>3, <2>2, <2>3, Zenon
<1>6. StartInv' /\ SensorStays'
  <2>1. StartInv'
    BY StartInvStep
  <2> QED
    BY <2>1 DEF SensorStays
<1>7. MeasureFlagTypes' /\ DriverShape'
  BY <1>1 DEF MeasureFlagTypes, DriverShape
<1>8. MeasureDataTypes'
  BY <1>1, <1>4, <1>5 DEF MeasureDataTypes, Errors
<1>9. RecordUsable'
  BY <1>1 DEF RecordUsable
<1>10. PollShape'
  BY <1>1 DEF PollShape, MeasureDataTypes, NoFrame
<1>11. RecordAgrees'
  BY <1>1, <1>3 DEF RecordAgrees, PollShape
<1>12. InOrder'
  <2>1. s_latest'.frame.at >= s_latest.frame.at /\ s_latest'.frame.at <= now
    BY <1>1, <1>3, <1>4 DEF InOrder, PollShape, MeasureDataTypes, Frames, Time
  <2>2. \A j \in Instances : ~(poll'[j] = "store" /\ result'[j] = "OK")
    BY <1>1, <1>2 DEF PollShape, MeasureDataTypes
  <2>3. /\ served \in Nat /\ s_latest.frame.at \in Nat /\ s_latest'.frame.at \in Nat /\ now \in Nat
        /\ answer.kind = "reading" => answer.frame.at \in Nat
    BY <1>5 DEF MeasureDataTypes, Latests, Frames, Time
  <2> QED
    BY <2>1, <2>2, <2>3 DEF InOrder
<1> QED
  BY <1>6, <1>7, <1>8, <1>9, <1>10, <1>11, <1>12

LEMMA SleepSide ==
  ASSUME MeasureInv, NEW i \in Instances, UNCHANGED <<startVars, httpVars, recordVars>>, Sleep(i)
  PROVE  MeasureInv'
<1> USE DEF MeasureInv, startVars, callers, httpVars, recordVars, PollGoes, Sleep
<1>1. StartInv'
  BY StartInvStep
<1>2. SensorStays' /\ RecordUsable' /\ MeasureFlagTypes' /\ DriverShape' /\ RecordAgrees'
  BY DEF SensorStays, RecordUsable, MeasureFlagTypes, DriverShape, RecordAgrees
<1>3. now' \in Time /\ now' >= now /\ now \in Nat
  BY MeasureAssumption DEF MeasureDataTypes, Time
<1>4. MeasureDataTypes'
  BY <1>3 DEF MeasureDataTypes
<1>5. PollShape'
  BY DEF PollShape, MeasureDataTypes
<1>6. InOrder'
  <2>1. /\ s_latest.frame.at \in Nat /\ now' \in Nat
        /\ \A j \in Instances : frame[j].at \in Nat
    BY <1>3 DEF MeasureDataTypes, Latests, Frames, Time
  <2> QED
    BY <1>3, <2>1 DEF InOrder, MeasureDataTypes
<1> QED
  BY <1>1, <1>2, <1>4, <1>5, <1>6

----------------------------------------------------------------------------
(* What sensor_latest_get tells of the last poll.                          *)
LEMMA GotTells ==
  ASSUME MeasureInv
  PROVE  /\ last_poll.error = "OK" =>
              Got.error = "OK" /\ Got.latest.frame = [at |-> last_poll.frame.at, garbled |-> {}]
         /\ last_poll.error # "OK" => Got.error # "OK"
         /\ ShownError(Got) = last_poll.error
         /\ Got.latest = s_latest
         /\ ~latest_usable => last_poll.error # "OK"
<1> USE DEF MeasureInv, RecordAgrees, Got
<1>1. last_poll.frame = [at |-> last_poll.frame.at, garbled |-> {}]
  BY DEF MeasureDataTypes, Frames
<1>2. CASE s_latest.valid
  <2>1. Got.error = "OK" /\ Got.latest = s_latest
    BY <1>2
  <2> QED
    BY <1>1, <1>2, <2>1 DEF ShownError, RecordUsable
<1>3. CASE ~s_latest.valid
  <2>1. Got.error = "INVALID_STATE" /\ Got.latest = s_latest
    BY <1>3
  <2> QED
    BY <1>3, <2>1 DEF ShownError
<1> QED
  BY <1>2, <1>3

LEMMA AskSide ==
  ASSUME MeasureInv, UNCHANGED <<startVars, sensorVars, now>>, Healthz \/ Latest
  PROVE  MeasureInv'
<1> USE DEF MeasureInv, startVars, callers, sensorVars
<1>1. PICK got \in {Got, NotGot} :
        GetLatest(got) /\ (answer' = HealthAnswer(got) \/ answer' = LatestAnswer(got))
  BY DEF Healthz, Latest
<1>2. /\ request' = "sending" /\ UNCHANGED <<served, s_latest, last_poll>>
      /\ latest_usable' = latest_usable \/ latest_usable' = TRUE
  BY <1>1 DEF GetLatest
<1>3. \/ answer'.kind \in {"health", "unavailable"}
      \/ answer'.kind = "reading" /\ answer'.frame = s_latest.frame
  <2>1. NotGot.error # "OK" /\ Got.latest = s_latest
    BY DEF NotGot, Got
  <2> QED
    BY <1>1, <2>1 DEF HealthAnswer, LatestAnswer
<1>4. StartInv' /\ SensorStays'
  <2>1. StartInv'
    BY StartInvStep
  <2> QED
    BY <2>1 DEF SensorStays
<1>5. MeasureFlagTypes' /\ RecordUsable'
  <2>1. MeasureFlagTypes'
    BY <1>2, Zenon DEF MeasureFlagTypes
  <2>2. RecordUsable'
    BY <1>2 DEF RecordUsable
  <2> QED
    BY <2>1, <2>2
<1>6. PollShape' /\ DriverShape' /\ RecordAgrees'
  BY <1>2 DEF PollShape, DriverShape, RecordAgrees
<1>7. MeasureDataTypes'
  BY <1>2, <1>3 DEF MeasureDataTypes, Latests
<1>8. InOrder'
  <2>1. s_latest.frame.at \in Nat
    BY DEF MeasureDataTypes, Latests, Frames, Time
  <2> QED
    BY <1>2, <1>3, <2>1 DEF InOrder
<1> QED
  BY <1>4, <1>5, <1>6, <1>7, <1>8

LEMMA AnswerSide ==
  ASSUME MeasureInv, Respond
  PROVE  MeasureInv' /\ served' >= served
<1> USE DEF MeasureInv, startVars, callers, sensorVars, recordVars, Respond, Send
<1>1. /\ served \in Time /\ served' \in Time /\ served' >= served /\ served' <= s_latest.frame.at
  BY DEF MeasureDataTypes, InOrder, Latests, Frames, Time
<1>2. StartInv'
  BY StartInvStep
<1>3. SensorStays' /\ RecordUsable' /\ PollShape' /\ RecordAgrees'
  BY DEF SensorStays, RecordUsable, PollShape, RecordAgrees
<1>4. MeasureFlagTypes' /\ DriverShape'
  BY DEF MeasureFlagTypes, DriverShape
<1>5. MeasureDataTypes' /\ InOrder'
  BY <1>1 DEF MeasureDataTypes, InOrder, NoAnswer
<1> QED
  BY <1>1, <1>2, <1>3, <1>4, <1>5

LEMMA MeasureStep ==
  ASSUME MeasureInv, [MeasureNext]_measureVars
  PROVE  MeasureInv' /\ served' >= served
<1>1. served \in Nat
  BY DEF MeasureInv, MeasureDataTypes, Time
<1>2. ASSUME NEW c \in Callers, StartStep(c) \/ \E s \in {Sensor, Server} : StartService(c, s)
      PROVE  MeasureInv' /\ served' >= served
  <2>1. served' = served
    BY <1>2 DEF StartStep, StartService, httpVars
  <2> QED
    BY <1>1, <1>2, <2>1, StartSide
<1>3. ASSUME NEW i \in Instances, PollStep(i) PROVE MeasureInv' /\ served' >= served
  <2>1. UNCHANGED <<startVars, httpVars>> /\ served' = served
    BY <1>3 DEF PollStep, httpVars
  <2> QED
    BY <1>1, <1>3, <2>1, DriverSide, StoreSide, SleepSide DEF PollStep
<1>4. CASE Request
  <2>1. served' = served
    BY <1>4 DEF Request, Healthz, Latest, GetLatest
  <2> QED
    BY <1>1, <1>4, <2>1, AskSide DEF Request
<1>5. CASE Respond
  BY <1>5, AnswerSide
<1>6. CASE UNCHANGED measureVars
  <2> USE <1>6 DEF measureVars, startVars, callers, sensorVars, recordVars, httpVars
  <2>1. StartInv'
    BY StartInvStep DEF MeasureInv
  <2>2. SensorStays' /\ RecordUsable' /\ PollShape' /\ RecordAgrees'
    BY DEF MeasureInv, SensorStays, RecordUsable, PollShape, RecordAgrees
  <2>3. MeasureFlagTypes' /\ DriverShape'
    BY DEF MeasureInv, MeasureFlagTypes, DriverShape
  <2>4. MeasureDataTypes' /\ InOrder'
    BY DEF MeasureInv, MeasureDataTypes, InOrder
  <2> QED
    BY <1>1, <2>1, <2>2, <2>3, <2>4 DEF MeasureInv
<1> QED
  BY <1>2, <1>3, <1>4, <1>5, <1>6 DEF MeasureNext

LEMMA MeasureInvariant == MeasureSpec => []MeasureInv
<1>1. MeasureInv /\ [MeasureNext]_measureVars => MeasureInv'
  BY MeasureStep
<1> QED
  BY <1>1, InitMeasureInv, PTL DEF MeasureSpec

(* Every variable keeps its type; a sensor task always has a mutex for its *)
(* record; the driver knows of its bus exactly when there is one.          *)
THEOREM MeasureTypeCorrect == MeasureSpec => []MeasureTypeOK
<1>1. MeasureInv => MeasureTypeOK
  <2> SUFFICES ASSUME MeasureInv PROVE MeasureTypeOK
    OBVIOUS
  <2>1. TypeOK
    BY DEF MeasureInv, StartInv
  <2>2. (\E i \in Instances : runs[i] = Sensor) => latest_usable
    BY DEF MeasureInv, RecordUsable
  <2> QED
    BY <2>1, <2>2, Zenon
       DEF MeasureInv, MeasureFlagTypes, MeasureDataTypes, DriverShape, MeasureTypeOK, Latests
<1> QED
  BY <1>1, MeasureInvariant, PTL

(* A client of the API gets the reading of the last poll, undisturbed, or  *)
(* is told that there is none, whenever it asks.                           *)
THEOREM LastPollAnswered == MeasureSpec => AnswersLastPoll
<1>1. MeasureInv /\ [MeasureNext]_measureVars =>
        [ Latest =>
            answer' = IF last_poll.error = "OK"
                      THEN [kind |-> "reading", frame |-> [at |-> last_poll.frame.at, garbled |-> {}]]
                      ELSE [kind |-> "unavailable"] ]_measureVars
  <2> SUFFICES ASSUME MeasureInv, Latest
               PROVE  answer' = IF last_poll.error = "OK"
                                THEN [kind |-> "reading",
                                      frame |-> [at |-> last_poll.frame.at, garbled |-> {}]]
                                ELSE [kind |-> "unavailable"]
    OBVIOUS
  <2>1. PICK got \in {Got, NotGot} : GetLatest(got) /\ answer' = LatestAnswer(got)
    BY DEF Latest
  <2>2. CASE got = Got
    BY <2>1, <2>2, GotTells DEF LatestAnswer
  <2>3. CASE got = NotGot
    <3>1. NotGot.error = "NO_MEM" /\ got # Got
      BY <2>3 DEF NotGot, Got
    <3>2. ~latest_usable
      BY <2>1, <3>1 DEF GetLatest
    <3> QED
      BY <2>1, <2>3, <3>1, <3>2, GotTells DEF LatestAnswer
  <2> QED
    BY <2>2, <2>3
<1> QED
  BY <1>1, MeasureInvariant, PTL DEF MeasureSpec, AnswersLastPoll

(* healthz never combines a valid sensor with an error or the reverse, and *)
(* its error is that of the last poll as soon as there has been one.       *)
THEOREM LastPollShown == MeasureSpec => HealthTellsLastPoll
<1>1. MeasureInv /\ [MeasureNext]_measureVars =>
        [ Healthz =>
            /\ answer'.valid = (answer'.error = "OK")
            /\ \/ answer'.error = last_poll.error
               \/ answer'.error = "NO_MEM" /\ ~latest_usable ]_measureVars
  <2> SUFFICES ASSUME MeasureInv, Healthz
               PROVE  /\ answer'.valid = (answer'.error = "OK")
                      /\ \/ answer'.error = last_poll.error
                         \/ answer'.error = "NO_MEM" /\ ~latest_usable
    OBVIOUS
  <2>1. PICK got \in {Got, NotGot} : GetLatest(got) /\ answer' = HealthAnswer(got)
    BY DEF Healthz
  <2>2. answer'.valid = (got.error = "OK") /\ answer'.error = ShownError(got)
    BY <2>1 DEF HealthAnswer
  <2>3. CASE got = Got
    BY <2>2, <2>3, GotTells
  <2>4. CASE got = NotGot
    <3>1. got.error = "NO_MEM" /\ ShownError(got) = "NO_MEM" /\ got # Got
      BY <2>4 DEF NotGot, Got, ShownError
    <3>2. ~latest_usable
      BY <2>1, <3>1 DEF GetLatest
    <3> QED
      BY <2>2, <3>1, <3>2
  <2> QED
    BY <2>3, <2>4
<1> QED
  BY <1>1, MeasureInvariant, PTL DEF MeasureSpec, HealthTellsLastPoll

(* The readings clients get never go back in time, because one task polls  *)
(* and one task serves.                                                    *)
THEOREM ReadingsInOrder == MeasureSpec => NeverBackwards
<1>1. MeasureInv /\ [MeasureNext]_measureVars => [served' >= served]_measureVars
  BY MeasureStep
<1> QED
  BY <1>1, MeasureInvariant, PTL DEF MeasureSpec, NeverBackwards

----------------------------------------------------------------------------
(* What StartOnce shows of the start-once functions alone holds beside the *)
(* polls and the requests, which see what is started and stop nothing: no  *)
(* second task or server, and none published before it is complete.        *)
THEOREM StartedOnceInUse == MeasureSpec => [](OneInstance /\ PublishedComplete)
<1>1. MeasureInv => OneInstance /\ PublishedComplete
  BY OneOwned DEF MeasureInv, StartInv
<1> QED
  BY <1>1, MeasureInvariant, PTL

(* Nor do they break the promise to the callers of sensor_task_start and   *)
(* api_server_start.                                                       *)
THEOREM StartsOnceInUse == MeasureSpec => ImplementsOnce
<1>1. MeasureInit => Service!Init
  BY InitRefines DEF MeasureInit
<1>2. MeasureInv /\ [MeasureNext]_measureVars => [Service!Next]_(Service!vars)
  <2>1. MeasureInv => StartInv
    BY DEF MeasureInv
  <2>2. [MeasureNext]_measureVars => [Next]_startVars
    BY StartsAlong DEF measureVars
  <2> QED
    BY <2>1, <2>2, NextRefines
<1> QED
  BY <1>1, <1>2, MeasureInvariant, PTL DEF MeasureSpec, ImplementsOnce, Service!Spec
=============================================================================
