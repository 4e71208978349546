CONSTANTS
  Callers = {c1, c2}
  Services = {"sensor", "server"}
  Sensor = "sensor"
  Server = "server"
  Registrations <- MCRegistrations
  Instances = {1, 2, 3}
  MaxFailures = 1
  MaxTime = 1
  Null = Null
SPECIFICATION MeasureSpec
INVARIANTS
  MeasureTypeOK
  OneInstance
  PublishedComplete
PROPERTIES
  ImplementsOnce
  AnswersLastPoll
  HealthTellsLastPoll
  NeverBackwards
  CallsReturn
  SensorRecovers
CHECK_DEADLOCK FALSE
