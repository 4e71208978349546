CONSTANTS
  Keys = {k1}
  Null = Null
  Dangling = Dangling
SPECIFICATION Spec
PROPERTIES
  RequestAnswered
  RefreshRecurs
  RecoversAndStaysReady
CHECK_DEADLOCK FALSE
