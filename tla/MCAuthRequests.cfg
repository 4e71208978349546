CONSTANTS
  Keys = {k1, k2}
  Null = Null
  Dangling = Dangling
SPECIFICATION RequestsSpec
INVARIANTS
  TypeOK
  HeapOwned
  ReadyHasJwks
  GateFollowsRefresh
  AcceptedSoundly
  GoodTokenAccepted
PROPERTIES
  ImplementsJwksCell
CHECK_DEADLOCK FALSE
