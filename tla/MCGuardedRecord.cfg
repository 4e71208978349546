CONSTANTS
  Tasks = {t1, t2, t3}
  Handles = {h1, h2}
  Null = Null
  Fields <- MCFields
  Values = {0, 1}
  Zero <- MCZero
  Updates <- MCUpdates
  NoAnswer = NoAnswer
SPECIFICATION Spec
INVARIANTS
  TypeOK
  MutexesOwned
PROPERTIES
  ImplementsAtomicRecord
  CallsReturn
CHECK_DEADLOCK FALSE
