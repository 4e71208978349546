CONSTANTS
  Networks = {n1}
  Open = {}
  FullLength = {}
  Unset = Unset
  MaxCrashes = 0
SPECIFICATION Spec
INVARIANT RestartsWithCredentials
CHECK_DEADLOCK FALSE
