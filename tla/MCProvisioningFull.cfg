CONSTANTS
  Networks = {n1}
  Open = {}
  FullLength = {n1}
  Unset = Unset
  MaxCrashes = 0
SPECIFICATION Spec
PROPERTY BootUsesCredentials
CHECK_DEADLOCK FALSE
