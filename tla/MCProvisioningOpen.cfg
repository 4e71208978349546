CONSTANTS
  Networks = {n1}
  Open = {n1}
  FullLength = {}
  Unset = Unset
  MaxCrashes = 0
SPECIFICATION Spec
PROPERTY BootUsesCredentials
CHECK_DEADLOCK FALSE
