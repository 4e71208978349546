CONSTANTS
  Networks = {n1, n2}
  Open = {}
  FullLength = {}
  Unset = Unset
  MaxCrashes = 1
SPECIFICATION Spec
INVARIANTS
  TypeOK
  AckedAuthDurable
  StoredIssuerBootable
  RestartFindsCredentials
PROPERTIES
  BootUsesCredentials
  BootSettles
CHECK_DEADLOCK FALSE
