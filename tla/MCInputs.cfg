CONSTANTS
  Capacities = {2, 3, 4, 5}
  Lengths = {0, 1, 2, 3, 4, 5, 6}
  Nul = Nul
  Junk = Junk
  Skew = 1
  Missing = Missing
  Other = Other
  Words <- MCWords
  Tokens <- MCTokens
  ClaimsCases <- MCClaimsCases
  Config <- MCConfig
  Now = 3
SPECIFICATION InputsSpec
INVARIANTS
  BodyWhole
  FramesChecked
  TokensDecoded
  AllDecided
CHECK_DEADLOCK FALSE
