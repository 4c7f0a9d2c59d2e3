SPECIFICATION FairSpec
CONSTANTS
  Sizes <- MCSizes
  InitialSize <- MCInitialSize
  Scales = {120, 180}
  InitialScale = 180
  RefreshRates = {60, 75}
  InitialRate = 60
  MaxConfigures = 3
INVARIANTS
  TypeOK
  SettledIsCurrent
  ModeMatchesScale
PROPERTIES
  AcksNewest
  EveryConfigureAcked
