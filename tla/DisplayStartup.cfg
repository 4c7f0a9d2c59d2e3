SPECIFICATION FairSpec
CONSTANTS
  MaxMissing = 2
  MaxSeats = 2
INVARIANTS
  TypeOK
  NullOnlyUnconnected
  DecisionsInformed
  ProxiesOwned
PROPERTIES
  InitializeReturns
