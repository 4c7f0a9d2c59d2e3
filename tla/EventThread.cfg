SPECIFICATION FairSpec
CONSTANTS
  MaxEvents = 3
  MaxPosted = 2
INVARIANTS
  TypeOK
  OneReader
  RoundtripUndisturbed
  NoLostWakeup
  NothingStranded
PROPERTIES
  QuitIsFinal
  ImplementsEventPipe
  StopReturns
