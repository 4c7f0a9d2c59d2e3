SPECIFICATION FairSpec
CONSTANTS
  MaxFrames = 4
  MaxInhibitors = 2
  OffModes = {"Off"}
INVARIANTS
  TypeOK
  MarginOfOneFrame
  NoSlotLost
PROPERTIES
  OwnFeedback
  FramesComplete
  KeepsStreaming
CHECK_DEADLOCK FALSE
