SPECIFICATION FairSpec
CONSTANTS
  MaxFrames = 2
  MaxInhibitors = 2
  OffModes = {"Standby", "Off"}
PROPERTIES
  KeepsStreaming
CHECK_DEADLOCK FALSE
