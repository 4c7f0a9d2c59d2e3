SPECIFICATION PointerSpec
CONSTANTS
  HasInhibitManager = TRUE
  DpmsModes = {"On", "Off"}
  MaxLocks = 2
  Looks <- MCLooks
  NoLook <- MCNoLook
  MaxEnters = 2
  MaxRequests = 3
INVARIANTS
  PointerTypeOK
  AssertionsHold
  GrabReflected
  AgreesWithHost
  CursorCurrent
PROPERTIES
  HiddenWhileGrabbed
