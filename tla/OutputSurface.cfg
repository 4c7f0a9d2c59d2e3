SPECIFICATION Spec
CONSTANTS
  Sizes = {"s1", "s2"}
  OnePixel = "1x1"
  MaxPaints = 3
INVARIANTS
  TypeOK
PROPERTIES
  PresentsThisPaint
  StaysMapped
  ViewportFitsContent
