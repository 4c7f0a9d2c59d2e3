SPECIFICATION Spec
CONSTANTS
  Sizes = {"s1", "s2"}
  OnePixel = "1x1"
  MaxPaints = 2
PROPERTIES
  RailWindowMapped
