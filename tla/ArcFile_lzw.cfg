SPECIFICATION Spec
CONSTANTS
  MinBits = 1
  MaxBits = 3
  ByteBits = 2
  HeaderBytes = 1
  MaxSize = 16
  None = None
INVARIANTS
  RoundTrip
  InBounds
  TreeKept
CHECK_DEADLOCK FALSE
