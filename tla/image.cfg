SPECIFICATION Spec
CONSTANTS
  Initial = Initial
  MaxWidth = 5
  MaxHeight = 3
  MaxChunks = 6
  Sizes <- SmallSizes
INVARIANTS ImageAssembled Tiling
PROPERTIES PixelsKept
CHECK_DEADLOCK FALSE
