SPECIFICATION MCSpec
CONSTANTS
  HeadDims = {64, 128, 192, 256}
  Stages = {0, 1, 2, 3, 4}
INVARIANT MaskHeadsInRange
