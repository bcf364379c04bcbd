SPECIFICATION MCSpec
CONSTANTS
  HeadDims = {64, 128, 192, 256}
  Stages = {0, 1, 2, 3, 4}
INVARIANTS
  TypeOK
  AllocationFits
  WalksItsTiles
  AutoNeverWorse
  GradientsAvailable
  WarpgroupsSplit
