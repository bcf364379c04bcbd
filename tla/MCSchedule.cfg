SPECIFICATION MCSpec
CONSTANTS
  QBlocks = 2
  KvBlocks = 3
  BlockQ = 2
  BlockKv = 2
  Heads = 2
INVARIANTS
  TypeOK
  SkipsEmpty
  HeaviestLaunchedFirst
  SchedulesAgree
PROPERTY
  ImplementsAttention
