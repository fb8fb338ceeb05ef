SPECIFICATION FairSpec
CONSTANTS
  TickModulus = 20
  ByteModulus = 2
  WordStores = {0, 2, 3}
  ByteStores = {0, 1}
CHECK_DEADLOCK FALSE
INVARIANT TypeOK
INVARIANT RunInStep
PROPERTY OnlyFullCountOvershoots
PROPERTY KeepsToggling
