SPECIFICATION FairSpec
CONSTANTS
  m1 = m1
  m2 = m2
  Machine = {m1, m2}
  StdId = {"id1"}
  ExtId = {"ext"}
  BadId = {"bad"}
  Word = {"a", "b"}
  Traffic <- CrossTraffic
  Settings <- AllSettings
  CounterMax = 3
  MaxFrames = 5
CHECK_DEADLOCK FALSE
INVARIANT TypeOK
INVARIANT PollingIsDeaf
INVARIANT PanicsOnlyWhenFull
PROPERTY BoxSpec
PROPERTY EveryFrameDelivered
