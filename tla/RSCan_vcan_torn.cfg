SPECIFICATION Spec
CONSTANTS
  m1 = m1
  m2 = m2
  Machine = {m1, m2}
  StdId = {"id1", "id2"}
  ExtId = {}
  BadId = {}
  Word = {"a", "b"}
  Traffic <- PairTraffic
  Settings <- VcanUnpolled
  CounterMax = 3
  MaxFrames = 4
CHECK_DEADLOCK FALSE
INVARIANT WholeFrames
