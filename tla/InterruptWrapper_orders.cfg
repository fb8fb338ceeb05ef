SPECIFICATION Spec
CONSTANTS
  MainCode = {m1}
  HandlerCode = {h1, h2, h3}
  SharedCode = {h1, h3}
  Handler = {h1, h2}
  FiresAt = {0, 1, 2, 3}
  HostDisables = {TRUE, FALSE}
  SharesCode = {TRUE, FALSE}
  MaxDepth = 4
INVARIANT TypeOK
INVARIANT StatusFromReturns
INVARIANT RunningIsFired
PROPERTY EntryExecutes
