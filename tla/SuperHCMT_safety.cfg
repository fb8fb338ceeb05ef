SPECIFICATION FairSpec
CONSTANTS
  TickModulus = 4
  RegModulus = 2
  RteWords <- BothRte
  UsedChan = {0, 1}
  WriteValues = {0, 2, 3}
INVARIANT TypeOK
INVARIANT NoNesting
INVARIANT EnableInStep
PROPERTY EntryJustified
PROPERTY Channel0Served
