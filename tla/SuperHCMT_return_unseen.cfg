SPECIFICATION Spec
CONSTANTS
  TickModulus = 8
  RegModulus = 2
  RteWords <- OnlyRte16
  UsedChan = {0}
  WriteValues = {0, 1}
PROPERTY ReturnDisablesTriggered
