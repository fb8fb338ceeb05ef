SPECIFICATION Spec
CONSTANTS
  TickModulus = 8
  RegModulus = 2
  RteWords <- OnlyRte32
  UsedChan = {0, 1}
  WriteValues = {0, 1}
PROPERTY DisabledNotTaken
