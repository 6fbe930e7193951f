SPECIFICATION Spec
CONSTANTS
  Rotators = {r1}
  Revokers = {}
  None = none
  MaxVersion = 2
  MaxFaults = 0
PROPERTIES PicksUpNewKey
