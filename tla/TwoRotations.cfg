SPECIFICATION Spec
CONSTANTS
  None = None
  Rotators = {r1, r2}
  Revokers = {v1}
  MaxVersion = 3
  MaxFaults = 0
INVARIANTS SigningKeyStaysActive
CHECK_DEADLOCK FALSE
