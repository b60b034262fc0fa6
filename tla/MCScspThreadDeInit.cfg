SPECIFICATION Spec
CONSTANTS
  Modulus = 8
  MaxExec = 3
  MaxStep = 2
  Writes <- MCWrites
  None = None
  Twice = Twice
PROPERTY DeInitEnds
CHECK_DEADLOCK FALSE
