SPECIFICATION Spec
CONSTANTS
  Modulus = 8
  MaxExec = 3
  MaxStep = 2
  Writes <- MCWrites
  None = None
  Twice = Twice
INVARIANTS
  TypeOK
  Exclusive
  LagBounded
  WritesTakeEffect
  NoSpuriousRequest
PROPERTY WaitsEnd
\* The sound thread may sleep through the end it was given.
CHECK_DEADLOCK FALSE
