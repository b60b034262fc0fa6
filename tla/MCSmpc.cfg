SPECIFICATION Spec
CONSTANTS
  Bank = 4
  PortSize = {1, 3}
  CommandTime = 1
  OtherTime = 15
  StatusTime = 2
  PeripheralTime = 10
  ContinueTime = 20
  Usec = {10}
  declinenum = 2
  VBlankLines = {1}
  ResetLine = 1
  MaxLines = {2}
  Compare = {3}
  TimerCap = 4
  BitsWritten <- MCBits
  CommandsGiven = {"INTBACK", "CKCHG", "other", "unknown"}
INVARIANT DataInOrder
PROPERTY TimerEnds
