SPECIFICATION Spec
CONSTANTS
  Bank = 4
  PortSize = {1}
  CommandTime = 1
  OtherTime = 15
  StatusTime = 2
  PeripheralTime = 10
  ContinueTime = 20
  Usec = {10}
  declinenum = 3
  VBlankLines = {2, 3, 6}
  ResetLine = 2
  MaxLines = {4, 5}
  Compare = {0, 2, 4, 6}
  TimerCap = 7
  BitsWritten <- MCNoBits
  CommandsGiven = {"CKCHG", "unknown"}
INVARIANTS
  TypeOK
  VBlankAsCounted
  Timer0CountsLines
