SPECIFICATION Spec
CONSTANTS
  systemManager = systemManager
  pad = pad
  level0DMA = level0DMA
  frt = frt
  nmi = nmi
  m1 = m1
  m2 = m2
  Source <- MCSource
  OnChip = {frt}
  NMI = nmi
  Level <- MCLevel
  Mask <- MCMask
  MaskBit = {m1, m2}
  OnChipLevel = {0, 8}
  ILevel = {0, 15}
INVARIANTS TypeOK NothingLost NothingInvented StatusIsQueued
PROPERTIES HighestFirst NMITaken
