\* A block-addressed card whose initialisation fails once, for a later partition.
CONSTANTS
  NBlocks = 4
  SECTOR = 2
  Cards <- OneHigh
  Lbas = {0, 1}
  ReadNums = {1}
  WriteNums = {1}
  Data = {new}
  MaxFaults = 1
  Interruptible = FALSE
  MaxParts = 4
SPECIFICATION MSpec
INVARIANT ReadsTheBlocks
CHECK_DEADLOCK FALSE
