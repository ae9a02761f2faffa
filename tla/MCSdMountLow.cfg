\* A byte-addressed card; any two faults, in the start-up or later.
CONSTANTS
  NBlocks = 4
  SECTOR = 2
  Cards <- OneLow
  Lbas = {0, 1}
  ReadNums = {2}
  WriteNums = {1, 2}
  Data = {new}
  MaxFaults = 2
  Interruptible = FALSE
  MaxParts = 4
SPECIFICATION MSpec
INVARIANTS FirstIsSd ReadsTheBlocks
PROPERTY ErrorsAccounted
CHECK_DEADLOCK FALSE
