\* Block-addressed cards, used while the last initialisation succeeded; an
\* exception may come out of every wait.
CONSTANTS
  NBlocks = 4
  SECTOR = 2
  Cards <- HighCards
  Lbas = {0, 1}
  ReadNums = {2}
  WriteNums = {0, 2}
  Data = {new}
  MaxFaults = 1
  Interruptible = TRUE
SPECIFICATION Spec
INVARIANTS TypeOK ReadyAfterInit TransferEnded
PROPERTY ImplementsDevice
