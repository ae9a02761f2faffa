\* A driver that is never held up, scripts that finish what they start.
CONSTANTS
  a1 = a1  a2 = a2  a3 = a3
  Addrs <- AllAddrs
  Slaves <- ThoseThere
  FifoSize = 2
  MaxLen = 3
  Prompt = TRUE
  Careful = TRUE
SPECIFICATION FairSpec
INVARIANTS TypeOK WriteCompletes ReadWhole ScanFinds
PROPERTIES BytesInOrder CallsEnd
