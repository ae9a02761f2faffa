\* A three-slot ring, overrun again and again in the middle of reads.
CONSTANTS
  RX_BUF_SIZE = 2
  FifoDepth = 2
  MaxChars = 5
SPECIFICATION FairSpec
INVARIANTS TypeOK GetcNeverStarves NeverInvents
PROPERTIES ImplementsQueue StdinDrains InterruptRaised
