CONSTANTS
  Wrap = 4
  Ratio = 3
  MaxHi = 3
  Delays = {0, 1, 3}
SPECIFICATION FairSpec
INVARIANT NotTorn
PROPERTIES Monotonic DelayNotEarly DelayEnds
