SPECIFICATION Spec
CONSTANTS
  MailDepth = 1
  Noise = 1
  Refusals = 0
  Tags = {}
  BufferSizes = {}
  Counts = {}
  Keys = {1, 2}
  Slots = 2
  Addresses = {1, 2}
  Delays = 2
  Presses = 3
  Boots = 1
INVARIANT NoKeyLost
