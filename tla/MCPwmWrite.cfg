SPECIFICATION Spec
CONSTANTS
  Sources = {"osc", "pll"}
  OSC = "osc"
  Mashes = {1, 2}
  Parts = {0, 3}
  BootDiv = 20
  None = None
  Pins = {7, 9, 19}
  Functions = {"in", "out", "alt0"}
  Word = 128
  Unit = 8
  DefaultHz = 40
  DefaultPeriod = 10
  Asked <- MCAsked
  Values = {3, 11}
  Depth = 2
  PwmMax = 3
  Timeouts = {2}
  SpiPins = {9}
  SelectPin = 7
  SpiFifo = 2
  SpiMax = 3
  JobPins = {7}
  JobChannels = {1}
  MailDepth = 2
  Noise = 2
  Refusals = 1
  Tags = {294913, 65537, 65539, 65540, 196620, 196628, 262154, 32784, 196624, 196640, 262155, 278539, 327681, 5}
  BufferSizes = {0, 5, 8, 2000}
  Counts = {0, 1, 7, 300}
  Jobs = {"fifo"}
INVARIANT WritesAll
