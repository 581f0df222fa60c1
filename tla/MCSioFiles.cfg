SPECIFICATION Spec
CONSTANTS
  Blocks = 2
  BlockSectors = 3
  SectorLen = 2
  FifoDepth = 1
  Beyond = {0, 9}
  Cuts = {2}
  Wire <- WriterWire
  Fills <- OneFill
  Tails <- MCTails
  Pads <- TwoPads
PROPERTY FilesStayApart
