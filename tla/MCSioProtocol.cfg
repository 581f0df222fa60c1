SPECIFICATION Spec
CONSTANTS
  Blocks = 2
  BlockSectors = 3
  SectorLen = 2
  FifoDepth = 1
  Beyond = {0, 9}
  Cuts = {}
  Wire <- ProtocolWire
  Fills <- NoFills
  Tails <- MCTails
  Pads <- OnePad
INVARIANT TypeOK
PROPERTIES ImplementsCardStore ExchangesEnd
