SPECIFICATION Spec
CONSTANTS
  Lba = {0, 108996}
  Sectors = {0, 1, 108996, 108997, 108998, 108999}
  Cmds = {2, 6}
  Sizes = {0, 2048}
  Ladder = {0, 1}
  HeaderLen = 1
  SectorLen = 3
  StallHeals = FALSE
INVARIANTS LoadedHasBytes
PROPERTIES NoTornSector
