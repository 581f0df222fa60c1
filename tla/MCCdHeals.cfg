SPECIFICATION Spec
CONSTANTS
  Lba = {0, 108996}
  Sectors = {0, 1, 108996, 108997, 239328}
  Cmds = {2, 6, 9}
  Sizes = {0, 2048}
  Ladder = {0}
  HeaderLen = 1
  SectorLen = 2
  StallHeals = TRUE
INVARIANTS TypeOK StagedIsNeedle
PROPERTIES SectorEventKept
