SPECIFICATION Spec
CONSTANTS
  Lba = {0}
  Sectors = {0, 1}
  Cmds = {1, 19}
  Sizes = {0}
  Ladder = {0}
  HeaderLen = 1
  SectorLen = 2
  StallHeals = FALSE
PROPERTIES AnswerOfTheCommand
