SPECIFICATION Spec
CONSTANTS
  Size = 4
  Targets = {2, 4}
  Operations = {"set", "load", "cop", "j", "jal", "branch", "jr", "jalr", "trap"}
  SeedLists <- MaySeedOne
INVARIANTS VisitedIsExecuted WalkIsClosed JumpsAreProved
PROPERTIES Terminates
CHECK_DEADLOCK FALSE
