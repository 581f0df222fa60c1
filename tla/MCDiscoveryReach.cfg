SPECIFICATION Spec
CONSTANTS
  Size = 3
  Targets = {1}
  Operations = {"plain", "branch", "trap"}
  SeedLists <- NoSeeds
INVARIANTS MarksAllReachable
CHECK_DEADLOCK FALSE
