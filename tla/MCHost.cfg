SPECIFICATION MCSpec
INVARIANTS HostTypeOK KerContextKept KerDeliveredToAll
INVARIANTS FsReadDelivers LzDecodes WdOneStart StUnpacksAsTheGame BuEntriesAreSeeds
PROPERTY WdHangsEnd
CONSTANTS
Subjects = {"kernel", "files", "lzss", "watchdogs", "stage", "build"}
KerSlots = 2
KerClasses = {"disc"}
KerHandlers = {"h", "none"}
KerNull = "none"
KerMaxFrames = 4
FsSector = 2
FsSlots = 2
FsWord = 64
FsSectors <- Sectors
FsVolume = TRUE
FsRoot <- Root
FsRecords <- Records
FsThrees <- Threes
FsUpper <- Upper
FsPaths <- Paths
FsRam = 8
FsTargets = {0, 1}
FsLengths = {0, 3, 5, 9}
FsOffsets <- Offsets
FsMaxCalls = 4
LzBytes = {1, 3}
LzStreams <- Streams
LzMaxSize = 6
LzMemory = 8
LzMaxRuns = 2
StSector = 4
StAhead = 3
StWindow = 12
StMaxOut = 6
StMaxFile = 12
StDiscs <- Discs
StTables <- Tables
BuWord = 4
BuHalf = 16
BuSpace = 256
BuBase = 16
BuNear = 2
BuZero <- Zero
BuSp <- Sp
BuRegs = {"a", "b", "zero", "sp"}
BuOverlay <- Overlay
BuStage2 <- Stage2
BuInputs <- Inputs
WdHangs <- Hangs
WdSteps = 1
WdShort = 3
WdMiddle = 4
WdLong = 7
WdBudget = 2
CHECK_DEADLOCK FALSE
