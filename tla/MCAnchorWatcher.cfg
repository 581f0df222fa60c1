SPECIFICATION MCSpec
INVARIANT WatcherStaysOut
CONSTANTS
Subjects = {"anchor"}
MdecMaxWords = 3
MdecInHalfs = 8
MdecOutWords = 5
MdecLastCoef = 1
MdecLuma = 1
MdecTableWords = 2
MdecWordsOut <- MdecOut
MdecDeclares = {0, 2, 3}
MdecHalfs = {0, Pad}
MdecTables = {t1}
MdecPad = Pad
MdecDefault = t0
MdecMaxDma = 2
GpuWidth = 2
GpuHeight = 1
GpuAlign = 2
GpuColours = {0, 1}
GpuHeads = {0, 2, 60, 64, 96, 116, 128, 160, 192, 227, 228, 229}
GpuTops = {0}
GpuAborts = FALSE
GpuVertices <- GpuPair
GpuSizes <- GpuPair
GpuOffsets <- GpuPair
GpuSide <- GpuCorners
SpuVoices = {v1}
SpuBlocks = 2
SpuSamples = 2
SpuUnit = 2
SpuPitches = {3}
SpuFlags <- EndBlocks
SpuStarts = {1}
SpuEnvelopes <- Envelopes
SpuLevels = {}
SpuChunks = {1}
GteOne = 2
GtePart = 2
GteIr = 8
GteMac = 32
GteWord = 32
GteColours = 4
GteDepths = 4
GteScreen = 4
GtePixel = 4
GteFifth = 2
GteWrites <- Scene
GteScreenWrites <- Points
GteColourWrites <- Packed
GteCommands = {"RTPS", "RTPT", "NCLIP", "AVSZ3", "AVSZ4", "MVMVA", "SQR", "OP",
  "CC", "CDP", "DPCS", "DPCT", "DCPL", "INTPL", "GPF", "GPL", "NOP",
  "NCS", "NCCS", "NCDS", "NCT", "NCCT", "NCDT"}
GteMaxTurns = 1
GteOperands <- Operands
DmaLast = 3
DmaMax = 3
DmaCap = 3
DmaCounts = {0, 2}
DmaSizes = {1}
DmaDicrs <- Dicrs
DmaEnd = 99
MaxFrames = 7
MaxRestarts = 2
RsScenes <- Scenes
RsBudgets <- Budgets
RsFew = 1
RsLate = 1
GrLast = 18
GrWindow <- Window
GrBuilds <- Builds
GrSeeds = {9, 13}
GrFirst = {0}
GrGuard = 2
GrDeclines = 1
GrMaxDepth = 3
CHECK_DEADLOCK FALSE
