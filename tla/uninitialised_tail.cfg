CONSTANTS
    Ids = {a, b}
    Zero = zero
    Junk = junk
    NumLevels = 2
    NumChunks = 1
    ChunkElems = 2
    LastLen = 1
    RankData <- AnyPicture
    Requests <- AnyRequest
SPECIFICATION Spec
INVARIANT OnlyShownMasks
