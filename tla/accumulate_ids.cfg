CONSTANTS
    Ids = {a, b}
    Zero = zero
    Junk = junk
    NumLevels = 1
    NumChunks = 1
    ChunkElems = 5
    LastLen = 5
    ThreadCount = 4
SPECIFICATION ScanSpec
INVARIANTS
    ScanTypeOK
    LocalSetsExact
    ResultExact
PROPERTY ScanReturns
