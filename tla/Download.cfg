SPECIFICATION FairSpec
CONSTANTS
    blkA = blkA
    blkB = blkB
    blkC = blkC
    Blocks <- ThreeBlocks
    NoFile = NoFile
    NoReq = NoReq
    Versions <- ThreeUploads
    Locals <- FourLocals
    Chunk = 2
    Window = 2
    ZstdMin = 2
    MaxCommits = 1
    MaxDrops = 1
    MaxReadFails = 1
INVARIANTS NoFalseMismatch
PROPERTIES PartialKept GetEnds CopiesAtomically
CHECK_DEADLOCK FALSE
