SPECIFICATION Spec
CONSTANTS
    Dirs = {d}
    MutDirs = {}
    Names = {n1, n2}
    Removes <- AllRemoves
    Renames <- AllRenames
    NStreams = 2
    NWorkers = 2
    MaxInodes = 6
    MaxFile = 2
    Versions = {v1}
    Options <- VerifiedOnly
    Quota = 2
    Hole = hole
SYMMETRY Symmetric
CONSTRAINT UpToOverlap
INVARIANTS TypeOK OneWriterPerPartial  
