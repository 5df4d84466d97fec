SPECIFICATION Spec
CONSTANTS
    Dirs = {d}
    MutDirs = {}
    Names = {n1}
    Removes <- AllRemoves
    Renames <- NoRenames
    NStreams = 2
    NWorkers = 1
    MaxInodes = 4
    MaxFile = 2
    Versions = {v1, v2}
    Options <- MixedOptions
    Quota = 4
    Hole = hole
SYMMETRY Symmetric
INVARIANTS HashCoversPartial CommitsVerifiedBytes
