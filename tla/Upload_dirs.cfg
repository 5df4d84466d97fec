SPECIFICATION Spec
CONSTANTS
    Dirs = {a, b}
    MutDirs = {a, b}
    Names = {n1}
    Removes <- NoRemoves
    Renames <- NoRenames
    NStreams = 2
    NWorkers = 1
    MaxInodes = 5
    MaxFile = 1
    Versions = {v1}
    Options <- VerifiedOnly
    Quota = 2
    Hole = hole
SYMMETRY Symmetric
INVARIANTS InFlightExact ClaimsExact
