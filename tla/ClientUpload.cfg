SPECIFICATION Spec
CONSTANTS
    Files <- AllFiles
    IgnoreFile <- ignore
    Commands <- AllCommands
    Rules <- OneRule
    InitialLocal <- SomeLocal
    InitialRemote <- SomeRemote
    NoFile = NoFile
    Torn = Torn
    NoPut = NoPut
    MaxLocal = 2
    MaxRemote = 1
    MaxLosses = 1
CONSTRAINT FewForSync
INVARIANTS DeletesOnlyOrphans MirroredWhenQuiet
PROPERTIES NoClobberKept
CHECK_DEADLOCK FALSE
