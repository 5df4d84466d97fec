SPECIFICATION Spec
CONSTANTS
    Tasks = {u1, u2}
    Old = old
    Paths = {p, q}
    NoInode = NoInode
    Hole = Hole
    MaxSize = 2
    Quota = 3
    Workers = 2
    MaxStreams = 2
    AuthEnabled = TRUE
    Origins = {"listed"}
    Policy = "List"
SYMMETRY Symmetric
INVARIANTS CommittedWhole ClaimProtectsTemp  
CHECK_DEADLOCK FALSE
