SPECIFICATION Spec
CONSTANTS
    p = p
    q = q
    i1 = i1
    i2 = i2
    i3 = i3
    i4 = i4
    Processes <- MCOneProcess
    Inodes <- MCInodes
    NoInode = NoInode
    FileCount = 3
    Packages <- MCPackages
    Size <- MCSize
    Limit = 6
    MaxFiles = 7
    Authorized = 5
SYMMETRY MCSymmetry
INVARIANTS
    StagedVerified
    AggregateHeld
    ReportComplete
PROPERTY KeepsVerified
CHECK_DEADLOCK FALSE
