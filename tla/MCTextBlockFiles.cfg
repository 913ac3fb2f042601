SPECIFICATION MCSeparateSpec
CONSTANTS
    i1 = i1
    i2 = i2
    i3 = i3
    i4 = i4
    None = None
    Inodes = {i1, i2, i3, i4}
    Runs = {"r1", "r2"}
    Jobs <- MCJobs
    Outputs <- MCOutputs
    Words <- MCWords
    Originals <- MCOriginals
INVARIANTS
    TypeOK
    Delivered
    NoLeftovers
    PermissionsKept
PROPERTIES
    AtomicSpec
    OnlyOwnFiles
CHECK_DEADLOCK FALSE
