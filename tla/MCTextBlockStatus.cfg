SPECIFICATION MCSpec
CONSTANTS
    i1 = i1
    i2 = i2
    i3 = i3
    i4 = i4
    None = None
    Inodes = {i1, i2, i3, i4}
    Runs = {"r1"}
    Jobs <- MCUpdates
    Outputs <- MCOutputs
    Words <- MCWords
    Originals <- MCOriginals
INVARIANT
    StatusTellsOutput
CHECK_DEADLOCK FALSE
