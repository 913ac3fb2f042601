SPECIFICATION Spec
CONSTANTS
    Bundy = Bundy
    BundyServer = BundyServer
    Other = Other
    BundyDir = BundyDir
    OtherDir = OtherDir
    N = 3
    Dirs <- MCDirs
    Subjects <- MCSubjects
    DirOf <- MCDirOf
    MaxRuns = 3
    MaxRequests = 4
    None = None
CHECK_DEADLOCK FALSE
INVARIANTS
    TypeOK
    AllAccepted
    NeverRefused
    FreshWhenDone
    Published
    Accounted
