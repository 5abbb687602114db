SPECIFICATION ExecSpec
CONSTANTS
    Task = {t1, t2}
    Program <- SmallPrograms
    kLevels = 3
    kEntries = 4
    kPageBytes = 2
    kFrames = 12
    kArgvLen = 2
    kArgbufLen = 3
    MaxExecs = 3
    MaxFiles = 4
    KernelPML4 = KernelPML4
    IdentityMap = IdentityMap
    NotPresent = NotPresent
INVARIANTS
    MapsOwnTheirFrames
    FramesGivenBack
    ProgramComplete
    HaltedForCause
CHECK_DEADLOCK FALSE
SYMMETRY TaskSymmetry
