SPECIFICATION FatSpec
CONSTANTS
    BaseLen = 2
    ExtLen = 1
    Task = {t1, t2}
    Images <- SmallImages
    Paths <- ManyPaths
    Lens = {0, 1, 2, 4}
    MaxFileBytes = 5
    MaxDepth = 2
    LastCluster = 7
    bytes_per_cluster = 2
    entries_per_cluster = 2
INVARIANTS
    ChainsSound
    FileHoldsWhatWasWritten
    ReadsInOrder
    StaysInVolume
    CreatedIsFound
SYMMETRY TaskSymmetry

CHECK_DEADLOCK FALSE
CONSTRAINTS
    NotRaced
    FewBytes
