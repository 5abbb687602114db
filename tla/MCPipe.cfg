SPECIFICATION FairSpec
CONSTANTS
    kPipeData = 3
    WriteSizes = {0, 1, 3, 4, 7}
    ReadSizes = {0, 1, 2, 4}
    MaxBytes = 9
INVARIANTS
    EveryByteInOrder
PROPERTIES
    ImplementsByteStream
    ReaderSeesAll
CHECK_DEADLOCK FALSE
