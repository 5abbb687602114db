SPECIFICATION BootSpec
CONSTANTS
    NumFrames = 9
    UefiStack = {1, 7}
    Runtime = {6}
    KernelImages <- SmallKernels
    kUefiPageBytes = 2
    kHeapFrames = 2
    MaxFirmware = 2
INVARIANTS
    LoaderDataKept
    NoEarlyUse
CHECK_DEADLOCK FALSE
