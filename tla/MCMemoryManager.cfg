SPECIFICATION Spec
CONSTANTS
    MemoryMaps <- SmallMaps
    kBytesPerFrame = 2
    MaxFrames = 2
    MaxBlocks = 2
    Client = {c1, c2}
INVARIANTS
    NoFrameOwnedTwice
    BitmapExact
    UnavailableStaysOut
    SearchMissesNothing
SYMMETRY ClientSymmetry
