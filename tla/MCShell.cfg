SPECIFICATION Spec
CONSTANTS
    Stage <- LongLines
    MaxKeys = 5
    MaxWrites = 1
    MaxTasks = 6
    NoExit = NoExit
INVARIANTS
    IdleOnlyAtPrompt
    NothingLeftBehind
    ExitCodeOfLastStage
    EofAfterAllData
    FreedReaderQuitEarly
CHECK_DEADLOCK FALSE
