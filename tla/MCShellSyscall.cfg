SPECIFICATION Spec
CONSTANTS
    Stage <- AppStages
    MaxKeys = 3
    MaxWrites = 1
    MaxTasks = 4
    NoExit = NoExit
INVARIANT NoSleepInSyscall
CHECK_DEADLOCK FALSE
