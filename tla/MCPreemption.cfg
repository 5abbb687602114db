SPECIFICATION Spec
CONSTANTS
    kMaxLevel = 2
    MaxTasks = 6
    MaxKeys = 4
INVARIANT OnlyStagesRace
CHECK_DEADLOCK FALSE
