SPECIFICATION FairSpec
CONSTANTS
    Stage <- AllStages
    MaxKeys = 4
    MaxWrites = 1
    MaxTasks = 5
    NoExit = NoExit
PROPERTY PromptReturns
CHECK_DEADLOCK FALSE
