SPECIFICATION FairSpec
CONSTANTS
    kMaxLevel = 1
    MaxTasks = 4
    MaxMsgs = 1
    Msg = {m}
    ExitCode = {code}
    NoExit = NoExit
INVARIANTS
    TypeOK
    RunQueuesExact
    CpuIsCurrent
    HighestLevelRuns
    NoLostWakeup
    FinishHandshake
PROPERTIES
    ImplementsPriorityScheduler
    NoStarvation
