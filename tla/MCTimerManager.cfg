SPECIFICATION Spec
CONSTANTS
    kTaskTimerPeriod = 2
    RepeatPeriod = 3
    Value = {0, 1, 2}
    MaxTick = 7
INVARIANTS
    NoOverdueTimer
    PreemptionIsPeriodic
    MessagesInOrder
CHECK_DEADLOCK FALSE
