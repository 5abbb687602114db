SPECIFICATION Spec
CONSTANTS
    Terminal = Terminal
    Subtask = Subtask
    Writer <- Writers
    kRows = 3
    kColumns = 3
    Output = {"x", "NL", "CR", "high"}
    MaxEvents = 5
INVARIANTS
    CursorOnScreen
    ScreenShowsBuffer
    ModifiersFollowKeys
CHECK_DEADLOCK FALSE
