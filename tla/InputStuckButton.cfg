\* A reopenable source and an absolute pointer with one button.
CONSTANTS
    Usages = {}
    Modifiers = {}
    Buttons = {left}
    Slots = 1
    Positions = {p}
    NoPosition = NoPosition
    Relative = Relative
    MaxDelta = 1
    MaxBarriers = 1
    Producers = {u}
    Events <- PointerEvents
    UserReasons = {"FocusLost"}
    Reconnect = TRUE
    RunMax = 1
    StepMax = 1
    MaxEpoch = 3
    MaxFaults = 2
SPECIFICATION Spec
INVARIANTS
    ReleaseClears
CHECK_DEADLOCK FALSE
