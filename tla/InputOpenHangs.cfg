\* A cancellation raised while the open of a replacement link hangs.
CONSTANTS
    Usages = {a}
    Modifiers = {}
    Buttons = {}
    Slots = 1
    Positions = {}
    NoPosition = NoPosition
    Relative = Relative
    MaxDelta = 1
    MaxBarriers = 1
    Producers = {u}
    Events <- KeyOnlyEvents
    UserReasons = {"FocusLost"}
    Reconnect = TRUE
    RunMax = 1
    StepMax = 1
    MaxEpoch = 2
    MaxFaults = 2
SPECIFICATION FairSpec
PROPERTIES
    CancelServedDuringOpen
CHECK_DEADLOCK FALSE
