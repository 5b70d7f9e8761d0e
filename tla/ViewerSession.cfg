\* A user, a menu, a paste and an input path that ends sessions by itself;
\* both audio workers through a failure, the prefill and the close.
CONSTANTS
    Left = "Left"
    Enter = "Enter"
    Plain = {"Tab"}
    Bodies <- SmallBodies
    Shortcuts <- SmallShortcuts
    CanLock = TRUE
    Periods = 2
    Hold = 2
    Prefill = 1
    MaxPushes = 1
    MaxPops = 1
    MaxFailures = 1
SPECIFICATION MCSpec
INVARIANTS
    NothingStuck
    PasteTypesAlone
    HostControlsReturned
PROPERTIES
    SessionFollowsPath
    WorkersEnd
CHECK_DEADLOCK FALSE
