\* Progress of the writer over a reopenable source whose open may hang; three
\* requests for device information across a lost link and changes of CapsLock;
\* a pipeline whose opens may never return; two chrome frames, a video frame
\* and a frame that cannot be acquired; two captures before the viewer ends.
CONSTANTS
    Usages = {a}
    Modifiers = {}
    Buttons = {}
    Slots = 1
    Positions = {}
    NoPosition = NoPosition
    Relative = Relative
    MaxDelta = 1
    MaxBarriers = 1
    Producers = {u}
    Events <- PressesAndReleases
    UserReasons = {"FocusLost"}
    Reconnect = TRUE
    RunMax = 1
    StepMax = 1
    MaxEpoch = 2
    MaxFaults = 2
    None = None
    Sizes = {small, large}
    MaxBuilds = 2
    MaxFrames = 1
    MaxSkips = 1
    MaxCaptures = 2
    MaxPastes = 3
    MaxToggles = 2
    MaxOutages = 1
    Formats = {hd, sd}
    FirstFormat = hd
    RefusedFormats = {}
    NoFormat = NoFormat
    MinFrames = 1
    RestartLimit = 0
    MaxStalls = 1
    MaxRequests = 1
SPECIFICATION MCSpec
INVARIANTS
    StatusHonest
PROPERTIES
    ShutdownCompletes
    CancelServed
    LinkRestored
    RequestsAnswered
    StopCompletes
    DeviceComesBack
    ChromeShown
    OrderlyEnd
CHECK_DEADLOCK FALSE
