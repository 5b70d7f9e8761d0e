\* A source that reopens: one key, a button and relative motion of two reports,
\* two producers over a queue of one barrier.  A fixed link: two keys over a
\* one-slot report, a button and absolute motion, one producer.
CONSTANTS
    Usages = {a, b, c}
    Modifiers = {}
    Buttons = {left}
    Slots = 1
    Positions = {p}
    NoPosition = NoPosition
    Relative = Relative
    MaxDelta = 2
    MaxBarriers = 1
    Producers = {u, v}
    Events <- ReopeningEvents
    UserReasons = {"FocusLost"}
    Reconnect = TRUE
    RunMax = 2
    StepMax = 1
    MaxEpoch = 3
    MaxFaults = 2
    FixedKeys = {a, b}
    FixedProducers = {w}
    FixedEpoch = 2
    FixedFaults = 1
SPECIFICATION MCSpec
SYMMETRY Symmetry
INVARIANTS
    QueueBounded
    ReleaseClears
    WireMatchesHeld
    NoLostRelease
    EngagedMeansReleased
    NoReplay
    PromptRelease
    ReleaseClearsKeys
    ShutdownHonest
PROPERTIES
    NoPromotion
    ShutdownReasonKept
    RecaptureAfterReconnect
    ImplementsBarrier
CHECK_DEADLOCK FALSE
