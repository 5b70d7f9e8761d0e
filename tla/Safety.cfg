\* Two commands, one of which the device also pushes; up to three faults.
\* Every stream of seven small bytes.  Orders of at most two words or lines.
\* Two dongles and two foreign devices behind one hub.  A shot that skips one
\* frame and gives up on the fourth at another size.  Losses, stalls and
\* mismatched frames in a pipeline of either kind.  Three mapped buffers.  Both
\* audio workers through a failure of either side and the corrections of the ring.
CONSTANTS
    Commands = {info, keys}
    GetInfo = info
    None = None
    MaxTransactions = 5
    MaxBridgeFaults = 3
    MaxUnasked = 1
    Modulus = 4
    ByteValues = {0, 1, 2, 3}
    StreamLength = 7
    Orders <- SmallOrders
    OnBoard <- SmallBoard
    Letters <- SmallLetters
    MaxLinkFaults = 2
    Dongles = {"one", "two"}
    Foreigns = {"foreign"}
    VideoDevice <- SmallVideo
    SerialDevice <- SmallSerial
    PeerDevice <- SmallPeer
    Devnum <- SmallDevnum
    InternalHubs <- SmallHubs
    Nothing = Nothing
    MaxUnprobed = 2
    Skip = 1
    RestartAfter = 2
    GiveUpAfter = 4
    MaxCalls = 6
    Formats = {hd}
    FirstFormat = hd
    RefusedFormats = {}
    NoFormat = NoFormat
    MinFrames = 1
    RestartLimit = 1
    MaxFrames = 4
    MaxFaults = 1
    MaxStalls = 1
    MaxRequests = 0
    BufferCount = 3
    Periods = 2
    Hold = 2
    Prefill = 1
    MaxPushes = 3
    MaxPops = 2
    MaxFailures = 1
SPECIFICATION MCSpec
INVARIANTS
    NoStaleAck
    LossCostsOneMore
    FramesRecovered
    ReleasedOrReported
    TypedAsWritten
    NeverGuesses
    ShotHonest
    FramesAccounted
    WatchdogBounded
    StreamIntact
    PeriodsAccounted
PROPERTIES
    FramesMoveForward
    CountersMoveForward
CHECK_DEADLOCK FALSE
