\* Two replies late at once.
CONSTANTS
    Commands = {info, keys}
    GetInfo = info
    None = None
    MaxTransactions = 4
    MaxBridgeFaults = 2
    MaxUnasked = 0
SPECIFICATION LinkSpec
INVARIANTS
    VeryLateReplyIsAPush
CHECK_DEADLOCK FALSE
