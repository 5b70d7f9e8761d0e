\* A close between a waiter's look at the ring and its sleep.
CONSTANTS
    Periods = 2
    Hold = 2
    Prefill = 1
    MaxPushes = 3
    MaxPops = 2
    MaxFailures = 0
SPECIFICATION AudioSpec
INVARIANTS
    CloseWakes
CHECK_DEADLOCK FALSE
