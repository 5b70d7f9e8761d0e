\* An open that completes between being found overdue and being reported.
CONSTANTS
    Periods = 2
    Hold = 2
    Prefill = 1
    MaxPushes = 3
    MaxPops = 2
    MaxFailures = 0
SPECIFICATION AudioSpec
INVARIANTS
    WorkingShowsNothing
CHECK_DEADLOCK FALSE
