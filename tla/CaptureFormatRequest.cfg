\* A format the driver refuses, then one it gives.
CONSTANTS
    Formats = {hd, odd}
    FirstFormat = hd
    RefusedFormats = {odd}
    NoFormat = NoFormat
    MinFrames = 1
    RestartLimit = 0
    MaxFrames = 0
    MaxFaults = 0
    MaxStalls = 0
    MaxRequests = 2
SPECIFICATION FairSpec
PROPERTIES
    RequestServed
CHECK_DEADLOCK FALSE
