\* An answer already on its way when a paste asks.
CONSTANTS
    MaxPastes = 2
    MaxToggles = 1
    MaxOutages = 0
SPECIFICATION Spec
INVARIANTS
    FreshReading
CHECK_DEADLOCK FALSE
