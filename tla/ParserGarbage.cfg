\* Seven bytes: a rejected candidate around another.
CONSTANTS
    Modulus = 4
    ByteValues = {0, 2, 3}
    StreamLength = 7
SPECIFICATION ParserSpec
INVARIANTS
    ReportedOnce
CHECK_DEADLOCK FALSE
