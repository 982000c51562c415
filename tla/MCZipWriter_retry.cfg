SPECIFICATION Spec
CONSTANTS
    ZIP64_BYTES_THR = 100
    ZIP64_ENTRY_THR = 100
    Names = {"n"}
    Bytes <- MCBytes
    ExtraCells <- MCExtraCells
    Options <- StoredOptionsOnly
    Sources <- NoSources
    Comments <- NoComments
    Existing <- NoDisks
    Encoders = {"deflated"}
    Calls = {"start_file", "write", "finish", "drop"}
    OverflowChecks = TRUE
    U64_MODULUS = 1000
    MaxAlign = 0
    MaxEntries = 1
    MaxWrites = 1
    MaxFaults = 1
INVARIANTS FinishedReadsBack
CHECK_DEADLOCK FALSE
