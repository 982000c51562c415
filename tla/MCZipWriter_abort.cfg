SPECIFICATION Spec
CONSTANTS
    ZIP64_BYTES_THR = 100
    ZIP64_ENTRY_THR = 100
    Names = {"n"}
    Bytes <- MCBytes
    ExtraCells <- MCExtraCells
    Options <- CryptOptions
    Sources <- NoSources
    Comments <- NoComments
    Existing <- NoDisks
    Encoders = {"deflated"}
    Calls = {"start_file_with_extra_data", "end_extra_data", "end_local_start_central", "write", "finish", "drop"}
    OverflowChecks = TRUE
    U64_MODULUS = 1000
    MaxAlign = 0
    MaxEntries = 2
    MaxWrites = 2
    MaxFaults = 0
INVARIANTS NoAbort
CHECK_DEADLOCK FALSE
