SPECIFICATION HistorySpec
CONSTANTS
    ZIP64_BYTES_THR = 100
    ZIP64_ENTRY_THR = 100
    Names = {"n"}
    Bytes <- MCBytes
    ExtraCells <- MCExtraCells
    Options <- StoredOptionsOnly
    Sources <- NoSources
    Comments <- NoComments
    Existing <- CommentedDisks
    Encoders = {"deflated"}
    Calls = {"start_file", "finish"}
    OverflowChecks = TRUE
    U64_MODULUS = 1000
    MaxAlign = 0
    MaxEntries = 2
    MaxWrites = 2
    MaxFaults = 0
INVARIANTS RoundTrip
CHECK_DEADLOCK FALSE
