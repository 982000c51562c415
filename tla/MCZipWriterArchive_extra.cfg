SPECIFICATION ObservedSpec
CONSTANTS
    ZIP64_BYTES_THR = 100
    ZIP64_ENTRY_THR = 2
    Names = {"n"}
    Bytes <- MCBytes
    ExtraCells <- MCBadExtraCells
    Options <- ExtraOptions
    Sources <- NoSources
    Comments <- NoComments
    Existing <- NoDisks
    Encoders = {"deflated"}
    Calls = {"start_file", "start_file_with_extra_data", "start_file_aligned", "end_extra_data", "end_local_start_central", "write", "finish", "drop"}
    OverflowChecks = TRUE
    U64_MODULUS = 1000
    MaxAlign = 4
    MaxEntries = 2
    MaxWrites = 3
    MaxFaults = 0
INVARIANTS FinishedReadsBack NoPanic
PROPERTIES ImplementsArchive DataAligned
CHECK_DEADLOCK FALSE
