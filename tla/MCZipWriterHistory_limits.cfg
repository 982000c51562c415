SPECIFICATION HistorySpec
CONSTANTS
    ZIP64_BYTES_THR = 2
    ZIP64_ENTRY_THR = 1
    Names = {"n"}
    Bytes <- MCBytes
    ExtraCells <- MCExtraCells
    Options <- LimitOptions
    Sources <- RawSources
    Comments <- LongComments
    Existing <- NoDisks
    Encoders = {"deflated"}
    Calls = {"start_file", "start_file_with_extra_data", "end_local_start_central", "add_symlink", "raw_copy_file", "write", "flush", "set_comment", "finish", "drop"}
    OverflowChecks = TRUE
    U64_MODULUS = 1000
    MaxAlign = 0
    MaxEntries = 2
    MaxWrites = 4
    MaxFaults = 0
INVARIANTS RoundTrip LocalHeadersAgree
CHECK_DEADLOCK FALSE
