SPECIFICATION HistorySpec
CONSTANTS
    ZIP64_BYTES_THR = 100
    ZIP64_ENTRY_THR = 100
    Names = {"n"}
    Bytes <- MCBytes
    ExtraCells <- MCExtraCells
    Options <- FaultOptions
    Sources <- RawSources
    Comments <- NoComments
    Existing <- PlainDisks
    Encoders = {"deflated"}
    Calls = {"start_file", "start_file_with_extra_data", "end_extra_data", "end_local_start_central", "add_symlink", "raw_copy_file", "write", "flush", "finish", "drop"}
    OverflowChecks = FALSE
    U64_MODULUS = 1000
    MaxAlign = 0
    MaxEntries = 2
    MaxWrites = 1
    MaxFaults = 1
INVARIANTS RoundTrip DirectoryReads LastFileExists GetPlainSafe
PROPERTIES SealedBytesUntouched ClosedIsFinal
CHECK_DEADLOCK FALSE
