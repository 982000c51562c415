SPECIFICATION ObservedSpec
CONSTANTS
    ZIP64_BYTES_THR = 100
    ZIP64_ENTRY_THR = 100
    Names = {"n"}
    Bytes <- MCBytes
    ExtraCells <- MCExtraCells
    Options <- EntryOptions
    Sources <- RawSources
    Comments <- SomeComments
    Existing <- PlainDisks
    Encoders = {"deflated"}
    Calls = {"start_file", "add_directory", "add_symlink", "write", "end_extra_data", "raw_copy_file", "set_comment", "finish", "drop"}
    OverflowChecks = TRUE
    U64_MODULUS = 1000
    MaxAlign = 0
    MaxEntries = 2
    MaxWrites = 2
    MaxFaults = 0
INVARIANTS TypeOK FinishedReadsBack LocalHeadersAgree NoPanic
PROPERTIES ImplementsArchive
CHECK_DEADLOCK FALSE
