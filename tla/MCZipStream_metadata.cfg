SPECIFICATION Spec
CONSTANTS
    ZIP64_BYTES_THR = 5
    ZIP64_ENTRY_THR = 100
    Streams <- GoodStreams
    Decoders = {"deflated", "bzip2"}
    Tolerant = {"deflated"}
    MaxBuffer = 2
    MaxFaults = 0
INVARIANTS MetadataVisited
CHECK_DEADLOCK FALSE
