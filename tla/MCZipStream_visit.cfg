SPECIFICATION Spec
CONSTANTS
    ZIP64_BYTES_THR = 5
    ZIP64_ENTRY_THR = 100
    Streams <- MCStreams
    Decoders = {"deflated", "bzip2"}
    Tolerant = {"deflated"}
    MaxBuffer = 2
    MaxFaults = 1
INVARIANTS TypeOK Positioned EndIsVerified AgreesWithDirectory
PROPERTIES Terminates
CHECK_DEADLOCK FALSE
