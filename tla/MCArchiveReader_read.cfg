SPECIFICATION Spec
CONSTANTS
    ZIP64_BYTES_THR = 100
    ZIP64_ENTRY_THR = 100
    AES_BLOCK_SIZE = 2
    Decoders = {"deflated"}
    Tolerant = {"deflated"}
    Disks <- MCDisks
    Clones = {c1, c2}
    Names = {"n", "absent"}
    Passwords = {"right", "wrong", "lucky"}
    ShortReads = {TRUE, FALSE}
    OverflowChecks = TRUE
    U64_MODULUS = 1000
    DecoderBuffer = 2
    MaxBuffer = 3
    MaxFaults = 1
INVARIANTS TypeOK ReadsAreFaithful EndIsVerified SoundEntriesReadWhole RawIsVerbatim NoPanic DataStartKnown
SYMMETRY Symmetry
CHECK_DEADLOCK FALSE
