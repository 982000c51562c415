SPECIFICATION Spec
CONSTANTS
    Archives <- MCArchives
    Trees <- MCTrees
    Directory <- MCDirectory
    MaxFaults = 1
INVARIANTS TypeOK StaysInside EntriesDelivered ModesApplied PlainArchivesExtract ExtractorsAgree
CHECK_DEADLOCK FALSE
