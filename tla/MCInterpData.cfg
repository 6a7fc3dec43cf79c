SPECIFICATION Spec
CONSTANTS
    Methods <- DataProgram
    ClassName <- P
    MaxCount = 2
    MaxFrames = 3
    MaxProfileEntries = 2
    MaxArrayLength = 1
    MaxRuns = 2
    ResumeFrames <- DataFrames
INVARIANTS TypeOK CachesCoherent ProfilesConsistent ElementsFit
CHECK_DEADLOCK FALSE
