SPECIFICATION Spec
CONSTANTS
    Methods <- SyncProgram
    ClassName <- P
    MaxCount = 2
    MaxFrames = 3
    MaxProfileEntries = 2
    MaxArrayLength = 1
    MaxRuns = 2
    ResumeFrames <- NoFrames
INVARIANT SynchronizedHeld
CHECK_DEADLOCK FALSE
