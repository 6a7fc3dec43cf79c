SPECIFICATION FairSpec
CONSTANTS
    Methods <- CallsProgram
    ClassName <- P
    MaxCount = 2
    MaxFrames = 3
    MaxProfileEntries = 2
    MaxArrayLength = 1
    MaxRuns = 2
    ResumeFrames <- NoFrames
INVARIANTS StackDiscipline MonitorsAccounted InitializedOnceBeforeUse 
PROPERTY Terminates
CHECK_DEADLOCK FALSE
