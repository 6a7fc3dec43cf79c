SPECIFICATION Spec
CONSTANTS
    Sources <- MCSources
    Compile <- MCCompile
    IntBits = 4
    ByteMax = 3
    MaxRegs = 200
    MaxFrames = 4
    MaxPrinted = 20
INVARIANTS
    RunsAsJava
    
    RefusalsDiagnosed
PROPERTIES
    FrontendTerminates
