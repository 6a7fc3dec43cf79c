SPECIFICATION Spec
CONSTANTS
    Programs <- MCPrograms
    Budget <- MCBudget
    PlanIdBase = 4
    FuseOption = TRUE
    PollOption = TRUE
    IntBits = 3
    MaxFrames = 5
    MaxDepth = 3
    MaxMonitors = 2
    MaxCodeBytes = 70
INVARIANTS
    TiersAgree
    VerifiedTypesHold
    NoOrphanMonitor
    DepthBounded
    PlansSound
PROPERTIES
    EngineTerminates
