SPECIFICATION Spec
CONSTANTS
    Objs = {g, o}
    Null = null
    Global = g
    Keys = {x, y}
    SiteKeys = {x}
    Values = {undefined, v}
    Undefined = undefined
    Hole = hole
    Stores = {v}
    Targets = {o}
    Attrs <- AllAttrs
    EffectAttrs <- OnlyReadOnly
    MaxSlots = 2
    MaxSteps = 4
INVARIANTS
    ChainsEnd
    
    
    ProxyHonest
CHECK_DEADLOCK FALSE
