SPECIFICATION Spec
CONSTANTS
  Deps = {0, 1}
  Nodes = {0}
  Regions = {0}
  Methods = {m1, m2}
  Invalid = 9
CONSTRAINT Bounded
INVARIANTS TypeOK UnsharedKeysExact NothingStale
PROPERTY ImplementsMap
