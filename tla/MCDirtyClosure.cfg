SPECIFICATION FairSpec
CONSTANTS
  N <- MCN
  Graphs <- MCGraphs
  SeedSets <- MCSeedSets
  MaxSizes <- MCMaxSizes
INVARIANTS ClosureComplete NoFalseEscalation IterationsBounded
 
CHECK_DEADLOCK FALSE
