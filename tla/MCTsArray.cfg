SPECIFICATION Spec
CONSTANTS
  Smis = {s}
  Doubles = {d}
  Others = {undefined}
  Undefined = undefined
  Hole = hole
  MaxDense = 2
  MaxArrayLength = 3
  Indices = {0, 1, 2}
  LengthArgs <- Lengths
  FromArgs <- Froms
  CallbackValues = {d, undefined}
  LengthCap = 3
  MaxVector = 3
  MaxCallbackWrites = 1
INVARIANTS  ResultsGrowInStep CopiesExact
PROPERTIES KindMonotone 
