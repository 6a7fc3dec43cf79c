SPECIFICATION Spec
CONSTANTS
  MaxNodes = 3
  MaxInputs = 2
  MaxEpoch = 2
  Strays <- MCNoStrays
INVARIANTS UsesSound UsesComplete LogOrdered
PROPERTY ReplacedUnread
