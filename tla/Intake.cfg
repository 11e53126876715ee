SPECIFICATION Spec
CONSTANTS
  Letter = w
  Newline = nl
  Return = cr
  Limit = 1
  Chunk = 2
  MaxNet = 2
  Window <- MCWindow
  Threshold <- MCThreshold
  Burst <- MCBurst
INVARIANTS BufferBounded WarnsOfTooMany
PROPERTIES ImplementsFraming BegunIsSettled
