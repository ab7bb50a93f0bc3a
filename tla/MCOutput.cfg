SPECIFICATION Spec
CONSTANTS
  Type = {a, b, c}
  Unsupported = {c}
  NoFile = NoFile
  MaxEdits = 2
  MaxFaults = 2
INVARIANTS TypeOK RefusalKeepsFile DoneIsRight
PROPERTY Recovery
