SPECIFICATION Spec
CONSTANTS
  NoType = NoType
  BadPOD = BadPOD
  NoJob = NoJob
  Type <- MCType
  Part <- MCPart
  Programs <- Hidden
INVARIANT NamedCallsDefined

