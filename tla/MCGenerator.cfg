SPECIFICATION Spec
CONSTANTS
  NoType = NoType
  BadPOD = BadPOD
  NoJob = NoJob
  Type <- MCType
  Part <- MCPart
  Programs <- MCPrograms
INVARIANTS TypeOK NeedsAccounted MethodOnce HandWrittenKept MethodCallsDefined EmittedAsReachable
PROPERTIES Termination ImplementsWorkSet
