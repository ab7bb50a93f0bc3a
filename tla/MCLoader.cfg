SPECIFICATION Spec
CONSTANTS
  Caller = {c1, c2}
  Key <- MCKey
  Driver = "database/sql/driver"
  Path <- MCKey
  Canonical <- MCCanonical
  File = {f1, f2}
  Tool = Tool
  Broken = Broken
  NoPath = NoPath
INVARIANTS TypeOK OneWorker SyntaxComplete CanonicalImport
PROPERTIES Termination ImplementsOnce
