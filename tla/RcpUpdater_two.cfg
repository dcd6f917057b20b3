SPECIFICATION Spec
CONSTANTS
  Versions <- OneVersion
  Legacy = Legacy
  Unsupported = Unsupported
  Broken = Broken
  Procs = {p1, p2}
  Configs <- PermissiveConfig
  Free = Free
  NoVersion = NoVersion
  Garbled = Garbled
INVARIANTS
  OneTransaction
PROPERTIES
  ImplementsTransaction
  RecordedIsVerified
CONSTRAINT TwoRuns
SYMMETRY RunsAreAlike
