SPECIFICATION Spec
CONSTANTS
  Versions <- TwoVersions
  Legacy = Legacy
  Unsupported = Unsupported
  Broken = Broken
  Procs = {p1}
  Configs <- AllConfigs
  Free = Free
  NoVersion = NoVersion
  Garbled = Garbled
INVARIANTS
  TypeOK
  RadioOwnership
  NoForgottenOutage
  RecordCurrent
PROPERTIES
  ImplementsTransaction
  RecordedIsVerified
  NativeDowngradeNeedsRecord
