SPECIFICATION Spec
CONSTANTS
  Versions <- OneVersion
  Legacy = Legacy
  Unsupported = Unsupported
  Broken = Broken
  Procs = {p1}
  Configs <- DefaultConfig
  Free = Free
  NoVersion = NoVersion
  Garbled = Garbled
INVARIANTS
  HandoverIsStable
