SPECIFICATION Spec
CONSTANTS
  Uploads = {u1, u2}
  Natives = {}
  Requests = {r1, r2}
  Installs = {i1}
  NoOp = NoOp
  NoArtifact = NoArtifact
  MaxStaged = 1
CHECK_DEADLOCK FALSE
INVARIANTS
  TypeOK
  PendingHasFile
  OneFlashPerArtifact
  FileIsOwned
PROPERTIES
  FilesGo
