SPECIFICATION Spec
CONSTANTS
  MaxDfuVersion = 2147483647
  Releases <- CandidateAndFinal
  Policies <- Channels
  NoLine = NoLine
  MaxBuild = 2
  MaxCommits = 2
  Old = Old
  New = New
CHECK_DEADLOCK FALSE
INVARIANTS
  TypeOK
  BranchIsWhole
  AddonIsServed
PROPERTIES
  HandedIsNamed
  UpdatesAreUpgrades
  OffersTheNewest
  InstallsTheNewest
