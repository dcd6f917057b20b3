SPECIFICATION Spec
CONSTANTS
  MaxFrameBytes = 6
  MaxTextChars = 1
  d1 = d1
  d2 = d2
  usbA = usbA
  usbB = usbB
  Dongles = {d1, d2}
  Paths = {usbA, usbB}
  Ports = {ttyACM0, ttyACM1}
  DfuSerial <- SameSerial
  Named <- OneNamed
  Texts <- ThreeTexts
  Broken = Broken
  Configs <- TwoConfigs
  None = None
  MaxMoves = 2
CHECK_DEADLOCK FALSE
INVARIANTS
  TypeOK
PROPERTIES
  ReadIsTrue
  WholeIsRead
  OnlyTheSelected
  NamedIsWritten
  OperationEnds
