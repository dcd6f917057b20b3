SPECIFICATION Spec
CONSTANTS
  Ops = {o1, o2, o3}
  NoOp = NoOp
  Free = Free
  Main = Main
CHECK_DEADLOCK FALSE
PROPERTIES
  SignalEndsRun
