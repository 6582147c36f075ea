SPECIFICATION Spec
CONSTANTS
  Workers = {w1, w2}
  Ops = {o1, o2}
  NoOp = NoOp
INVARIANTS TypeOK RunsOnce SettledWhenClosed FinishDrains
PROPERTIES StopEnds OperationsSettle
CHECK_DEADLOCK FALSE
