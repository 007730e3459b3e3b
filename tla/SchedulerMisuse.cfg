CONSTANTS
  t1 = t1
  t2 = t2
  Timer = {t1, t2}
  NoTimer = NoTimer
  Delays <- NoDelays
  Counts <- AllCounts
  Times = {0, 1}
  Shifts = {}
  MinTime <- MCMinTime
  MaxTime = 0
  MaxRefs = 4
  Misuse = {"neighbour", "clear", "fresh"}
SYMMETRY Symmetry
SPECIFICATION Spec
PROPERTIES RemovedForCause
CHECK_DEADLOCK FALSE
