CONSTANTS
  t1 = t1
  t2 = t2
  t3 = t3
  Timer = {t1, t2, t3}
  NoTimer = NoTimer
  Delays <- NoDelays
  Counts <- AllCounts
  Times = {0, 1}
  Shifts = {}
  MinTime <- MCMinTime
  MaxTime = 0
  MaxRefs = 3
  Misuse = {}
SYMMETRY Symmetry
SPECIFICATION Spec
INVARIANTS TypeOK NoFault RefsCover FlagIsForCurrent RemoveTimerRemoves
PROPERTIES Implements
