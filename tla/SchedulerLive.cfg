CONSTANTS
  t1 = t1
  t2 = t2
  Timer = {t1, t2}
  NoTimer = NoTimer
  Delays <- AllDelays
  Counts <- AllCounts
  Times = {}
  Shifts = {1}
  MinTime <- MCMinTime
  MaxTime = 1
  MaxRefs = 3
  Misuse = {}
SPECIFICATION FairSpec
PROPERTIES ThinkReturns DueIsCalled
