CONSTANTS
  d1 = d1
  d2 = d2
  a1 = a1
  k1 = k1
  k2 = k2
  Dict = {d1, d2}
  AnyCell = {a1}
  Object = {o1, o2}
  Keys <- MCKeys
  Null = Null
  MaxDepth = 1
  MaxHeld = 2
SYMMETRY Symmetry
SPECIFICATION Spec
INVARIANTS RefsBalanced FaultHasCause
CHECK_DEADLOCK FALSE
