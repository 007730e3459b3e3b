CONSTANTS
  o1 = o1
  o2 = o2
  f1 = f1
  d1 = d1
  v1 = v1
  v2 = v2
  v3 = v3
  c1 = c1
  c2 = c2
  l1 = l1
  l2 = l2
  Object = {o1, o2, f1, d1, v1, v2, v3}
  Made = {o1, f1, d1, v1}
  Class <- MCClass
  Function <- MCFunction
  Params <- MCParams
  Returns <- MCReturns
  Passed <- MCPassed
  Numbers <- MCNumbers
  Context = {c1, c2}
  OwnContext = c1
  List = {l1, l2}
  Span <- MCSpan
  Garbage = Garbage
  Null = Null
  MaxDepth = 2
  MaxCalls = 3
SYMMETRY MCSymmetry
SPECIFICATION Spec
INVARIANTS RefsBalanced Delivered FaultHasCause FoundIsCallable
CHECK_DEADLOCK FALSE
