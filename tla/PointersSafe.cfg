CONSTANTS
  p1 = p1
  p2 = p2
  q1 = q1
  q2 = q2
  h1 = h1
  o1 = o1
  o2 = o2
  o3 = o3
  Pointer = {p1, p2, q1, q2, h1}
  Object = {o1, o2, o3}
  Kind <- MCKind
  Null = Null
  MaxLoose = 2
  MaxDepth = 2
SYMMETRY MCSymmetry
SPECIFICATION Spec
INVARIANTS RefsBalanced NoFault
PROPERTIES Implements
CHECK_DEADLOCK FALSE
