CONSTANTS
  a1 = a1
  a2 = a2
  o1 = o1
  o2 = o2
  Array <- MCArray
  Object = {o1, o2}
  Null = Null
  Rank <- MCRank
  Kinds = {"primitive", "handle", "object"}
  Word = 8
  Header = 2
  ElementSize <- MCElementSize
  MaxLen <- MCMaxLen
  MaxDepth = 2
  MaxCalls = 1
SPECIFICATION Spec
INVARIANTS RefsBalanced SortsElements FaultHasCause
PROPERTIES InsertsWhole
CHECK_DEADLOCK FALSE
