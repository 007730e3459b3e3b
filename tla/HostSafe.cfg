CONSTANTS
  m1 = m1
  m2 = m2
  e1 = e1
  e2 = e2
  e3 = e3
  a1 = a1
  a2 = a2
  Manager = {m1, m2}
  Event = {e1, e2, e3}
  Argument = {a1, a2}
  Symbol <- MCSymbol
  Category <- MCCategory
  Name <- MCName
  Mask <- MCMask
  Namespace <- MCNamespace
  ScriptMask <- MCScriptMask
  Null = Null
  MaxEngines = 2
  MaxNested = 2
SYMMETRY MCSymmetry
SPECIFICATION Spec
INVARIANTS NothingDangles RefsBalanced FoundByName
CHECK_DEADLOCK FALSE
