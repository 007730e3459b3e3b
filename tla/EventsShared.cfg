CONSTANTS
  e1 = e1
  e2 = e2
  f1 = f1
  f2 = f2
  f3 = f3
  m1 = m1
  m2 = m2
  Event = {e1, e2}
  Function = {f2, f3}
  Delegate = {f3}
  Module = {m1, m2}
  ModuleOf <- MCModuleOf
  Rank <- MCRank
  NoModule = NoModule
  NoFunction = NoFunction
  Bulk = {"module"}
  MaxDepth = 2
  MaxCalls = 1
SPECIFICATION Spec
INVARIANTS RefsBalanced
