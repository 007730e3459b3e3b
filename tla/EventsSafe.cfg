CONSTANTS
  f1 = f1
  f2 = f2
  f3 = f3
  m1 = m1
  m2 = m2
  e1 = e1
  e2 = e2
  Event = {e1}
  Function = {f1, f2, f3}
  Delegate = {}
  Module = {m1, m2}
  ModuleOf <- MCModuleOf
  Rank <- MCRank
  NoModule = NoModule
  NoFunction = NoFunction
  Bulk = {"module", "all"}
  MaxDepth = 3
  MaxCalls = 1
SPECIFICATION FairSpec
INVARIANTS ListsInOrder EachHookOnce StopsWithModule
PROPERTIES Implements TriggerEnds
