CONSTANTS
  d1 = d1
  d2 = d2
  d3 = d3
  n1 = n1
  n2 = n2
  m1 = m1
  m2 = m2
  s1 = s1
  s2 = s2
  s3 = s3
  u1 = u1
  Name = {n1, n2}
  Descriptor <- MCDescriptor
  Priority <- MCPriority
  Module = {m1, m2}
  Script = {s1, s2, s3}
  UserData = {u1}
  NoDescriptor = NoDescriptor
  NoModule = NoModule
  NoScript = NoScript
  NoUserData = NoUserData
  LastId = 3
  Careless = {"rebuild", "refuse", "byName", "clear", "discard", "early", "late"}
  MaxKinds = 1
SYMMETRY Symmetry
SPECIFICATION Spec
INVARIANTS RefsBalanced UserDataOwned ListInOrder ScriptsOwned HooksOwned FaultHasCause
CHECK_DEADLOCK FALSE
