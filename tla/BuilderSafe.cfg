CONSTANTS
  File <- MCFile
  Scripts <- MCScripts
  CurrentDir <- MCCurrentDir
  Named <- MCNamed
  Memory <- MCMemory
  Words = {"U", "V"}
  Missing <- MCMissing
  MaxModules = 2
SPECIFICATION BuilderSpec
INVARIANTS Parses Complete AttachedToOwn
CHECK_DEADLOCK FALSE
