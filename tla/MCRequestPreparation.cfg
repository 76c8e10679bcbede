SPECIFICATION Spec
CONSTANTS
  a = a
  b = b
  Processes = {a, b}
  Absent = Absent
  NoIdentity = NoIdentity
  CacheVersion = 2
  Disturbances <- MCDisturbances
  Worlds <- MCWorlds
  Replacements <- MCReplacements
  InitialCaches <- MCInitialCaches
  PreflightError <- MCPreflightError
SYMMETRY Swap
INVARIANTS
  PreparationSound
  
  CacheIsWholeOrAbsent
  CommandsAgree
