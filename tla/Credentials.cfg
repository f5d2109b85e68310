SPECIFICATION Spec
CONSTANTS
  p1 = p1
  p2 = p2
  i1 = i1
  i2 = i2
  None = None
  Dead = Dead
  Procs = {p1, p2}
  Editors = {p1}
  Ids = {i1, i2}
  Passwords = {"old", "new"}
  Canonical <- CanonicalDocument
  Legacy <- LegacyDocument
  Faults = {"crash", "io", "helper"}
  MaxCalls = 2
CHECK_DEADLOCK FALSE
INVARIANTS
  MigrationKeeps
  MemoryIsStored
  
