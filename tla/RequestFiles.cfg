SPECIFICATION Spec
CONSTANTS
  p1 = p1
  p2 = p2
  p3 = p3
  r1 = r1
  r2 = r2
  NoPath = NoPath
  Requests = {r1, r2}
  Processes <- Three
  Duties <- ServeDuties
  MaxNames = 2
  MaxClaims = 1
  Losable = FALSE
  Mortal = {p1}
INVARIANTS
  EntryHasFile
  NoDeadFiles
PROPERTIES
  KeepsPromise
