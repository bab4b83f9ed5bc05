SPECIFICATION Spec
CONSTANTS
  c1 = c1
  c2 = c2
  c3 = c3
  Calls = {c1}
  Nobody = Nobody
  Evictor = Evictor
  Watched = {c1}
  Kinds = {"subset"}
  MaxCrashes = 0
PROPERTIES
  FailsOnlyTheDead
CHECK_DEADLOCK FALSE
