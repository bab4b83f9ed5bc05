SPECIFICATION FairSpec
CONSTANTS
  c1 = c1
  c2 = c2
  c3 = c3
  Calls = {c1, c2}
  Nobody = Nobody
  Evictor = Evictor
  Watched = {c1}
  Kinds = {"subset", "get"}
  MaxCrashes = 1
INVARIANTS
  OneDownload
  Consistent
  EndsSettled
  CancelStands
PROPERTIES
  CallsEnd
CHECK_DEADLOCK FALSE
