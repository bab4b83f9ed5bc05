SPECIFICATION FairSpec
CONSTANTS
  p1 = p1
  p2 = p2
  p3 = p3
  r1 = r1
  r2 = r2
  NoPath = NoPath
  Requests = {r1, r2}
  Processes <- Two
  Duties <- FollowDuties
  MaxNames = 1
  MaxClaims = 2
  Losable = TRUE
  Mortal = {p1}
PROPERTIES
  Settled
