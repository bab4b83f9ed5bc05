SPECIFICATION FairSpec
CONSTANTS
  p1 = p1
  p2 = p2
  Processes = {p1, p2}
  Nobody = Nobody
  NoFile = NoFile
  Junk = Junk
  Locations = {1, 2}
  Size = 2
  Faults <- ApartFaults
INVARIANTS
  PublishedIsWhole
  Vouched
PROPERTIES
  Delivered
CHECK_DEADLOCK FALSE
