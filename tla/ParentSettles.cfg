SPECIFICATION FairSpec
CONSTANTS
  w1 = w1
  w2 = w2
  sub = sub
  NoOwner = NoOwner
  Actors <- WaveActors
  Workers <- OneWorker
  Submitter = sub
  Shape <- MCShape
  NChunks = 2
  MaxChildren = 5
  MaxInflight = 1
  RetryLimit = 1
  Mortal = {sub}
  Faults = {"user_cancel", "wave_cancelled", "order_error"}
  Outcomes = {"ok", "rejected"}
PROPERTIES
  ParentSettles
  StraysAreSwept
