SPECIFICATION Spec
CONSTANTS
  w1 = w1
  w2 = w2
  sub = sub
  NoOwner = NoOwner
  Actors <- MCActors
  Workers <- MCWorkers
  Submitter = sub
  Shape <- MCShape
  NChunks = 2
  MaxChildren = 4
  MaxInflight = 1
  RetryLimit = 0
  Mortal = {w1, sub}
  Faults = {"order_error", "user_cancel", "wave_cancelled"}
  Outcomes = {"ok", "bad"}
INVARIANTS
  OneOrderPerChunk
  InflightBudget
