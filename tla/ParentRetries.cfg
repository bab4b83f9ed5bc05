SPECIFICATION PollersSpec
CONSTANTS
  w1 = w1
  w2 = w2
  sub = sub
  NoOwner = NoOwner
  Actors <- MCActors
  Workers <- MCWorkers
  Submitter = sub
  Shape <- MCShape
  NChunks = 2
  MaxChildren = 4
  MaxInflight = 1
  RetryLimit = 1
  Mortal = {}
  Faults = {"order_error", "user_cancel"}
  Outcomes = {"ok", "rejected", "bad"}
SYMMETRY MCSymmetry
INVARIANTS
  TypeOK
  NoOrphan
  RetriesBounded
  SuccessIsComplete
  RetiresOnlyRefused
  ReservesOnlyWhatIsMissing
PROPERTIES
  StopWins
  TerminalIsPermanent
  KeepsPromise
