SPECIFICATION Spec
CONSTANTS
  a1 = a1
  a2 = a2
  a3 = a3
  s1 = s1
  s2 = s2
  Nobody = Nobody
  Actors = {a1, a2, a3}
  Slots = {s1, s2}
  Attempts = 2
  MaxVersion = 3
SYMMETRY MCSymmetry
INVARIANTS
  CopyIsCurrent
  LossesAreContention
PROPERTY
  IsAtomic
