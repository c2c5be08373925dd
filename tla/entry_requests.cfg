SPECIFICATION Spec
CONSTANTS
  c1 = c1
  c2 = c2
  r1 = r1
  r2 = r2
  w1 = w1
  w2 = w2
  NoKey = NoKey
  Card = {c1}
  Request = {r1, r2}
  Worker = {w1, w2}
  Qty = 1
  MaxCrash = 1
SYMMETRY Symm
INVARIANT TransmissionIsOwned
PROPERTY ImplementsAttempt
