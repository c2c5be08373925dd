SPECIFICATION RaceSpec
CONSTANTS
  c1 = c1
  c2 = c2
  r1 = r1
  w1 = w1
  w2 = w2
  NoKey = NoKey
  Card = {c1, c2}
  Request = {r1}
  Worker = {w1, w2}
  Qty = 1
  MaxCrash = 0
SYMMETRY Symm
PROPERTY OnlyARaceSendsASecond
CONSTRAINT SomeUnsent
