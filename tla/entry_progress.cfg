SPECIFICATION FairSpec
CONSTANTS
  c1 = c1
  c2 = c2
  r1 = r1
  r2 = r2
  w1 = w1
  w2 = w2
  NoKey = NoKey
  Card = {c1}
  Request = {r1}
  Worker = {w1}
  Qty = 2
  MaxCrash = 1
INVARIANTS TypeOK SettledIsOver RowBacked ExecutedIsBooked
PROPERTIES HoldingIsNoticed UnsentIsRetired
