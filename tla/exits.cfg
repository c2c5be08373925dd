CONSTANTS
  Card = {c1, c2}
  Worker = {w1, w2}
  Rec = rec
  ExitSlot = {x1}
  StopSlot = {s1, s2}
  FlatSlot = {f1}
  Qty = 2
  Scenes <- Meeting
  NoCard = NoCard
  NoSlot = NoSlot
SPECIFICATION Spec
INVARIANT TypeOK AbsorbedOnce SoldIsClosed OrderIsTracked DecidedOnce
PROPERTY StopIsSingle SentOnce
SYMMETRY Names
CHECK_DEADLOCK FALSE
