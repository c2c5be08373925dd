CONSTANTS
  Card = {c1}
  Worker = {w1}
  Rec = rec
  ExitSlot = {x1}
  StopSlot = {s1, s2, s3}
  FlatSlot = {f1}
  Qty = 2
  Scenes <- Covering
  NoCard = NoCard
  NoSlot = NoSlot
SPECIFICATION FairSpec
PROPERTY BookCatchesUp NakedIsNoticed
CHECK_DEADLOCK FALSE
