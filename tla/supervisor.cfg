SPECIFICATION FairSpec
CONSTANTS
  p1 = p1
  p2 = p2
  o1 = o1
  o2 = o2
  l1 = l1
  l2 = l2
  None = None
  Poller = {p1}
  Operator = {o1}
  LoopTask = {l1, l2}
INVARIANTS SingleFlight NoLostWakeup LoopIsOne
PROPERTIES JoinedIsAnswered VerifiedSelection JoinersReturn LoopKeepsTrying
