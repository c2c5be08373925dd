CONSTANTS
  Card = {c1, c2}
  NoCard = NoCard
  Caller = {"auto", "operator"}
  Evaluator = {e1}
  Budgets <- Restarts
  QueueSize = 2
SPECIFICATION FairSpec
PROPERTY TriedWhenDue DeadCardIsReplaced
CHECK_DEADLOCK FALSE
