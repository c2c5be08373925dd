CONSTANTS
  Card = {c1}
  NoCard = NoCard
  Caller = {"auto"}
  Evaluator = {e1}
  Budgets <- Plain
  QueueSize = 1
SPECIFICATION Spec
PROPERTY UnresolvedClaimIsKept
CHECK_DEADLOCK FALSE
