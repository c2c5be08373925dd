CONSTANTS
  Card = {c1, c2}
  NoCard = NoCard
  Caller = {"auto"}
  Evaluator = {e1}
  Budgets <- Varied
  QueueSize = 1
SPECIFICATION Spec
INVARIANT KeysMatchQueue
PROPERTY LiveCardStaysCurrent MarkedSetupIsSpent ExecutedClaimIsKept
CHECK_DEADLOCK FALSE
