CONSTANTS
  Bar <- Prints
  NoBar = NoBar
  Level = 20
  Band = 5
  Buffer = 2
  Cent = 2
  CostBps = 300
  Pdhs = {24, 41}
  Timeout = 4
  Ttl = 2
  Deadline = 6
  Last = 7
  Afters = {0, 1}
SPECIFICATION Spec
INVARIANTS SetupIsSound ConfirmedIsAccepted PhaseIsTrue
CHECK_DEADLOCK FALSE
