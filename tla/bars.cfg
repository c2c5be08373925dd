CONSTANTS
  Windows = 2
  Length = 2
  Versions = 2
  Overlap = 1
  Scenes <- Days
  Surge <- Jumps
SPECIFICATION FairSpec
INVARIANT FreshIsHeard
PROPERTY MinutesNeverRegress BreakoutIsSeen
CHECK_DEADLOCK FALSE
