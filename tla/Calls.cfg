SPECIFICATION FairSpec
CONSTANTS
  c1 = c1
  c2 = c2
  Sessions <- MCCallIds
  Sources <- MCCallIds
  NoSession = NoSession
  NoSource = NoSource
  MaxDrops = 1
  Diallers = {}
  Operated = {c2}
  Stoppable = {}
  Faulty = {}
INVARIANT CallsTypeOK
PROPERTY CallerGoneIsCleaned
CHECK_DEADLOCK FALSE
