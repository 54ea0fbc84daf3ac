SPECIFICATION Spec
CONSTANTS
  c1 = c1
  c2 = c2
  Sessions <- MCCallIds
  Sources <- MCCallIds
  NoSession = NoSession
  NoSource = NoSource
  MaxDrops = 0
  Diallers = {}
  Operated = {}
  Stoppable = {}
  Faulty = {}
INVARIANT AudioIsolated
CHECK_DEADLOCK FALSE
