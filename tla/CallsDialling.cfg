SPECIFICATION Spec
CONSTANTS
  c1 = c1
  c2 = c2
  Sessions <- MCCallIds
  Sources <- MCCallIds
  NoSession = NoSession
  NoSource = NoSource
  MaxDrops = 0
  Diallers = {c1}
  Operated = {}
  Stoppable = {c1, c2}
  Faulty = {c1}
INVARIANTS OneSourcePerSession BindingsAlive SpeaksToWhoItHears LeaksAreVisible
CHECK_DEADLOCK FALSE
