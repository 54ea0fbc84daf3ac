CONSTANTS
  d1 = d1
  d2 = d2
  Dialers <- MCDialers
  ListLengths <- MCListLengths
  NoDialer = NoDialer
  MaxNumbers = 2
  MaxConcurrent = 1
SPECIFICATION ControlSpec
INVARIANT RunningIsControllable
CHECK_DEADLOCK FALSE
