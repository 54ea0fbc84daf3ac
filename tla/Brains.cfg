SPECIFICATION Spec
CONSTANTS
  MaxInputs = 2
  MaxBargeIns = 1
  MaxQueued = 2
  MaxReprompts = 1
  MaxToolTurns = 1
  MaxSentences = 2
  StartNode = "hello"
  MaxRetries = 2
  Flow <- ExampleFlow
INVARIANT BrainsTypeOK
CHECK_DEADLOCK FALSE
INVARIANT OneTurn
INVARIANT IdleIsTimed
INVARIANT FlowIsSequential
PROPERTY BusyBrainComesBack
PROPERTY DeadCallQuiesces
PROPERTY MenuMovesOn
