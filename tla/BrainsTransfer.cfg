SPECIFICATION Spec
CONSTANTS
  MaxInputs = 1
  MaxBargeIns = 1
  MaxQueued = 2
  MaxReprompts = 1
  MaxToolTurns = 1
  MaxSentences = 1
  StartNode = "hello"
  MaxRetries = 2
  Flow <- ExampleFlow
PROPERTY TransferredIsNotHungUp
CHECK_DEADLOCK FALSE
