SPECIFICATION Spec
CONSTANTS
  MaxInputs = 2
  MaxBargeIns = 1
  MaxQueued = 2
  MaxReprompts = 1
  MaxToolTurns = 1
  MaxSentences = 1
  StartNode = "hello"
  MaxRetries = 2
  Flow <- ExampleFlow
INVARIANT AwaitedSpeechSettles
CHECK_DEADLOCK FALSE
