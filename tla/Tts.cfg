SPECIFICATION FairSpec
CONSTANTS
  MaxUtterances = 3
  Lengths <- MCLengths
  FrameUnits = 2
  MaxCancels = 2
INVARIANTS TypeOK DoneMeansPlayed ActiveWhilePlaying FramesUnmixed
PROPERTIES ImplementsPlayer EveryDoneReported
CHECK_DEADLOCK FALSE
