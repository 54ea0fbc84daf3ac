SPECIFICATION FairSpec
CONSTANTS
  MaxSpeaks = 3
  MaxBargeIns = 1
  BrainAwaits = FALSE
  TextChoices <- MCTextChoices
INVARIANTS TypeOK QueueIsServed OneVoice EchoSuppressed
PROPERTIES SpokenInOrder SpeakSettles BotListensAgain
CHECK_DEADLOCK FALSE
