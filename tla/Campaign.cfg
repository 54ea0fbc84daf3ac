CONSTANTS
  d1 = d1
  d2 = d2
  Dialers <- MCDialers
  ListLengths <- MCListLengths
  NoDialer = NoDialer
  MaxNumbers = 2
  MaxConcurrent = 1
SPECIFICATION FairControlSpec
INVARIANTS
  ControlTypeOK
  SlotsAccounted
  ConcurrencyRespected
  ResultsTruthful
  CompletionIsTotal
  SlotIsNotStale
PROPERTIES
  DialsOnlyWhileRunning
  CampaignProgresses
CHECK_DEADLOCK FALSE
