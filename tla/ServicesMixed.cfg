SPECIFICATION Spec
CONSTANTS
  None = None
  Requests <- MCRequests
  SessionOf <- MCSessionOf
  MaxClients = 2
  MaxLosses = 2
  Services = 2
  MaxRetries = 2
  MaxChannel = 2
  MaxChunks = 3
  MaxBreaks = 3
  Restarts <- MCRestarts
  NoProcess = NoProcess
  MaxPolls = 2
  MaxTicks = 2
INVARIANT ChunksAreItsOwn
CHECK_DEADLOCK FALSE
