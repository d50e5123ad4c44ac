SPECIFICATION Spec
CONSTANTS
  Messages = {1, 2}
  InitialHistory <- OneMessage
  Procs = {p1, p2}
  PageSize = 1
  MaxAttempts = 2
  MaxHistory = 2
  MaxChain = 2
  MaxStalls = 1
  MaxGrants = 1
  NoHistory = NoHistory
  NoMarker = NoMarker
  NoWorker = NoWorker
SYMMETRY Symmetric
PROPERTY
  QueueImplementation
