SPECIFICATION Spec
CONSTANTS
  Messages = {1, 2}
  InitialHistory <- OneMessage
  Procs = {p1, p2}
  PageSize = 1
  MaxAttempts = 2
  MaxHistory = 3
  MaxChain = 4
  MaxStalls = 1
  MaxGrants = 0
  NoHistory = NoHistory
  NoMarker = NoMarker
  NoWorker = NoWorker
SYMMETRY Symmetric
INVARIANTS
  TypeOK
  MailIsIndexed
  OneChain
PROPERTIES
  CursorMovesForward
