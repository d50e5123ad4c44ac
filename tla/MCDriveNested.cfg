SPECIFICATION Spec
CONSTANTS
  Files = {3, 4, 5}
  Folders = {1, 2}
  Tree <- NestedTree
  Downloads = {4}
  Procs = {p1, p2}
  PageSize = 1
  MaxAttempts = 2
  MaxMoves = 1
  MaxStalls = 1
  MaxGrants = 0
  Gone = Gone
  NoWorker = NoWorker
SYMMETRY Symmetric
INVARIANTS
  TypeOK
  NoReconcileBeforeWalkEnds
  ReconciledIndexIsDrive
  UnmovedFilesStay
