SPECIFICATION Spec
CONSTANTS
  Files = {2, 3, 4, 5}
  Folders = {1}
  Tree <- FolderTree
  Downloads = {4}
  Procs = {p1, p2}
  PageSize = 2
  MaxAttempts = 2
  MaxMoves = 1
  MaxStalls = 1
  MaxGrants = 0
  Gone = Gone
  NoWorker = NoWorker
SYMMETRY Symmetric
INVARIANTS
  TypeOK
  NoReconcileBeforeWalkEnds
  ReconciledIndexIsDrive
  UnmovedFilesStay
PROPERTY
  QueueImplementation
