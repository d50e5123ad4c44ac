SPECIFICATION FairSpec
CONSTANTS
  Files = {2, 3, 4, 5}
  Folders = {1}
  Tree <- FolderTree
  Downloads = {4}
  Procs = {p1}
  PageSize = 2
  MaxAttempts = 2
  MaxMoves = 0
  MaxStalls = 0
  MaxGrants = 1
  Gone = Gone
  NoWorker = NoWorker
PROPERTY
  ScanComesToAnEnd
