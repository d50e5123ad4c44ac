SPECIFICATION FairSpec
CONSTANTS
  a = a
  b = b
  p1 = p1
  p2 = p2
  s1 = s1
  s2 = s2
  Sources = {s1}
  Contents = {a, b}
  Versions <- OneSource
  Unindexable = {}
  Size <- Sizes
  Procs = {p1, p2}
  WorkerId <- DistinctIds
  MaxAttempts = 2
  MaxIndexed = 1
  MaxGeneration = 4
  NoContent = NoContent
  NotSeen = NotSeen
  NoWorker = NoWorker
  NoClaim = NoClaim
INVARIANTS
  TypeOK
  PointerIsReady
  NeverUndercharged
  RunningIffLeased
  SucceededIffCompleted
  LeaseMatchesClaim
PROPERTIES
  QueueImplementation
  JobsSettle
