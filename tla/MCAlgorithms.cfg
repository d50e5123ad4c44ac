SPECIFICATION Spec
CONSTANTS
  TargetTokens = 2
  MaximumTokens = 3
  MaxChunks = 3
  Bits = {1, 2, 3, 4}
  Digest <- Digests
  Distance = 1
  Blocks <- SomeBlocks
  MaxBlocks = 5
  Policies <- SomePolicies
  Randoms = {1, 3}
  Statuses = {0, 200, 400, 401, 403, 429, 503}
  RetryAfters = {None, 2, 9}
  Lifetimes = {None, 1, 3}
  Skew = 1
  Required = Required
  OtherScope = OtherScope
  None = None
  MaxClock = 6
CHECK_DEADLOCK FALSE
INVARIANTS
  ChunksCoverTheText
  NothingIsLost
  RetriesAreBounded
  AuthenticationFailsForAReason
