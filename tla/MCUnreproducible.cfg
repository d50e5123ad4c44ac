SPECIFICATION Spec
CONSTANTS
  Sources = {"s1", "s2"}
  Contents = {"A", "B"}
  NoContent = NoContent
  Catalogue <- TwoSources
  Relevance <- Matches
  Attributes <- SourceAttributes
  Queries <- OneQuery
  LaneCap <- SmallLanes
  PerSource = 2
  PerSection = 1
  ContextPerSource = 3
  MaxPassages = 3
  TokenBudget = 8
  MaxCitations = 2
  Requests = {r1, r2}
  MaxGeneration = 4
  MaxLapses = 0
CHECK_DEADLOCK FALSE
INVARIANT Reproducible
