SPECIFICATION Spec
CONSTANTS
  Sources = {"s1", "s2"}
  Contents = {"A", "B"}
  NoContent = NoContent
  Catalogue <- TwoSources
  Relevance <- Matches
  Attributes <- SourceAttributes
  Queries <- SomeQueries
  LaneCap <- SmallLanes
  PerSource = 2
  PerSection = 1
  ContextPerSource = 3
  MaxPassages = 3
  TokenBudget = 8
  MaxCitations = 2
  Requests = {r1}
  MaxGeneration = 5
  MaxLapses = 2
CHECK_DEADLOCK FALSE
INVARIANTS
  TypeOK
  ResultsWereShown
  AheadIsNotBehind
  LeftOutForAReason
  ContextFits
