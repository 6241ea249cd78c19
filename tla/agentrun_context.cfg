SPECIFICATION Spec
CONSTANTS
  NoCost = NoCost
  NoRoute = NoRoute
  Forbidden <- NeedsCapability
  RecentHistory <- Recent
  Catalogs <- ContextCatalogs
  Requests <- ContextRequests
  MaxCalls = 1
  Stops = {"ToolUse"}
  HostOutcomes = {"Ok"}
  Sizes = {1, 4}
  Counts = {0}
  Routes = {1}
  Currencies = {"USD"}
  Costs <- Free
  MaxTurns = 5
  MaxToolCalls = 2
  LookbackBlocks = 20
  Ceiling <- SmallCeiling
  DefSize = 1
  Caps <- Opus
INVARIANTS
  PromptIsPaired
  RecentTailIsSent
  EvictionIsHonest
  MarksLandWherePlanned
  PrefixNeverChurns
