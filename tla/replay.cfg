SPECIFICATION ReplaySpec
CONSTANTS
  NoCost = NoCost
  NoRoute = NoRoute
  Forbidden = {}
  RecentHistory <- Recent
  Catalogs <- ReplayCatalogs
  Requests <- ReplayRequests
  MaxCalls = 1
  Stops = {"EndTurn", "ToolUse"}
  HostOutcomes = {"Ok", "Failed"}
  Sizes = {1, 2}
  Counts = {0}
  Routes = {1, 2}
  ReplayRoute = 2
  Currencies = {"USD"}
  Costs <- Free
  MaxTurns = 2
  MaxToolCalls = 2
  LookbackBlocks = 6
  Ceiling <- SmallCeiling
  DefSize = 1
  Caps <- NoCache
INVARIANTS
  ReplayIsFaithful
