SPECIFICATION ReplaySpec
CONSTANTS
  NoCost = NoCost
  NoRoute = NoRoute
  Forbidden = {}
  RecentHistory <- Recent
  Catalogs <- ReplayCatalogs
  Requests <- ReplayRequests
  MaxCalls = 1
  Stops = {"EndTurn", "ToolUse"}
  HostOutcomes = {"Ok", "Failed"}
  Sizes = {1}
  Counts = {0}
  Routes = {1}
  ReplayRoute = 1
  Currencies = {"USD"}
  Costs <- Free
  MaxTurns = 2
  MaxToolCalls = 2
  LookbackBlocks = 6
  Ceiling <- LargeCeiling
  DefSize = 1
  Caps <- NoCache
INVARIANTS
  RecordedRunReplays
