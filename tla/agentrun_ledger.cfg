SPECIFICATION FairSpec
CONSTANTS
  NoCost = NoCost
  NoRoute = NoRoute
  Forbidden <- NeedsCapability
  RecentHistory <- Recent
  Catalogs <- LedgerCatalogs
  Requests <- ContextRequests
  MaxCalls = 1
  Stops = {"ToolUse", "MaxTokens"}
  HostOutcomes = {"NeedsInput"}
  Sizes = {1}
  Counts = {0, 100}
  Routes = {1, 2}
  Currencies = {"USD", "EUR"}
  Costs <- LedgerCosts
  MaxTurns = 3
  MaxToolCalls = 2
  LookbackBlocks = 20
  Ceiling <- LargeCeiling
  DefSize = 1
  Caps <- Router
INVARIANTS
  LedgerIsTrue
PROPERTIES
  Terminates
