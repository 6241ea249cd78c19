SPECIFICATION Spec
CONSTANTS
  NoCost = NoCost
  NoRoute = NoRoute
  Forbidden <- NeedsCapability
  RecentHistory <- Recent
  Catalogs <- DispatchCatalogs
  Requests <- DispatchRequests
  MaxCalls = 3
  Stops = {"EndTurn", "ToolUse"}
  HostOutcomes = {"Ok", "Failed", "Denied", "NeedsInput"}
  Sizes = {1}
  Counts = {100}
  Routes = {1}
  Currencies = {"USD"}
  Costs <- Free
  MaxTurns = 2
  MaxToolCalls = 2
  LookbackBlocks = 6
  Ceiling <- LargeCeiling
  DefSize = 1
  Caps <- Router
INVARIANTS
  TypeOK
  StreamIsClosedOnce
  HostOnlySeesVettedCalls
  TranscriptFollowsAnswers
  ResultsAreAttributable
PROPERTIES
  KeepsProtocol
