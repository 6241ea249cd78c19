SPECIFICATION LibrariesSpec
CONSTANTS
  Outside = {"tool"}
  Operators = {"operator"}
  Vaults = {"vault"}
  Validators = {"parser"}
  Sinks = {s1}
  Threads = {t1, t2}
  NoSink = NoSink
  MaxValues = 4
  MaxGuards = 2
  MaxMade = 5
  Own = own
  Foreign = {foreign}
  Offers <- SomeOffers
  Unavailable = Unavailable
  Arguments <- SomeArguments
  PeerRequests <- SomeRequests
  ForeignResults <- SomeResults
  Nobody = Nobody
  MaxMessages = 2
  Names = {"a", "b"}
  Sources = {"native", "mcp"}
  Namespaces = {"b"}
  Attributes <- SomeAttributes
  GrantSets <- SomeHeld
  MaxTools = 2
  SecretNames = {"API_KEY"}
  NoProgram = NoProgram
  Letters = {"a", "b"}
  WideLetters = {"w"}
  Specs <- SomeSpecs
  Policies <- SomePolicies
  Paths <- SomePaths
  Scopes <- SomeScopes
  Urls <- SomeUrls
  HostLists <- SomeHostLists
  SkillFiles <- SomeSkillFiles
  SkillGrants = {{}, {"read"}, {"read", "exec"}}
  Patterns <- SomePatterns
  Texts <- SomeTexts
  ShortWords = {"x"}
  Catalogs <- SomeCatalogs
  Queries <- SomeQueries
  Limits = {0, 1, 2, 4}
  Values <- SomeValues
  Sizes = {1, 511, 512, 1024, 3584}
  Emitted = {"TextDelta", "ToolCallStarted", "TurnStarted"}
  Capacities = {0, 1, 2}
  MaxEvents = 5
  Subscribers = {p1, p2}
  NoCard = NoCard
  MaxUpdates = 3
  Replies <- SomeReplies
  Words = {"words", ""}
  NoCarry = NoCarry
  MaxTurns = 5
  Consumptions <- SomeConsumptions
  Routes = {r1, r2}
  JournalFiles <- SomeFiles
  MaxTicks = 2
  MaxMetered = 2
  Listed <- SomeListed
  Sweeps <- SomeSweeps
  Checks <- SomeChecks
  Unreadable = Unreadable
  MaxHeard = 2
  MaxProbes = 2
  MaxDay = 1
  Outputs <- SomeOutputs
  Ceilings = {0, 1, 2, 3, 4}
  CallTrees <- SomeCallTrees
  SensitiveKeys = {"token"}
  PreviewBytes = 2
  Scripts <- SomeScripts
  Testers = {a1, a2}
  FakeTools = {"grep", "read"}
  NoTurn = NoTurn
  Panicked = Panicked
  MaxCalls = 3
INVARIANTS
  NothingIsLaundered
  RanWithWhatItDeclares
  OnlyWhatWasAskedForRuns
  WhatRunsWasApproved
  NeverQuietlyUnconfined
  NothingUngrantedPasses
  SearchFindsWhatIsThere
  DeclarationsTellTheTruth
  AcceptedMarksReachTheWire
  OnlyDeltasAreLost
  EverySubscriberHearsOneStory
  RequestSaysWhatWasMeant
  OnlyWritesAreChargedTwice
  GreenMeansEvidenced
  EachReaderHearsItsOwn
  DoublesTellTheTruth
PROPERTIES
  TrailIsComplete
  ReorderingCostsNothing
CHECK_DEADLOCK FALSE
