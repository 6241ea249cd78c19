SPECIFICATION Spec
CONSTANTS
  Names <- SomeNames
  GrantSets <- SomeGrants
  Wanted <- SomeWanted
  MaxAgents = 4
INVARIANTS
  GrantsNarrow
  PowersFollowContent
  NoChildBornWithAll
CHECK_DEADLOCK FALSE
