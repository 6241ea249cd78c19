SPECIFICATION FairSpecOfTidyChild
CONSTANTS
  MaxAttempts = 3
  Statuses <- OneOfEach
  RetryAfters = {0}
  MaxFrames = 2
  MaxLines = 3
INVARIANTS
  DeliversWhatWasSent
  RetriesAreJustified
  EndsWithVerdict
  NoChildOutlivesItsStream
PROPERTIES
  EveryCallEnds
