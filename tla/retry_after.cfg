SPECIFICATION Spec
CONSTANTS
  MaxAttempts = 3
  Statuses <- OneOfEach
  RetryAfters = {0, 3}
  MaxFrames = 0
  MaxLines = 0
INVARIANTS
  RetryAfterIsHonoured
