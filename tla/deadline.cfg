SPECIFICATION FairSpec
CONSTANTS
  MaxAttempts = 1
  Statuses = {200}
  RetryAfters = {0}
  MaxFrames = 0
  MaxLines = 1
PROPERTIES
  DeadlineEndsTask
