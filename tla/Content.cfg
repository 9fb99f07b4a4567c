SPECIFICATION Spec
CONSTANTS
  BLOCK_SIZE = 3
  FANOUT = 2
  MinimumSavings = 1
  Limits <- MCLimits
  Scenarios <- MCScenarios
  MaxPublishRetries = 1
  MaxConflictRetries = 1
INVARIANTS
  ContentExact
  AnswersTrue
  PublishedOnceEach
  FailuresExplained
CHECK_DEADLOCK FALSE
