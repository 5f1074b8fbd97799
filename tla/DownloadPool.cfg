SPECIFICATION FairSpec
CONSTANTS
  NIds = 4
  Concurrency = 3
PROPERTIES KeepsPromise NoCallAfterError NothingLeaks
CHECK_DEADLOCK FALSE
