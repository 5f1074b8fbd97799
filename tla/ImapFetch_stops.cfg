SPECIFICATION Spec
CONSTANTS
  NBoxes = 2
  MaxUid = 2
  MaxValidity = 1
  MaxSeenIDs = 1
  Lookback = TRUE
  CanStop = TRUE
CONSTRAINTS StillFailing OneInFirst
PROPERTY ProgressKept
