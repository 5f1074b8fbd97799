SPECIFICATION Spec
CONSTANTS
  NBoxes = 1
  MaxUid = 2
  MaxValidity = 1
  MaxSeenIDs = 1
  Lookback = TRUE
  CanStop = TRUE
INVARIANT RefusedStaysAhead
