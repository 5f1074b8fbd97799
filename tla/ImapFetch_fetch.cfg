SPECIFICATION FairSpec
CONSTANTS
  NBoxes = 1
  MaxUid = 2
  MaxValidity = 2
  MaxSeenIDs = 1
  Lookback = TRUE
  CanStop = FALSE
PROPERTIES FetchContract NothingTwice EventuallyFetched
