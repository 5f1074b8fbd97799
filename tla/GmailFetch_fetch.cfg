SPECIFICATION FairSpec
CONSTANTS
  MaxMail = 2
  MaxTime = 3
  PageSize = 1
  Overlap = 1
  InitialLookback = 1
  InQuery = {1}
  MaxSeenIDs = 1
  Perishable = {1}
  Suspect = {2}
  Legacy = FALSE
INVARIANT NoBlindWindow
PROPERTIES FetchContract OneFirstLook EventuallyFetched
