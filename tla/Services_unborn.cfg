SPECIFICATION MCSpec
CONSTANTS
  Roots <- MCRoots
  Places <- MCPlaces
  Mails <- MCMails
  Skipped = {"1.attachments"}
  DefaultLimit = 2
  MaxLimit = 3
  DefaultBody = 2
  MaxBody = 4
  Day = 1
  MaxFileSize = 1
  MaxWrites = 3
  Workers = {w1, w2}
  MaxAttempts = 3
  MaxTroubles = 4
  Answers <- MCAnswers
  Account <- MCAccount
  Ids <- MCIds
  MaxKills = 2
INVARIANT StoredIsShown
CHECK_DEADLOCK FALSE
