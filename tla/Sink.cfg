SPECIFICATION FairSpec
CONSTANTS
  Writers = {w1, w2}
  Attachments = {a, b}
INVARIANTS ReportedIsThere LinkedFilesThere
PROPERTIES PublishedOnce EventuallyArchived
