SPECIFICATION Benches
CONSTANTS
  Regex <- MCRegex
  Duration <- MCDuration
  LowerCase <- MCLowerCase
  Env <- MCEnv
  Home <- MCHome
  Compiles <- MCCompiles
  ExpandNode <- MCExpandNode
  PathRefs <- MCPathRefs
  FileRefs <- MCFileRefs
  Matches <- MCMatches
  ListedFiles <- MCListedFiles
  AliasedPaths <- MCAliasedPaths
  Documents <- MCDocuments
  Paths <- MCPaths
  Contents <- MCContents
  Messages <- MCMessages
  Now <- MCNow
  MaxEdits = 1
  Invocations <- MCInvocations
  Replies <- MCReplies
  PasswordCmd <- MCPasswordCmd
  MaxSlug = 3
  MaxName = 5
  MaxExt = 3
  Letters <- MCLetters
  Numeral <- MCNumeral
INVARIANTS NoSilentMiss AcceptedIsComplete ListedAsRead NeverClobbered NamesApart AncestorsSurvive
PROPERTY EventuallyInForce
CHECK_DEADLOCK FALSE
