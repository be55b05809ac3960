CONSTANTS
  NULL = NULL
  PathText <- MCPathText
  Digit <- MCDigit
  MaxDigits = 1
  STRBUF_INITIAL_SIZE = 2
  STACK_INITIAL_SIZE = 4
  StringOf <- MCStringOf
  Scalars <- MCScalars
  TagKey <- MCTagKey
  AssetsKey <- MCAssetsKey
  UrlKey <- MCUrlKey
  Sends <- MCSends
  Tokens <- MCTokens
  MaxDepth = 5
  MaxReleases = 2
  MaxIndex = 1
  MaxString = 2
SPECIFICATION Spec
INVARIANTS
  NoUndefinedPop
  ReleasesAsPublished
  ShownReleasesExist
  LeftIsLeft
PROPERTIES
  ExitLeadsToMenu
CHECK_DEADLOCK FALSE
