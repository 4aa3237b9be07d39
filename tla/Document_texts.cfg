CONSTANTS
  Keys = {"a", "b"}
  Alphabet <- AllTokens
  Bounds <- TextBounds
  StrictJSON = FALSE
  AllowDuplicateKeys = TRUE
  MaxDepth = 0
  MaxKeys = 0
  MaxNodes = 0
  MemberIndexMin = 2
SPECIFICATION Spec
INVARIANTS LanguageExact TreeMatchesText MemberIndexAgrees  WarningsExact
CHECK_DEADLOCK FALSE
