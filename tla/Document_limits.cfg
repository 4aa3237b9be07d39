CONSTANTS
  Keys = {"a"}
  Alphabet <- GrammarTokens
  Bounds <- StrictBounds
  StrictJSON = TRUE
  AllowDuplicateKeys = FALSE
  MaxDepth = 2
  MaxKeys = 1
  MaxNodes = 4
  MemberIndexMin = 16
SPECIFICATION Spec
INVARIANTS LimitsHold LimitsExact LanguageExact
CHECK_DEADLOCK FALSE
