CONSTANTS
  Keys = {"a"}
  Alphabet <- AllTokens
  Bounds <- RewrittenBounds
  StrictJSON = FALSE
  AllowDuplicateKeys = TRUE
  MaxDepth = 3
  MaxKeys = 0
  MaxNodes = 0
  MemberIndexMin = 16
  SourceBounds <- SmallBounds
  Options <- AllOptions
SPECIFICATION FormatSpec
INVARIANTS RelayoutAgrees OutputSound CommentsKept StableElse
CHECK_DEADLOCK FALSE
