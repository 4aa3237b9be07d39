CONSTANTS
  Keys = {"a"}
  Alphabet <- AllTokens
  Bounds <- AllBounds
  StrictJSON = FALSE
  AllowDuplicateKeys = TRUE
  MaxDepth = 2
  MaxKeys = 1
  MaxNodes = 3
  MemberIndexMin = 16
  MaxDocumentSize = 2
  MaxInput = 3
SPECIFICATION FairSpec
INVARIANTS SliceHoldsOneValue LimitsPerValue
PROPERTIES MoreIsTruthful ErrorIsSticky CallsReturn
