CONSTANTS
  Sources <- AllSources
  StrictJSON = FALSE
  MaxInt = 11
SPECIFICATION FairSpec
INVARIANTS TokensAreLexemes PositionsExact CommentTextNormalised LineCommentEndsLine StringsSurvive NumbersCompareByValue
PROPERTIES Terminates
CHECK_DEADLOCK FALSE
