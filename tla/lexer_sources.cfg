SPECIFICATION Spec
CONSTANTS
  LexOps = {"kJsify", "kUniLineN1QL", "kCommentN1QL"}
  Symbols = {"doubleQuote", "singleQuote", "slashStar", "starSlash", "slashSlash", "newline", "backslash", "keyword", "semicolon", "other"}
  MaxRead = 5
  Features = {"expression", "stringNewline"}
CHECK_DEADLOCK FALSE
INVARIANTS TypeOK NothingIsLost
PROPERTY FollowsSource
