SPECIFICATION CompileSpec
CONSTANTS
  LexOps = {"kCommentN1QL"}
  Symbols = {"slashSlash", "newline", "keyword", "semicolon", "regexQuote", "other"}
  MaxRead = 6
  Features = {"regexQuote"}
CHECK_DEADLOCK FALSE
INVARIANTS SymbolsInOrder ReportedLineIsTheSources NeverTooEarly InsertionsMarkQueries
