SPECIFICATION Spec
CHECK_DEADLOCK FALSE
CONSTANTS
  Inputs <- All
  SourceOf <- TheSource
  Parsed <- LexAndParse
  Printed <- PrintProgram
  Rounds = 2
  MaxWidth = 60
  MaxParseDepth = 100
  MaxChainLen = 100
  MaxBigInt = 1000000
INVARIANTS ReadsBack Accepted Stable CommentsKeepPlace

