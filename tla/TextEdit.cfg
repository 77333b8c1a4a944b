SPECIFICATION Spec
CONSTANTS
  a = a
  b = b
  Words = {a, b}
  Files <- FewFiles
  Calls <- AllCalls
  MaxCalls = 1
  MaxFileSize = 12
INVARIANTS
  ReplacedAsAsked QuotingIsNotWritten BlockKeepsLayout
  AliasOrderIsIrrelevant LineEndingsKept RangeIsReplaced
CHECK_DEADLOCK FALSE
