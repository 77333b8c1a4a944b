SPECIFICATION Spec
CONSTANTS
  a = a
  b = b
  Words = {a, b}
  Files <- FewFiles
  Calls <- AllCalls
  MaxCalls = 1
  MaxFileSize = 12
INVARIANTS MatchedExactlyOnce
CHECK_DEADLOCK FALSE
