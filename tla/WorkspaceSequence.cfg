SPECIFICATION Spec
CONSTANTS
  f1 = f1
  f2 = f2
  MaxCalls = 4
  Files = {f1, f2}
  AllowedFiles = {f1, f2}
  Allowlist = TRUE
  Fallback = TRUE
  Parallel = FALSE
  Faults <- SequenceFaults
INVARIANTS PublishIsExact
CHECK_DEADLOCK FALSE
