SPECIFICATION Spec
CONSTANTS
  f1 = f1
  f2 = f2
  MaxCalls = 3
  Files = {f1, f2}
  AllowedFiles = {f1}
  Allowlist = TRUE
  Fallback = TRUE
  Parallel = TRUE
  Faults <- AllFaults
INVARIANTS TypeOK ClosedWhenIdle PublishedWasVerified PublishIsExact EditsAreKept
CHECK_DEADLOCK FALSE
