SPECIFICATION Spec
CONSTANTS
  f1 = f1
  f2 = f2
  MaxCalls = 3
  Files = {f1, f2}
  AllowedFiles = {f1}
  Allowlist = TRUE
  Fallback = TRUE
  Parallel = FALSE
  Faults <- StagingFault
INVARIANTS ReadySnapshotIsWhole
CHECK_DEADLOCK FALSE
