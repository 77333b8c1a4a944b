\* A gated attempt published twice, an ungated one beside it, both called by
\* merge_change, and crashes.
CONSTANTS
  a1 = a1
  a2 = a2
  b1 = b1
  b2 = b2
  p1 = p1
  p2 = p2
  p3 = p3
  m1 = m1
  m2 = m2
  d1 = d1
  d2 = d2
  d3 = d3
  Squash = Squash
  Absent = Absent
  Attempts = {a1, a2}
  Branches = {b1, b2}
  BranchOf <- OwnBranchOf
  GreenRequired = {a1}
  Publishes = {p1, p2, p3}
  MergeCalls = {m1, m2}
  AttemptOf <- TwiceAttemptOf
  Deliveries = {d1, d2}
  CommitOf <- TwiceCommitOf
  Untrusted = {}
  LookupRetries = 0
  DeleteSourceBranch = TRUE
  Faults = {"crash", "answer_lost"}
SPECIFICATION Spec
INVARIANTS TypeOK MergedWasGreen UnpinnedIsHarmless RecordedMergeHappened
CHECK_DEADLOCK FALSE
