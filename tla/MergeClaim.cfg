\* Two attempts of one commit, published once each, on one branch.
CONSTANTS
  a1 = a1
  a2 = a2
  b1 = b1
  b2 = b2
  p1 = p1
  p2 = p2
  p3 = p3
  m1 = m1
  m2 = m2
  d1 = d1
  d2 = d2
  d3 = d3
  Squash = Squash
  Absent = Absent
  Attempts = {a1, a2}
  Branches = {b1}
  BranchOf <- SharedBranchOf
  GreenRequired = {a1, a2}
  Publishes = {p1, p2}
  MergeCalls = {}
  AttemptOf <- OnceAttemptOf
  Deliveries = {d1, d2, d3}
  CommitOf <- OnceCommitOf
  Untrusted = {d3}
  LookupRetries = 1
  DeleteSourceBranch = TRUE
  Faults = {"merge_fails", "answer_lost"}
SPECIFICATION FairSpec
INVARIANTS ClaimIsKept MergedWasGreen
PROPERTIES GreenIsMerged
CHECK_DEADLOCK FALSE
