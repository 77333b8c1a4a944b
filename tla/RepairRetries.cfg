\* Two pipelines of one commit compete for its slot; provider retries,
\* continuations and redeliveries of what they do not repair.
CONSTANTS
  d1 = d1
  d2 = d2
  d3 = d3
  p1 = p1
  p2 = p2
  s1 = s1
  NoHolder = NoHolder
  Pipelines = {p1, p2}
  Shas = {s1}
  ShaOf <- PairShaOf
  Deliveries = {d1, d2, d3}
  PipelineOf <- RejectedPipelineOf
  Disallowed = {d3}
  MaxAttemptsPerSha = 2
  ProviderErrorRetries = 1
  MaxContinuations = 1
  MaxToolCalls = 0
  Faults = {"monitor_gives_up"}
SPECIFICATION FairSpec
INVARIANTS OneRepairPerSha
PROPERTIES
  ReleasedDeliveryCanRetry
  ImplementsRepairSlot
  RepairSettles
  RetriedUntilResolved
CHECK_DEADLOCK FALSE
