\* Eve refuses the continuation message.
CONSTANTS
  d1 = d1
  d2 = d2
  d3 = d3
  p1 = p1
  p2 = p2
  s1 = s1
  NoHolder = NoHolder
  Pipelines = {p1}
  Shas = {s1}
  ShaOf <- SameShaOf
  Deliveries = {d1, d2}
  PipelineOf <- SamePipelineOf
  Disallowed = {}
  MaxAttemptsPerSha = 2
  ProviderErrorRetries = 0
  MaxContinuations = 1
  MaxToolCalls = 0
  Faults = {"continuation_send_fails"}
SPECIFICATION Spec
PROPERTIES ReleasedDeliveryCanRetry
CHECK_DEADLOCK FALSE
