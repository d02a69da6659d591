SPECIFICATION Spec
CONSTANTS
  QueueLimit = 2
  MaximumAttempts = 2
  Paths = {1}
  Events = {1}
  EventCacheLimit = 1
  ReportLimit = 1
  GenerationLimit = 2
INVARIANT LossIsTerminal
CHECK_DEADLOCK FALSE
