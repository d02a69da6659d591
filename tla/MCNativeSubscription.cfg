SPECIFICATION FairSpec
CONSTANTS
  QueueLimit = 2
  MaximumAttempts = 2
  Paths = {1}
  Events = {1}
  EventCacheLimit = 1
  ReportLimit = 2
  GenerationLimit = 2
INVARIANTS
  OneTerminal
  GenerationFence
  OnceInOrder
  QuietWhenDone
  RecoveryAgrees
PROPERTY Reaped
CHECK_DEADLOCK FALSE
